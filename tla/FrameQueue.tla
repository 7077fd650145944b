----------------------------- MODULE FrameQueue -----------------------------
(***************************************************************************)
(* BitMapHolder: the buffer of video frames between the camera thread and  *)
(* the recorder threads of one channel.  The frames are in a               *)
(* LinkedBlockingQueue (put and take are atomic, take blocks), but the     *)
(* number of frames is kept beside it in a plain long, and size++ and      *)
(* size-- are a load followed by a store that other threads interleave     *)
(* with.  Frames are numbered 1, 2, ... in the order the camera grabs them.*)
(***************************************************************************)
EXTENDS Integers, Sequences, FiniteSets

CONSTANTS
  Producers,        \* camera threads (UsbCameraData.run)
  Consumers,        \* recorder threads (VideoCapture)
  BitMapHolderMax,  \* VariableKeeper.APP_CONSTANT.BitMapHolderMax
  MaxFrames         \* bound: frames grabbed in a behaviour

ASSUME QueueAssumption ==
  /\ IsFiniteSet(Producers) /\ IsFiniteSet(Consumers)
  /\ Producers \cap Consumers = {}
  /\ BitMapHolderMax \in Nat
  /\ MaxFrames \in Nat

VARIABLES
  holders,  \* the LinkedBlockingQueue
  size,     \* the counter kept beside it
  op,       \* step of add() or get() each thread is in
  hand,     \* the argument of add(), or the result of get()
  reg,      \* value of size a thread has loaded and not yet stored
  grabbed,  \* frames grabbed so far: the number of the last one
  lost      \* history: by how much stores of size have overwritten others

qvars == <<holders, size, op, hand, reg, grabbed, lost>>

Threads == Producers \cup Consumers
Frames == 1..MaxFrames
NoFrame == 0

Init ==
  /\ holders = <<>>
  /\ size = 0
  /\ op = [t \in Threads |-> "idle"]
  /\ hand = [t \in Threads |-> NoFrame]
  /\ reg = [t \in Threads |-> 0]
  /\ grabbed = 0
  /\ lost = 0

\* The camera thread has a new frame and calls add(): it reads the counter
\* and gives the frame up when there are more than BitMapHolderMax of them.
AddDrops(p) ==
  /\ op[p] = "idle"
  /\ grabbed < MaxFrames
  /\ size > BitMapHolderMax
  /\ grabbed' = grabbed + 1
  /\ UNCHANGED <<holders, size, op, hand, reg, lost>>

\* Mutants of AddAccepts: no test of the counter; no argument for put().
AddAlways(p) ==
  /\ op[p] = "idle"
  /\ grabbed < MaxFrames
  /\ grabbed' = grabbed + 1
  /\ hand' = [hand EXCEPT ![p] = grabbed + 1]
  /\ op' = [op EXCEPT ![p] = "put"]
  /\ UNCHANGED <<holders, size, reg, lost>>

AddNothing(p) ==
  /\ op[p] = "idle"
  /\ grabbed < MaxFrames
  /\ size <= BitMapHolderMax
  /\ grabbed' = grabbed + 1
  /\ op' = [op EXCEPT ![p] = "put"]
  /\ UNCHANGED <<holders, size, hand, reg, lost>>

AddAccepts(p) ==
  /\ op[p] = "idle"
  /\ grabbed < MaxFrames
  /\ size <= BitMapHolderMax
  /\ grabbed' = grabbed + 1
  /\ hand' = [hand EXCEPT ![p] = grabbed + 1]
  /\ op' = [op EXCEPT ![p] = "put"]
  /\ UNCHANGED <<holders, size, reg, lost>>

\* Mutant of Put: the counter is not touched.
PutUncounted(p) ==
  /\ op[p] = "put"
  /\ holders' = Append(holders, hand[p])
  /\ hand' = [hand EXCEPT ![p] = NoFrame]
  /\ op' = [op EXCEPT ![p] = "idle"]
  /\ UNCHANGED <<size, reg, grabbed, lost>>

Put(p) ==
  /\ op[p] = "put"
  /\ holders' = Append(holders, hand[p])
  /\ hand' = [hand EXCEPT ![p] = NoFrame]
  /\ op' = [op EXCEPT ![p] = "incLoad"]
  /\ UNCHANGED <<size, reg, grabbed, lost>>

\* Mutant of Take: the newest frame is taken.
TakeNewest(c) ==
  /\ op[c] = "idle"
  /\ holders # <<>>
  /\ hand' = [hand EXCEPT ![c] = holders[Len(holders)]]
  /\ holders' = SubSeq(holders, 1, Len(holders) - 1)
  /\ op' = [op EXCEPT ![c] = "decLoad"]
  /\ UNCHANGED <<size, reg, grabbed, lost>>

\* get(): take() blocks while the queue is empty.
Take(c) ==
  /\ op[c] = "idle"
  /\ holders # <<>>
  /\ hand' = [hand EXCEPT ![c] = Head(holders)]
  /\ holders' = Tail(holders)
  /\ op' = [op EXCEPT ![c] = "decLoad"]
  /\ UNCHANGED <<size, reg, grabbed, lost>>

\* The load of size++ or size--.
Load(t, from, to) ==
  /\ op[t] = from
  /\ reg' = [reg EXCEPT ![t] = size]
  /\ op' = [op EXCEPT ![t] = to]
  /\ UNCHANGED <<holders, size, hand, grabbed, lost>>

Distance(m, n) == IF m <= n THEN n - m ELSE m - n

\* The store: it loses what others have stored since the load.
Store(t, from, delta) ==
  /\ op[t] = from
  /\ size' = reg[t] + delta
  /\ reg' = [reg EXCEPT ![t] = 0]
  /\ lost' = lost + Distance(size, reg[t])
  /\ op' = [op EXCEPT ![t] = "idle"]
  /\ UNCHANGED <<holders, hand, grabbed>>

IncLoad(p) == Load(p, "incLoad", "incStore")
IncStore(p) == Store(p, "incStore", 1)
DecLoad(c) == Load(c, "decLoad", "decStore")
DecStore(c) == Store(c, "decStore", -1)

Next ==
  \/ \E p \in Producers :
       AddDrops(p) \/ AddAccepts(p) \/ Put(p) \/ IncLoad(p) \/ IncStore(p)
  \/ \E c \in Consumers : Take(c) \/ DecLoad(c) \/ DecStore(c)

Spec == Init /\ [][Next]_qvars

-----------------------------------------------------------------------------

QTypeOK ==
  /\ holders \in Seq(Frames)
  /\ size \in Int
  /\ op \in [Threads ->
       {"idle", "put", "incLoad", "incStore", "decLoad", "decStore"}]
  /\ \A p \in Producers : op[p] \notin {"decLoad", "decStore"}
  /\ \A c \in Consumers : op[c] \in {"idle", "decLoad", "decStore"}
  /\ hand \in [Threads -> Frames \cup {NoFrame}]
  /\ \A p \in Producers : op[p] = "put" => hand[p] \in Frames
  /\ reg \in [Threads -> Int]
  /\ grabbed \in 0..MaxFrames
  /\ lost \in Nat

\* Threads that have put (taken) a frame the counter does not show yet.
Uncounted == {t \in Threads : op[t] \in {"incLoad", "incStore"}}
Overcounted == {t \in Threads : op[t] \in {"decLoad", "decStore"}}

\* What the counter would be if no update of it were lost.
Counted == Len(holders) - Cardinality(Uncounted) + Cardinality(Overcounted)

\* The counter is the length of the queue, up to the updates that are under
\* way and those that unsynchronised stores have overwritten: recorders that
\* drain by getSize() and the drop rule of add() go by it
\* (BitMapHolder.java:27, 37, 49).
SizeIsLength == Distance(size, Counted) <= lost

\* Producers that have passed the test of add() and not put their frame.
Putting == {p \in Producers : op[p] = "put"}

\* The test of add() is size > max and is not atomic with the put, so each
\* producer can take the buffer one frame past the maximum, and each lost
\* update of the counter one more, and no more (BitMapHolder.java:27-35).
BufferBound ==
  Len(holders) <= BitMapHolderMax + Cardinality(Producers) + lost
=============================================================================
