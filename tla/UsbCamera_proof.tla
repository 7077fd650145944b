-------------------------- MODULE UsbCamera_proof ---------------------------
(***************************************************************************)
(* Theorems about UsbCamera.  What the library does for one camera is      *)
(* stated first, as lemmas about its functions; the invariant then relates *)
(* the cameras to the objects and to what the main thread is doing.        *)
(***************************************************************************)
EXTENDS UsbCamera, FiniteSetTheorems, SequenceTheorems, TLAPS

Results == [card : Cards, ok : BOOLEAN]

\* The numbers of objects are no None.
LEMMA ObjectsFacts ==
  /\ None \notin Objects /\ Objects \subseteq Nat /\ Objects \subseteq Handles
  /\ 0 \in Cameras /\ Cameras \subseteq Nat /\ CAMERANUM - 1 \in Cameras
  /\ BufferCount \in 0..BufferCount /\ 0 \in 0..BufferCount
BY CameraAssumption DEF Objects, None, Handles, Cameras

\* The kernel keeps a well-formed node.
LEMMA NodeTypes ==
  ASSUME NEW node \in Nodes, NEW d \in Objects, NEW n \in 0..BufferCount
  PROVE  /\ Open(node, d) \in Nodes /\ Close(node, d) \in Nodes
         /\ Request(node, d) \in Nodes /\ Mmap(node, d, n) \in Nodes
         /\ Queue(node, 0..(n - 1)) \in Nodes /\ StreamOn(node) \in Nodes
         /\ StreamOff(node, d) \in Nodes
<1> USE DEF Nodes
<1>1. Open(node, d) \in Nodes
  BY DEF Open
<1>2. Close(node, d) \in Nodes
  BY DEF Close, Released, Handles
<1>3. Request(node, d) \in Nodes
  BY DEF Request, Handles
<1>4. Mmap(node, d, n) \in Nodes
  <2>1. Buffers(d, n) \subseteq Objects \X Indexes
    BY CameraAssumption DEF Buffers, Indexes
  <2>2. node.maps \cup Buffers(d, n) \in SUBSET (Objects \X Indexes)
    BY <2>1
  <2>3. QED
    BY <2>2 DEF Mmap
<1>5. Queue(node, 0..(n - 1)) \in Nodes
  <2>1. 0..(n - 1) \subseteq Indexes
    BY CameraAssumption DEF Indexes
  <2>2. QED
    BY <2>1 DEF Queue
<1>6. StreamOn(node) \in Nodes
  BY DEF StreamOn
<1>7. StreamOff(node, d) \in Nodes
  BY DEF StreamOff
<1>8. QED
  BY <1>1, <1>2, <1>3, <1>4, <1>5, <1>6, <1>7

\* Unmapping too, whatever the library has in buffers.
LEMMA MunmapType ==
  ASSUME NEW node \in Nodes, NEW d \in Handles, NEW n \in 0..BufferCount
  PROVE  Munmap(node, d, n) \in Nodes
BY DEF Munmap, Released, Nodes, Handles

\* A camera that initmmap has initialised for object s.
Mapped(c, s) ==
  /\ c.buffers = s /\ c.n = BufferCount
  /\ Buffers(s, BufferCount) \subseteq c.node.maps
  /\ <<"buffers", s>> \in c.heap
  /\ c.node.owner = s

\* The library leaves what it has allocated for frames alone.
Keeps(c, d) == d.rgb = c.rgb /\ c.heap \subseteq d.heap

\* A call that fails leaves the camera as it was when it failed.
LEMMA FailResult ==
  ASSUME NEW c, NEW step, NEW r \in Fail(c, step)
  PROVE  r = [card |-> c, ok |-> FALSE]
BY Zenon DEF Fail, Result

\* opendevice opens the node for s or leaves an old or no descriptor.
LEMMA OpenDevice ==
  ASSUME NEW c \in Cards, NEW s \in Objects, NEW r \in opendevice(c, s)
  PROVE  /\ r \in Results /\ Keeps(c, r.card)
         /\ r.ok => r.card.fd = s
<1>1. CASE r \in Fail(c, "stat")
  <2>1. r = [card |-> c, ok |-> FALSE]
    BY <1>1, FailResult
  <2>2. QED
    BY <2>1 DEF Results, Keeps
<1>2. CASE r \in Fail([c EXCEPT !.fd = None], "open")
  <2>1. r = [card |-> [c EXCEPT !.fd = None], ok |-> FALSE]
    BY <1>2, FailResult
  <2>2. [c EXCEPT !.fd = None] \in Cards /\ Keeps(c, [c EXCEPT !.fd = None])
    BY DEF Cards, Handles, Keeps
  <2>3. QED
    BY <2>1, <2>2 DEF Results
<1>3. CASE r = Result([c EXCEPT !.fd = s, !.node = Open(c.node, s)], TRUE)
  BY <1>3, NodeTypes, ObjectsFacts DEF Result, Results, Keeps, Cards
<1>4. QED
  BY <1>1, <1>2, <1>3 DEF opendevice

\* initmmap maps every buffer, or fails and keeps what it has mapped.
LEMMA InitMmap ==
  ASSUME NEW c \in Cards, NEW s \in Objects, c.fd = s, NEW r \in initmmap(c, s)
  PROVE  /\ r \in Results /\ Keeps(c, r.card)
         /\ r.ok => r.card.fd = s /\ Mapped(r.card, s)
<1> DEFINE q == [c EXCEPT !.node = Request(c.node, c.fd)]
           M(n) == [q EXCEPT !.buffers = s, !.n = n,
                             !.heap = @ \cup {<<"buffers", s>>},
                             !.node = Mmap(q.node, c.fd, n)]
           counts == Fail(q, "count")
           callocs == Fail([q EXCEPT !.buffers = None], "calloc")
           mmaps == UNION {Fail(M(n), "mmap") : n \in 0..(BufferCount - 1)}
           done == Result(M(BufferCount), TRUE)
<1>1. q \in Cards /\ Keeps(c, q) /\ q.fd = s /\ q.node.owner = s
  BY NodeTypes DEF Cards, Keeps, Request, Nodes
<1>2. ASSUME NEW n \in 0..BufferCount
      PROVE  /\ M(n) \in Cards /\ Keeps(c, M(n)) /\ M(n).fd = s
             /\ M(n).buffers = s /\ M(n).n = n
             /\ Buffers(s, n) \subseteq M(n).node.maps
             /\ <<"buffers", s>> \in M(n).heap
             /\ M(n).node.owner = s
  <2> HIDE DEF q
  <2>1. Mmap(q.node, s, n) \in Nodes
    BY <1>1, NodeTypes DEF Cards
  <2>2. q.heap \cup {<<"buffers", s>>} \in SUBSET ({"rgb", "buffers"} \X Objects)
    BY <1>1 DEF Cards
  <2>3. M(n) \in Cards
    BY <1>1, <2>1, <2>2, ObjectsFacts DEF Cards
  <2>4. /\ M(n).fd = s /\ M(n).buffers = s /\ M(n).n = n /\ M(n).rgb = q.rgb
        /\ M(n).heap = q.heap \cup {<<"buffers", s>>}
        /\ M(n).node = Mmap(q.node, s, n)
    BY <1>1 DEF Cards
  <2>5. Buffers(s, n) \subseteq Mmap(q.node, s, n).maps
        /\ Mmap(q.node, s, n).owner = s
    BY <1>1 DEF Mmap, Nodes, Cards
  <2>6. QED
    BY <1>1, <2>3, <2>4, <2>5 DEF Keeps
<1>3. CASE r \in counts
  <2>1. r = [card |-> q, ok |-> FALSE]
    BY <1>3, FailResult
  <2>2. QED
    BY <1>1, <2>1 DEF Results
<1>4. CASE r \in callocs
  <2>1. r = [card |-> [q EXCEPT !.buffers = None], ok |-> FALSE]
    BY <1>4, FailResult
  <2>2. [q EXCEPT !.buffers = None] \in Cards
        /\ Keeps(c, [q EXCEPT !.buffers = None])
    <3> HIDE DEF q
    <3>1. QED
      BY <1>1 DEF Cards, Handles, Keeps
  <2>3. QED
    BY <2>1, <2>2 DEF Results
<1>5. CASE r \in mmaps
  <2>1. PICK n \in 0..(BufferCount - 1) : r \in Fail(M(n), "mmap")
    BY <1>5, Zenon
  <2>2. r = [card |-> M(n), ok |-> FALSE]
    BY <2>1, FailResult
  <2>3. n \in 0..BufferCount
    BY CameraAssumption
  <2>4. QED
    BY <1>2, <2>2, <2>3 DEF Results
<1>6. CASE r = done
  <2>1. r = [card |-> M(BufferCount), ok |-> TRUE]
    BY <1>6 DEF Result
  <2>2. QED
    BY <1>2, <2>1, ObjectsFacts DEF Results, Mapped
<1>7. initmmap(c, s) = counts \cup callocs \cup mmaps \cup {done}
  BY DEF initmmap
<1> HIDE DEF counts, callocs, mmaps, done
<1>8. r \in counts \/ r \in callocs \/ r \in mmaps \/ r = done
  BY <1>7
<1>9. QED
  BY <1>3, <1>4, <1>5, <1>6, <1>8

\* So does initdevice.
LEMMA InitDevice ==
  ASSUME NEW c \in Cards, NEW s \in Objects, c.fd = s, NEW r \in initdevice(c, s)
  PROVE  /\ r \in Results /\ Keeps(c, r.card)
         /\ r.ok => r.card.fd = s /\ Mapped(r.card, s)
<1>1. CASE r \in Fail(c, "init") \/ r = Result(c, FALSE)
  <2>1. r = [card |-> c, ok |-> FALSE]
    BY <1>1, FailResult DEF Result
  <2>2. QED
    BY <2>1 DEF Results, Keeps
<1>2. CASE r \in initmmap(c, s)
  BY <1>2, InitMmap
<1>3. QED
  BY <1>1, <1>2 DEF initdevice

\* startcapturing leaves the mappings alone and turns the stream on.
LEMMA StartCapturing ==
  ASSUME NEW c \in Cards, NEW s \in Objects, c.fd = s, Mapped(c, s),
         NEW r \in startcapturing(c)
  PROVE  /\ r \in Results /\ Keeps(c, r.card)
         /\ r.ok => r.card.fd = s /\ Mapped(r.card, s) /\ r.card.node.on
<1> DEFINE Q(n) == [c EXCEPT !.node = Queue(c.node, 0..(n - 1))]
           starts == UNION {Fail(Q(n), "start") : n \in 0..c.n}
           done == Result([Q(c.n) EXCEPT !.node = StreamOn(Q(c.n).node)], TRUE)
<1>1. ASSUME NEW n \in 0..BufferCount
      PROVE  /\ Q(n) \in Cards /\ Keeps(c, Q(n)) /\ Q(n).fd = s /\ Mapped(Q(n), s)
  <2>1. Queue(c.node, 0..(n - 1)) \in Nodes
    BY NodeTypes, ObjectsFacts DEF Cards
  <2>2. /\ Queue(c.node, 0..(n - 1)).maps = c.node.maps
        /\ Queue(c.node, 0..(n - 1)).owner = c.node.owner
    BY DEF Queue, Cards, Nodes
  <2>3. QED
    BY <2>1, <2>2 DEF Cards, Keeps, Mapped
<1>2. CASE r \in starts
  <2>1. PICK n \in 0..c.n : r \in Fail(Q(n), "start")
    BY <1>2, Zenon
  <2>2. r = [card |-> Q(n), ok |-> FALSE]
    BY <2>1, FailResult
  <2>3. QED
    BY <1>1, <2>2 DEF Results, Mapped
<1>3. CASE r = done
  <2> DEFINE q == Q(c.n)
  <2>1. q \in Cards /\ Keeps(c, q) /\ q.fd = s /\ Mapped(q, s)
    BY <1>1, ObjectsFacts DEF Mapped
  <2>2. r = [card |-> [q EXCEPT !.node = StreamOn(q.node)], ok |-> TRUE]
    BY <1>3 DEF Result
  <2> HIDE DEF q
  <2>3. StreamOn(q.node) \in Nodes
    BY <2>1, NodeTypes, ObjectsFacts DEF Cards
  <2>4. /\ StreamOn(q.node).maps = q.node.maps
        /\ StreamOn(q.node).owner = q.node.owner /\ StreamOn(q.node).on
    BY <2>1 DEF StreamOn, Cards, Nodes
  <2>5. QED
    BY <2>1, <2>2, <2>3, <2>4 DEF Cards, Results, Keeps, Mapped
<1>4. startcapturing(c) = starts \cup {done}
  BY DEF startcapturing
<1> HIDE DEF starts, done
<1>5. r \in starts \/ r = done
  BY <1>4
<1>6. QED
  BY <1>2, <1>3, <1>5

\* tried opens, initialises and starts the camera for s, or fails.
LEMMA Tried ==
  ASSUME NEW c \in Cards, NEW s \in Objects, NEW r \in tried(c, s)
  PROVE  /\ r \in Results /\ Keeps(c, r.card)
         /\ r.ok => r.card.fd = s /\ Mapped(r.card, s) /\ r.card.node.on
<1> DEFINE opened == opendevice(c, s)
           Inits(x) == IF x.ok THEN initdevice(x.card, s) ELSE {x}
           Starts(y) == IF y.ok THEN startcapturing(y.card) ELSE {y}
<1>1. r \in UNION {Starts(y) : y \in UNION {Inits(x) : x \in opened}}
  BY Zenon DEF tried
<1> HIDE DEF opened, Inits, Starts
<1>2. PICK y \in UNION {Inits(x) : x \in opened} : r \in Starts(y)
  BY <1>1, Zenon
<1>3. PICK x \in opened : y \in Inits(x)
  BY <1>2, Zenon
<1>4. /\ x \in Results /\ Keeps(c, x.card)
      /\ x.ok => x.card.fd = s
  BY OpenDevice DEF opened
<1>5. /\ y \in Results /\ Keeps(x.card, y.card)
      /\ y.ok => y.card.fd = s /\ Mapped(y.card, s)
  <2>1. CASE x.ok
    BY <2>1, <1>3, <1>4, InitDevice DEF Inits, Results
  <2>2. CASE ~x.ok
    BY <2>2, <1>3, <1>4 DEF Inits, Keeps
  <2>3. QED
    BY <2>1, <2>2
<1>6. /\ r \in Results /\ Keeps(y.card, r.card)
      /\ r.ok => r.card.fd = s /\ Mapped(r.card, s) /\ r.card.node.on
  <2>1. CASE y.ok
    BY <2>1, <1>2, <1>5, StartCapturing DEF Starts, Results
  <2>2. CASE ~y.ok
    BY <2>2, <1>2, <1>5 DEF Starts, Keeps
  <2>3. QED
    BY <2>1, <2>2
<1>7. Keeps(c, r.card)
  BY <1>4, <1>5, <1>6 DEF Keeps
<1>8. QED
  BY <1>6, <1>7

\* What stopCamera will do for the camera is defined.
Held(c) ==
  c.fd # None => /\ Buffers(c.buffers, c.n) \subseteq c.node.maps
                 /\ <<"buffers", c.buffers>> \in c.heap

\* The frame memory of the camera has not been freed.
Live(c) == c.rgb = None \/ <<"rgb", c.rgb>> \in c.heap

\* The camera is open and streaming for s.
Streams(c, s) == c.fd = s /\ c.node.owner = s /\ c.node.on

\* prepareCamera prepares the camera for s, or leaves it without descriptor
\* and with the frame memory it had.
LEMMA Prepared ==
  ASSUME NEW c \in Cards, NEW s \in Objects, NEW r \in prepared(c, s)
  PROVE  /\ r \in Results /\ Held(r.card)
         /\ r.ok => Live(r.card) /\ Streams(r.card, s) /\ r.card.rgb = s
         /\ ~r.ok => Keeps(c, r.card)
<1> DEFINE P(x) ==
      IF x.ok
        THEN Result([x.card EXCEPT !.rgb = s, !.heap = @ \cup {<<"rgb", s>>}], TRUE)
      ELSE IF x.card.fd # None
        THEN Result([x.card EXCEPT !.fd = None,
                                   !.node = Close(x.card.node, x.card.fd)], FALSE)
      ELSE x
<1>1. r \in {P(x) : x \in tried(c, s)}
  BY Zenon DEF prepared
<1> HIDE DEF P
<1>2. PICK x \in tried(c, s) : r = P(x)
  BY <1>1, Zenon
<1>3. /\ x \in Results /\ Keeps(c, x.card)
      /\ x.ok => x.card.fd = s /\ Mapped(x.card, s) /\ x.card.node.on
  BY Tried
<1> DEFINE d == x.card
<1>4. d \in Cards /\ x.ok \in BOOLEAN
  BY <1>3 DEF Results
<1>5. CASE x.ok
  <2>1. r = [card |-> [d EXCEPT !.rgb = s, !.heap = @ \cup {<<"rgb", s>>}],
             ok |-> TRUE]
    BY <1>2, <1>5 DEF P, Result
  <2>2. d.fd = s /\ Mapped(d, s) /\ d.node.on
    BY <1>3, <1>5
  <2> HIDE DEF d
  <2>3. [d EXCEPT !.rgb = s, !.heap = @ \cup {<<"rgb", s>>}] \in Cards
    <3>1. d.heap \cup {<<"rgb", s>>} \in SUBSET ({"rgb", "buffers"} \X Objects)
      BY <1>4 DEF Cards
    <3>2. QED
      BY <1>4, <3>1, ObjectsFacts DEF Cards
  <2>4. QED
    BY <1>4, <2>1, <2>2, <2>3 DEF Results, Held, Live, Streams, Mapped, Cards
<1>6. CASE ~x.ok /\ d.fd # None
  <2>1. r = [card |-> [d EXCEPT !.fd = None, !.node = Close(d.node, d.fd)],
             ok |-> FALSE]
    BY <1>2, <1>6 DEF P, Result
  <2>2. Keeps(c, d)
    BY <1>3
  <2> HIDE DEF d
  <2>3. Close(d.node, d.fd) \in Nodes
    BY <1>4, <1>6, NodeTypes DEF Cards, Handles
  <2>4. [d EXCEPT !.fd = None, !.node = Close(d.node, d.fd)] \in Cards
    BY <1>4, <2>3 DEF Cards, Handles
  <2>5. QED
    BY <1>4, <2>1, <2>2, <2>4 DEF Results, Held, Keeps, Cards
<1>7. CASE ~x.ok /\ d.fd = None
  <2>1. r = x
    BY <1>2, <1>7 DEF P
  <2>2. QED
    BY <1>3, <1>7, <2>1 DEF Held
<1>8. QED
  BY <1>5, <1>6, <1>7

\* stopCamera leaves a camera without descriptor.
LEMMA Stopped ==
  ASSUME NEW c \in Cards
  PROVE  /\ stopped(c) \in Cards /\ Held(stopped(c)) /\ stopped(c).rgb = c.rgb
<1>1. closed(c) \in Cards /\ closed(c).fd = None /\ closed(c).rgb = c.rgb
  <2>1. CASE c.fd = None
    BY <2>1 DEF closed
  <2>2. CASE c.fd # None
    <3> DEFINE a == [c EXCEPT !.node = StreamOff(c.node, c.fd)]
               b == uninitdevice(a)
    <3>1. c.fd \in Objects /\ c.node \in Nodes
      BY <2>2 DEF Cards, Handles
    <3>2. a \in Cards
      BY <3>1, NodeTypes, ObjectsFacts DEF Cards
    <3> HIDE DEF a
    <3>3. Munmap(a.node, a.buffers, a.n) \in Nodes
      BY <3>2, MunmapType DEF Cards
    <3>4. b \in Cards /\ b.rgb = a.rgb /\ a.rgb = c.rgb
      BY <3>2, <3>3 DEF uninitdevice, Cards, a
    <3> HIDE DEF b
    <3>5. Close(b.node, c.fd) \in Nodes
      BY <3>1, <3>4, NodeTypes, ObjectsFacts DEF Cards
    <3>6. [b EXCEPT !.fd = None, !.node = Close(b.node, c.fd)] \in Cards
      BY <3>4, <3>5 DEF Cards, Handles
    <3>7. closed(c) = [b EXCEPT !.fd = None, !.node = Close(b.node, c.fd)]
      BY <2>2, Zenon DEF closed, a, b
    <3>8. QED
      BY <3>4, <3>6, <3>7 DEF Cards
  <2>3. QED
    BY <2>1, <2>2
<1>2. QED
  BY <1>1 DEF stopped, Held, Cards
-----------------------------------------------------------------------------
\* TypeOK, but for the broadcasts sent and the histories.
Types ==
  /\ card \in [Cameras -> Cards]
  /\ obj \in [Objects -> ObjectStates]
  /\ born \in 0..MaxRecords
  /\ mpc \in {"idle", "prepare", "wait", "stop"}
  /\ mobj \in Handles /\ (mpc # "idle" => mobj \in Objects)
  /\ mcam \in Cameras

Turning == {"loop", "take", "copy", "turn"}

\* An object that has not been prepared yet.
Fresh(s) ==
  /\ obj[s].flag = 1 /\ obj[s].bitmap /\ ~obj[s].registered
  /\ obj[s].pc = "none"

\* The main thread is busy with an object that is ready for it.
Busy ==
  /\ mpc = "prepare" => mobj = born
  /\ mpc \in {"wait", "stop"} => obj[mobj].registered /\ obj[mobj].flag = 0
  /\ \A s \in Objects : s > born \/ (mpc = "prepare" /\ s = mobj) => Fresh(s)

Calm == strayed \cap {"overlap", "lost"} = {}

\* At most one object uses the cameras, and the frame memories it uses, or
\* may yet stop, are alive.
Owned ==
  /\ \A s, t \in Objects : obj[s].registered /\ obj[t].registered => s = t
  /\ mpc = "prepare" => /\ \A s \in Objects : ~obj[s].registered
                        /\ \A i \in Cameras : i < mcam => Live(card[i])
  /\ mpc = "stop" => \A i \in Cameras : i >= mcam => Live(card[i])
  /\ mpc \in {"idle", "wait"} /\ (\E s \in Objects : obj[s].registered) =>
       \A i \in Cameras : Live(card[i])

\* Its thread takes images while the object is registered, and not once the
\* receiver has waited for it.
Turns ==
  /\ \A s \in Objects :
       /\ obj[s].pc \in Turning => obj[s].registered /\ obj[s].bitmap
       /\ obj[s].flag = 0 /\ obj[s].tested => obj[s].pc \notin Turning
       /\ obj[s].pc = "copy" => /\ obj[s].image = card[0].rgb
                                /\ <<"rgb", obj[s].image>> \in card[0].heap
  /\ mpc = "stop" => obj[mobj].pc \notin Turning

IInv ==
  /\ Types /\ Busy
  /\ \A i \in Cameras : Held(card[i])
  /\ UnmapsOnce
  /\ Calm => Owned /\ "free rgb" \notin undefined
  /\ strayed = {} => Turns /\ undefined \cap {"freed image", "wild pixels"} = {}

\* The invariant holds at the start.
LEMMA IInvInit == Init => IInv
<1> SUFFICES ASSUME Init PROVE IInv
  OBVIOUS
<1>1. NewCard \in Cards /\ Held(NewCard) /\ Live(NewCard)
  BY ObjectsFacts DEF NewCard, Cards, Nodes, NewNode, Handles, Held, Live
<1>2. NewObject \in ObjectStates
  BY DEF NewObject, ObjectStates, Handles
<1>3. Types /\ \A i \in Cameras : Held(card[i]) /\ Live(card[i])
  BY <1>1, <1>2, CameraAssumption, ObjectsFacts DEF Init, Types, Handles
<1>4. \A s \in Objects :
        obj[s].flag = 1 /\ obj[s].bitmap /\ ~obj[s].registered /\ obj[s].pc = "none"
  BY DEF Init, NewObject
<1>5. mpc = "idle" /\ undefined = {} /\ strayed = {}
  BY DEF Init
<1>6. Busy /\ Owned /\ Turns
  BY <1>3, <1>4, <1>5 DEF Busy, Fresh, Owned, Turns, Turning
<1>7. QED
  BY <1>3, <1>5, <1>6 DEF IInv, UnmapsOnce

\* A press of "record" makes the main thread busy with a new object.
LEMMA PressKeeps == IInv /\ PressRecord => IInv'
<1> SUFFICES ASSUME IInv, PressRecord PROVE IInv'
  OBVIOUS
<1>1. /\ mpc = "idle" /\ born < MaxRecords /\ born' = born + 1
      /\ mpc' = "prepare" /\ mobj' = born + 1 /\ mcam' = 0
      /\ strayed' = strayed \cup
           IF \E s \in Objects : obj[s].registered THEN {"overlap"} ELSE {}
      /\ UNCHANGED <<card, obj, undefined>>
  BY DEF PressRecord
<1>2. born \in 0..MaxRecords /\ MaxRecords \in Nat
  BY CameraAssumption DEF IInv, Types
<1>3. born + 1 \in Objects /\ born + 1 \in 0..MaxRecords
  BY <1>1, <1>2 DEF Objects
<1>4. Types'
  BY <1>1, <1>3, ObjectsFacts DEF IInv, Types
<1>5. Busy'
  <2>1. \A s \in Objects : s > born => Fresh(s)
    BY DEF IInv, Busy
  <2>2. \A s \in Objects : s > born + 1 \/ s = born + 1 => s > born
    BY <1>2 DEF Objects
  <2>3. \A s \in Objects : s > born' \/ s = mobj' => Fresh(s)'
    BY <1>1, <2>1, <2>2 DEF Fresh
  <2>4. QED
    BY <1>1, <2>3 DEF Busy
<1>6. (\A i \in Cameras : Held(card[i]))' /\ UnmapsOnce'
  BY <1>1 DEF IInv, UnmapsOnce
<1>7. Calm' => Owned' /\ "free rgb" \notin undefined'
  <2> SUFFICES ASSUME Calm' PROVE Owned' /\ "free rgb" \notin undefined'
    OBVIOUS
  <2>1. Calm /\ \A s \in Objects : ~obj[s].registered
    BY <1>1 DEF Calm
  <2>2. Owned'
    BY <1>1, <2>1, ObjectsFacts DEF Owned
  <2>3. QED
    BY <1>1, <2>1, <2>2 DEF IInv
<1>8. strayed' = {} => Turns' /\ (undefined \cap {"freed image", "wild pixels"} = {})'
  BY <1>1 DEF IInv, Turns
<1>9. QED
  BY <1>4, <1>5, <1>6, <1>7, <1>8 DEF IInv

\* One object changes and the others do not.
LEMMA OneObject ==
  ASSUME obj \in [Objects -> ObjectStates], NEW s \in Objects,
         NEW o \in ObjectStates, obj' = [obj EXCEPT ![s] = o]
  PROVE  /\ obj' \in [Objects -> ObjectStates] /\ obj'[s] = o
         /\ \A t \in Objects : t # s => obj'[t] = obj[t]
OBVIOUS

\* A turn of prepareCamera prepares the next camera for the new object.
LEMMA PrepareKeeps == IInv /\ PrepareCamera => IInv'
<1> SUFFICES ASSUME IInv, PrepareCamera PROVE IInv'
  OBVIOUS
<1> DEFINE last == mcam = CAMERANUM - 1
<1>1. /\ mpc = "prepare" /\ mobj \in Objects /\ mobj = born /\ mcam \in Cameras
      /\ card \in [Cameras -> Cards] /\ obj \in [Objects -> ObjectStates]
      /\ Fresh(mobj)
  BY DEF PrepareCamera, IInv, Types, Busy
<1>2. PICK r \in prepared(card[mcam], mobj) :
        /\ card' = [card EXCEPT ![mcam] = r.card]
        /\ strayed' = strayed
             \cup (IF ~r.ok /\ card[mcam].rgb # None THEN {"lost"} ELSE {})
             \cup (IF ~r.ok /\ <<"buffers", mobj>> \in r.card.heap THEN {"half"} ELSE {})
        /\ obj' = [obj EXCEPT ![mobj].exists = IF mcam = 0 THEN r.ok ELSE @,
                     ![mobj].registered = (mcam = CAMERANUM - 1),
                     ![mobj].pc = IF mcam = CAMERANUM - 1 THEN "loop" ELSE @]
  BY Zenon DEF PrepareCamera
<1>3. /\ last => mpc' = "idle" /\ mobj' = None /\ mcam' = 0
      /\ ~last => mpc' = mpc /\ mobj' = mobj /\ mcam' = mcam + 1
      /\ born' = born /\ undefined' = undefined
  BY DEF PrepareCamera
<1>4. /\ r \in Results /\ Held(r.card)
      /\ r.ok => Live(r.card) /\ Streams(r.card, mobj)
      /\ ~r.ok => Keeps(card[mcam], r.card)
  BY <1>1, Prepared
<1>5. /\ card' \in [Cameras -> Cards] /\ card'[mcam] = r.card
      /\ \A i \in Cameras : i # mcam => card'[i] = card[i]
  BY <1>1, <1>2, <1>4 DEF Results
<1>6. /\ \A t \in Objects : t # mobj => obj'[t] = obj[t]
      /\ obj'[mobj].exists = (IF mcam = 0 THEN r.ok ELSE obj[mobj].exists)
      /\ obj'[mobj].registered = last
      /\ obj'[mobj].pc = (IF last THEN "loop" ELSE obj[mobj].pc)
      /\ obj'[mobj].flag = obj[mobj].flag /\ obj'[mobj].bitmap = obj[mobj].bitmap
      /\ obj' \in [Objects -> ObjectStates]
  <2> DEFINE ex == IF mcam = 0 THEN r.ok ELSE obj[mobj].exists
             pc == IF last THEN "loop" ELSE obj[mobj].pc
             o == [obj[mobj] EXCEPT !.exists = ex, !.registered = last, !.pc = pc]
  <2>1. obj[mobj] \in ObjectStates /\ r.ok \in BOOLEAN
    BY <1>1, <1>4 DEF Results
  <2>2. ex \in BOOLEAN /\ last \in BOOLEAN
        /\ pc \in {"none", "loop", "take", "copy", "turn", "ended", "crashed"}
    BY <2>1 DEF ObjectStates
  <2>3. obj' = [obj EXCEPT ![mobj] = o]
    BY <1>1, <1>2
  <2> HIDE DEF ex, pc, last
  <2>4. /\ o \in ObjectStates /\ o.exists = ex /\ o.registered = last /\ o.pc = pc
        /\ o.flag = obj[mobj].flag /\ o.bitmap = obj[mobj].bitmap
    BY <2>1, <2>2 DEF ObjectStates
  <2> HIDE DEF o
  <2>5. obj'[mobj] = o /\ obj' \in [Objects -> ObjectStates]
        /\ \A t \in Objects : t # mobj => obj'[t] = obj[t]
    BY <1>1, <2>3, <2>4
  <2>6. QED
    BY <2>4, <2>5 DEF ex, pc
<1> HIDE DEF last
<1>7. mcam \in Nat /\ mcam' \in Cameras /\ \A i \in Cameras : i < mcam' => i <= mcam
  <2>1. CASE last
    BY <2>1, <1>1, <1>3, ObjectsFacts
  <2>2. CASE ~last
    BY <2>2, <1>1, <1>3, CameraAssumption DEF last, Cameras
  <2>3. QED
    BY <2>1, <2>2
<1>8. Types'
  BY <1>1, <1>3, <1>5, <1>6, <1>7, ObjectsFacts DEF IInv, Types, Handles
<1>9. Busy'
  <2>1. \A s \in Objects : s > born \/ (mpc = "prepare" /\ s = mobj) => Fresh(s)
    BY DEF IInv, Busy
  <2>2. \A s \in Objects : s > born => s # mobj
    BY <1>1, ObjectsFacts
  <2>3. \A s \in Objects : s > born => Fresh(s)'
    BY <1>6, <2>1, <2>2 DEF Fresh
  <2>4. ~last => Fresh(mobj)'
    BY <1>1, <1>3, <1>6, Zenon DEF Fresh
  <2>5. QED
    BY <1>1, <1>3, <2>3, <2>4 DEF Busy
<1>10. (\A i \in Cameras : Held(card[i]))'
  <2>1. \A i \in Cameras : Held(card'[i])
    BY <1>4, <1>5 DEF IInv
  <2>2. QED
    BY <2>1 DEF Held
<1>11. UnmapsOnce'
  BY <1>3 DEF IInv, UnmapsOnce
<1>12. Calm' => /\ Calm /\ Live(card'[mcam])
                /\ "free rgb" \notin undefined'
  <2> SUFFICES ASSUME Calm' PROVE Calm /\ Live(card'[mcam]) /\ "free rgb" \notin undefined'
    OBVIOUS
  <2>1. Calm /\ (~r.ok => card[mcam].rgb = None)
    BY <1>2 DEF Calm
  <2>2. ~r.ok => Live(r.card)
    BY <1>4, <2>1 DEF Keeps, Live
  <2>3. QED
    BY <1>3, <1>4, <1>5, <2>1, <2>2 DEF IInv
<1>13. ASSUME Calm' PROVE Owned'
  <2>1. /\ Owned /\ Live(card'[mcam])
        /\ \A s \in Objects : ~obj[s].registered
        /\ \A i \in Cameras : i < mcam => Live(card[i])
    BY <1>1, <1>12, <1>13 DEF IInv, Owned
  <2>2. \A s \in Objects : obj'[s].registered => last /\ s = mobj
    BY <1>6, <2>1
  <2>3. \A i \in Cameras : i <= mcam => Live(card'[i])
    <3>1. \A i \in Cameras : i <= mcam => i = mcam \/ i < mcam
      BY <1>7, ObjectsFacts
    <3>2. QED
      BY <1>5, <2>1, <3>1
  <2>4. last => \A i \in Cameras : i <= mcam
    BY <1>1, CameraAssumption DEF last, Cameras
  <2>5. \A i \in Cameras : Live(card[i])' = Live(card'[i])
    BY DEF Live
  <2>6. CASE last
    BY <1>3, <2>2, <2>3, <2>4, <2>5, <2>6 DEF Owned
  <2>7. CASE ~last
    BY <1>1, <1>3, <1>7, <2>2, <2>3, <2>5, <2>7 DEF Owned
  <2>8. QED
    BY <2>6, <2>7
<1>14. ASSUME strayed' = {}
       PROVE  Turns' /\ (undefined \cap {"freed image", "wild pixels"} = {})'
  <2>1. strayed = {} /\ Calm'
    BY <1>2, <1>14 DEF Calm
  <2>2. /\ Turns /\ undefined \cap {"freed image", "wild pixels"} = {}
        /\ \A s \in Objects : ~obj[s].registered
    BY <1>1, <1>12, <2>1 DEF IInv, Owned
  <2>3. \A s \in Objects : obj[s].pc \notin Turning
    BY <2>2 DEF Turns
  <2>4. \A s \in Objects : obj'[s].pc \in Turning =>
          /\ s = mobj /\ last /\ obj'[s].registered /\ obj'[s].bitmap
          /\ obj'[s].flag = 1 /\ obj'[s].pc = "loop"
    BY <1>1, <1>6, <2>3 DEF Fresh
  <2>5. \A s \in Objects : obj'[s].pc # "copy"
    BY <2>4 DEF Turning
  <2>6. mpc' # "stop"
    BY <1>1, <1>3
  <2>7. Turns'
    BY <2>4, <2>5, <2>6 DEF Turns
  <2>8. QED
    BY <1>3, <2>2, <2>7
<1>15. QED
  BY <1>8, <1>9, <1>10, <1>11, <1>12, <1>13, <1>14 DEF IInv

\* Sending a broadcast and skipping a receiver disturb nothing the invariant
\* speaks of.
LEMMA LooperKeeps ==
  IInv /\ (SendStop \/ \E s \in Objects : SkipStop(s)) => IInv'
<1> SUFFICES ASSUME IInv, SendStop \/ \E s \in Objects : SkipStop(s) PROVE IInv'
  OBVIOUS
<1>1. UNCHANGED <<card, obj, born, mpc, mobj, mcam, undefined, strayed>>
  BY DEF SendStop, SkipStop, history
<1>2. Types' /\ Busy'
  BY <1>1 DEF IInv, Types, Busy, Fresh
<1>3. Calm' => Owned'
  BY <1>1 DEF IInv, Calm, Owned
<1>4. strayed' = {} => Turns'
  BY <1>1 DEF IInv, Turns
<1>5. QED
  BY <1>1, <1>2, <1>3, <1>4 DEF IInv, Calm, UnmapsOnce

\* The receiver clears the flag of its object's thread.
LEMMA ReceiveKeeps ==
  ASSUME IInv, NEW s \in Objects, ReceiveStop(s) PROVE IInv'
<1>1. /\ mpc = "idle" /\ obj[s].registered /\ mpc' = "wait" /\ mobj' = s
      /\ obj' = [obj EXCEPT ![s].flag = 0, ![s].tested = FALSE]
      /\ UNCHANGED <<card, born, mcam, undefined, strayed>>
  BY DEF ReceiveStop, NextReceiver, history
<1>2. obj \in [Objects -> ObjectStates]
  BY DEF IInv, Types
<1>3. /\ \A t \in Objects : t # s => obj'[t] = obj[t]
      /\ obj'[s].flag = 0 /\ ~obj'[s].tested /\ obj'[s].pc = obj[s].pc
      /\ obj'[s].registered = obj[s].registered /\ obj'[s].exists = obj[s].exists
      /\ obj'[s].bitmap = obj[s].bitmap /\ obj'[s].image = obj[s].image
      /\ obj' \in [Objects -> ObjectStates]
  <2> DEFINE o == [obj[s] EXCEPT !.flag = 0, !.tested = FALSE]
  <2>1. obj[s] \in ObjectStates
    BY <1>2
  <2>2. /\ o \in ObjectStates /\ o.flag = 0 /\ ~o.tested /\ o.pc = obj[s].pc
        /\ o.registered = obj[s].registered /\ o.exists = obj[s].exists
        /\ o.bitmap = obj[s].bitmap /\ o.image = obj[s].image
    BY <2>1 DEF ObjectStates
  <2>3. obj' = [obj EXCEPT ![s] = o]
    BY <1>1, <1>2
  <2> HIDE DEF o
  <2>4. QED
    BY <1>2, <2>2, <2>3, OneObject
<1>4. Types'
  BY <1>1, <1>3, ObjectsFacts DEF IInv, Types
<1>5. Busy'
  <2>1. \A t \in Objects : t > born => Fresh(t) /\ t # s
    BY <1>1 DEF IInv, Busy, Fresh
  <2>2. \A t \in Objects : t > born => Fresh(t)'
    BY <1>3, <2>1 DEF Fresh
  <2>3. QED
    BY <1>1, <1>3, <2>2 DEF Busy
<1>6. (\A i \in Cameras : Held(card[i]))' /\ UnmapsOnce'
  BY <1>1 DEF IInv, UnmapsOnce
<1>7. \A t \in Objects : /\ obj'[t].registered = obj[t].registered
                         /\ obj'[t].exists = obj[t].exists
  BY <1>3
<1>8. ASSUME Calm' PROVE Owned' /\ "free rgb" \notin undefined'
  <2>1. Calm
    BY <1>1, <1>8 DEF Calm
  <2>2. Owned'
    BY <1>1, <1>7, <2>1 DEF IInv, Owned
  <2>3. QED
    BY <1>1, <2>1, <2>2 DEF IInv
<1>9. ASSUME strayed' = {}
      PROVE  Turns' /\ (undefined \cap {"freed image", "wild pixels"} = {})'
  <2>1. Turns /\ undefined \cap {"freed image", "wild pixels"} = {}
    BY <1>1, <1>9 DEF IInv
  <2>2. ASSUME NEW t \in Objects
        PROVE  /\ obj'[t].pc \in Turning => obj'[t].registered /\ obj'[t].bitmap
               /\ obj'[t].flag = 0 /\ obj'[t].tested => obj'[t].pc \notin Turning
               /\ obj'[t].pc = "copy" => /\ obj'[t].image = card[0].rgb
                                        /\ <<"rgb", obj'[t].image>> \in card[0].heap
    <3>1. CASE t = s
      BY <3>1, <1>3, <2>1 DEF Turns
    <3>2. CASE t # s
      BY <3>2, <1>3, <2>1, Zenon DEF Turns
    <3>3. QED
      BY <3>1, <3>2
  <2>3. Turns'
    BY <1>1, <2>2 DEF Turns
  <2>4. QED
    BY <1>1, <2>1, <2>3
<1>10. QED
  BY <1>4, <1>5, <1>6, <1>8, <1>9 DEF IInv

\* When the second is over and the thread is not late, it has left its loop.
LEMMA WaitKeeps == IInv /\ WaitOver => IInv'
<1> SUFFICES ASSUME IInv, WaitOver PROVE IInv'
  OBVIOUS
<1>1. /\ mpc = "wait" /\ mpc' = "stop" /\ mcam' = 0 /\ mobj' = mobj
      /\ strayed' = strayed \cup IF Late(mobj) THEN {"late"} ELSE {}
      /\ obj' = [obj EXCEPT ![mobj].bitmap = FALSE]
      /\ UNCHANGED <<card, born, undefined>>
  BY DEF WaitOver
<1>2. /\ obj \in [Objects -> ObjectStates] /\ mobj \in Objects
      /\ obj[mobj].registered /\ obj[mobj].flag = 0
  BY <1>1 DEF IInv, Types, Busy
<1>3. /\ \A t \in Objects : t # mobj => obj'[t] = obj[t]
      /\ obj'[mobj].flag = 0 /\ obj'[mobj].tested = obj[mobj].tested
      /\ obj'[mobj].pc = obj[mobj].pc
      /\ obj'[mobj].registered = obj[mobj].registered
      /\ obj'[mobj].exists = obj[mobj].exists
      /\ obj'[mobj].image = obj[mobj].image
      /\ obj' \in [Objects -> ObjectStates]
  <2> DEFINE o == [obj[mobj] EXCEPT !.bitmap = FALSE]
  <2>1. obj[mobj] \in ObjectStates
    BY <1>2
  <2>2. /\ o \in ObjectStates /\ o.flag = obj[mobj].flag /\ o.pc = obj[mobj].pc
        /\ o.registered = obj[mobj].registered /\ o.exists = obj[mobj].exists
        /\ o.tested = obj[mobj].tested /\ o.image = obj[mobj].image
    BY <2>1 DEF ObjectStates
  <2>3. obj' = [obj EXCEPT ![mobj] = o]
    BY <1>1, <1>2
  <2> HIDE DEF o
  <2>4. QED
    BY <1>2, <2>2, <2>3, OneObject
<1>4. Types'
  BY <1>1, <1>2, <1>3, ObjectsFacts DEF IInv, Types
<1>5. Busy'
  <2>1. \A t \in Objects : t > born => Fresh(t) /\ t # mobj
    BY <1>2 DEF IInv, Busy, Fresh
  <2>2. \A t \in Objects : t > born => Fresh(t)'
    BY <1>3, <2>1 DEF Fresh
  <2>3. obj'[mobj].registered /\ obj'[mobj].flag = 0
    BY <1>2, <1>3, Zenon
  <2>4. QED
    BY <1>1, <2>2, <2>3 DEF Busy
<1>6. (\A i \in Cameras : Held(card[i]))' /\ UnmapsOnce'
  BY <1>1 DEF IInv, UnmapsOnce
<1>7. \A t \in Objects : /\ obj'[t].registered = obj[t].registered
                         /\ obj'[t].exists = obj[t].exists
  <2>1. obj'[mobj].registered = obj[mobj].registered
    BY <1>3
  <2>2. QED
    BY <1>3, <2>1, Zenon
<1>8. ASSUME Calm' PROVE Owned' /\ "free rgb" \notin undefined'
  <2>1. Calm
    BY <1>1, <1>8 DEF Calm
  <2>2. \A i \in Cameras : Live(card[i])
    BY <1>1, <1>2, <2>1 DEF IInv, Owned
  <2>3. Owned'
    BY <1>1, <1>7, <2>1, <2>2 DEF IInv, Owned
  <2>4. QED
    BY <1>1, <2>1, <2>3 DEF IInv
<1>9. ASSUME strayed' = {}
      PROVE  Turns' /\ (undefined \cap {"freed image", "wild pixels"} = {})'
  <2>1. strayed = {} /\ ~Late(mobj)
    BY <1>1, <1>9
  <2>2. Turns /\ undefined \cap {"freed image", "wild pixels"} = {}
    BY <2>1 DEF IInv
  <2>3. obj[mobj].pc \notin Turning
    BY <1>2, <2>1, <2>2 DEF Late, Turns, Turning
  <2>4. Turns'
    BY <1>1, <1>3, <2>2, <2>3 DEF Turns, Turning
  <2>5. QED
    BY <1>1, <2>2, <2>4
<1>10. QED
  BY <1>4, <1>5, <1>6, <1>8, <1>9 DEF IInv

\* What a turn of stopCamera may run into, and what it leaves.
LEMMA StopCard ==
  ASSUME NEW c \in Cards
  PROVE  /\ Held(c) => Misuse(c) \cap {"munmap", "free buffers"} = {}
         /\ Live(c) => "free rgb" \notin Misuse(c)
         /\ Misuse(c) \subseteq {"munmap", "free buffers", "free rgb"}
BY DEF Misuse, Held, Live

\* A turn of stopCamera stops the next camera; after the last one the object
\* is no longer registered.
LEMMA StopKeeps == IInv /\ StopCamera => IInv'
<1> SUFFICES ASSUME IInv, StopCamera PROVE IInv'
  OBVIOUS
<1> DEFINE last == mcam = CAMERANUM - 1
<1>1. /\ mpc = "stop" /\ undefined' = undefined \cup Misuse(card[mcam])
      /\ card' = [card EXCEPT ![mcam] = stopped(card[mcam])]
      /\ last => /\ obj' = [obj EXCEPT ![mobj].registered = FALSE, ![mobj].util = FALSE]
                 /\ mpc' = "idle" /\ mobj' = None /\ mcam' = 0
      /\ ~last => mcam' = mcam + 1 /\ UNCHANGED <<obj, mpc, mobj>>
      /\ UNCHANGED <<born, strayed>>
  BY DEF StopCamera
<1>2. /\ obj \in [Objects -> ObjectStates] /\ mobj \in Objects /\ mcam \in Cameras
      /\ card \in [Cameras -> Cards]
      /\ obj[mobj].registered /\ obj[mobj].flag = 0
  BY <1>1 DEF IInv, Types, Busy
<1>3. /\ card' \in [Cameras -> Cards] /\ Held(card'[mcam])
      /\ \A i \in Cameras : i # mcam => card'[i] = card[i]
  BY <1>1, <1>2, Stopped
<1>4. /\ \A t \in Objects : t # mobj => obj'[t] = obj[t]
      /\ obj'[mobj].flag = 0 /\ obj'[mobj].pc = obj[mobj].pc
      /\ ~last => obj' = obj
      /\ last => ~obj'[mobj].registered
      /\ obj' \in [Objects -> ObjectStates]
  <2> DEFINE o == [obj[mobj] EXCEPT !.registered = FALSE, !.util = FALSE]
  <2>1. obj[mobj] \in ObjectStates
    BY <1>2
  <2>2. /\ o \in ObjectStates /\ o.flag = obj[mobj].flag /\ o.pc = obj[mobj].pc
        /\ ~o.registered
    BY <2>1 DEF ObjectStates
  <2>3. last => obj' = [obj EXCEPT ![mobj] = o]
    BY <1>1, <1>2
  <2> HIDE DEF o
  <2>4. CASE last
    BY <1>2, <2>2, <2>3, <2>4, OneObject
  <2>5. CASE ~last
    BY <1>1, <1>2, <2>5
  <2>6. QED
    BY <2>4, <2>5
<1>5. mcam \in Nat /\ mcam' \in Cameras
  <2>1. CASE last
    BY <2>1, <1>1, <1>2, ObjectsFacts
  <2>2. CASE ~last
    BY <2>2, <1>1, <1>2, CameraAssumption DEF last, Cameras
  <2>3. QED
    BY <2>1, <2>2
<1> HIDE DEF last
<1>6. Types'
  BY <1>1, <1>2, <1>3, <1>4, <1>5, ObjectsFacts DEF IInv, Types, Handles
<1>7. Busy'
  <2>1. \A t \in Objects : t > born => Fresh(t) /\ t # mobj
    BY <1>2 DEF IInv, Busy, Fresh
  <2>2. \A t \in Objects : t > born => Fresh(t)'
    BY <1>4, <2>1 DEF Fresh
  <2>3. ~last => obj'[mobj].registered /\ obj'[mobj].flag = 0
    BY <1>2, <1>4, Zenon
  <2>4. QED
    BY <1>1, <2>2, <2>3 DEF Busy
<1>8. (\A i \in Cameras : Held(card[i]))'
  <2>1. \A i \in Cameras : Held(card'[i])
    BY <1>3 DEF IInv
  <2>2. QED
    BY <2>1 DEF Held
<1>9. UnmapsOnce'
  BY <1>1, <1>2, StopCard DEF IInv, UnmapsOnce
<1>10. ASSUME Calm' PROVE Owned' /\ "free rgb" \notin undefined'
  <2>1. Calm /\ Owned /\ "free rgb" \notin undefined
    BY <1>1, <1>10 DEF IInv, Calm
  <2>2. \A i \in Cameras : i >= mcam => Live(card[i])
    BY <1>1, <2>1 DEF Owned
  <2>3. "free rgb" \notin undefined'
    <3>1. Live(card[mcam])
      BY <1>2, <1>5, <2>2
    <3>2. QED
      BY <1>1, <1>2, <2>1, <3>1, StopCard
  <2>4. \A s \in Objects : obj[s].registered => s = mobj
    BY <1>2, <2>1 DEF Owned
  <2>5. \A s \in Objects : obj'[s].registered => ~last /\ s = mobj
    BY <1>4, <2>4, Zenon
  <2>6. ~last => \A i \in Cameras : i >= mcam' => Live(card'[i])
    <3>1. ~last => \A i \in Cameras : i >= mcam' => i >= mcam /\ i # mcam
      BY <1>1, <1>5, ObjectsFacts
    <3>2. QED
      BY <1>3, <2>2, <3>1
  <2>7. Owned'
    <3>1. \A i \in Cameras : Live(card[i])' = Live(card'[i])
      BY DEF Live
    <3>2. CASE last
      BY <1>1, <2>5, <3>2 DEF Owned
    <3>3. CASE ~last
      BY <1>1, <2>5, <2>6, <3>1, <3>3 DEF Owned
    <3>4. QED
      BY <3>2, <3>3
  <2>8. QED
    BY <2>3, <2>7
<1>11. ASSUME strayed' = {}
       PROVE  Turns' /\ (undefined \cap {"freed image", "wild pixels"} = {})'
  <2>1. /\ Turns /\ undefined \cap {"freed image", "wild pixels"} = {}
        /\ Owned
    BY <1>1, <1>11 DEF IInv, Calm
  <2>2. \A s \in Objects : obj[s].pc \notin Turning
    <3>1. \A s \in Objects : obj[s].registered => s = mobj
      BY <1>2, <2>1 DEF Owned
    <3>2. QED
      BY <1>1, <2>1, <3>1 DEF Turns
  <2>3. \A s \in Objects : obj'[s].pc \notin Turning
    BY <1>4, <2>2
  <2>4. Turns'
    BY <1>2, <1>1, <2>3 DEF Turns, Turning
  <2>5. QED
    BY <1>1, <1>2, <2>1, <2>4, StopCard
<1>12. QED
  BY <1>6, <1>7, <1>8, <1>9, <1>10, <1>11 DEF IInv

\* A thread in its loop moves its own object on and touches nothing else the
\* invariant speaks of, but what is undefined.
Moves(s) ==
  /\ obj[s].pc \in Turning
  /\ \A t \in Objects : t # s => obj'[t] = obj[t]
  /\ obj' \in [Objects -> ObjectStates]
  /\ obj'[s].flag = obj[s].flag /\ obj'[s].registered = obj[s].registered
  /\ obj'[s].exists = obj[s].exists /\ obj'[s].bitmap = obj[s].bitmap
  /\ UNCHANGED <<card, born, mpc, mobj, mcam, strayed>>
  /\ \A u \in undefined' :
       u \in undefined \/ u = "freed image" \/ u = "wild pixels"
  /\ undefined \subseteq undefined'

\* It keeps the invariant, if it keeps the part about threads.
LEMMA MovesKeeps ==
  ASSUME IInv, NEW s \in Objects, Moves(s),
         strayed = {} => Turns' /\ undefined' = undefined
  PROVE  IInv'
<1>1. /\ UNCHANGED <<card, born, mpc, mobj, mcam, strayed>>
      /\ obj' \in [Objects -> ObjectStates]
  BY DEF Moves
<1>2. \A t \in Objects : /\ obj'[t].flag = obj[t].flag
                         /\ obj'[t].registered = obj[t].registered
                         /\ obj'[t].exists = obj[t].exists
                         /\ obj'[t].bitmap = obj[t].bitmap
  BY Zenon DEF Moves
<1>3. Types'
  BY <1>1 DEF IInv, Types
<1>4. Busy'
  <2>1. \A t \in Objects : Fresh(t) => t # s /\ Fresh(t)'
    BY DEF Moves, Fresh, Turning
  <2>2. mpc # "idle" => mobj \in Objects
    BY DEF IInv, Types
  <2>3. QED
    BY <1>1, <1>2, <2>1, <2>2 DEF IInv, Busy
<1>5. (\A i \in Cameras : Held(card[i]))' /\ UnmapsOnce'
  BY <1>1 DEF IInv, UnmapsOnce, Moves
<1>6. ASSUME Calm' PROVE Owned' /\ "free rgb" \notin undefined'
  <2>1. Calm
    BY <1>1, <1>6 DEF Calm
  <2>2. Owned'
    BY <1>1, <1>2, <2>1 DEF IInv, Owned
  <2>3. "free rgb" \notin undefined
    BY <2>1 DEF IInv
  <2>4. "free rgb" \in undefined' => "free rgb" \in undefined
    <3>1. \A u \in undefined' :
            u \in undefined \/ u = "freed image" \/ u = "wild pixels"
      BY DEF Moves
    <3>2. "free rgb" # "freed image" /\ "free rgb" # "wild pixels"
      OBVIOUS
    <3>3. QED
      BY <3>1, <3>2, Zenon
  <2>5. QED
    BY <2>2, <2>3, <2>4
<1>7. strayed' = {} => Turns' /\ (undefined \cap {"freed image", "wild pixels"} = {})'
  BY <1>1 DEF IInv
<1>8. QED
  BY <1>3, <1>4, <1>5, <1>6, <1>7 DEF IInv

\* What the thread part of the invariant asks of one object.
Turn(o) ==
  /\ o.pc \in Turning => o.registered /\ o.bitmap
  /\ o.flag = 0 /\ o.tested => o.pc \notin Turning
  /\ o.pc = "copy" => o.image = card[0].rgb /\ <<"rgb", o.image>> \in card[0].heap

\* It is enough to look at the object whose thread moves.
LEMMA MovesTurns ==
  ASSUME NEW s \in Objects, Moves(s), Turns, mobj \in Handles,
         mpc = "stop" => mobj \in Objects, Turn(obj'[s])
  PROVE  Turns'
<1>1. UNCHANGED <<card, mpc, mobj>>
  BY DEF Moves
<1>2. \A t \in Objects : Turn(obj'[t])
  <2>1. \A t \in Objects : t # s => Turn(obj[t]) /\ obj'[t] = obj[t]
    BY Zenon DEF Turns, Turn, Moves
  <2>2. QED
    BY <2>1, Zenon
<1>3. mpc = "stop" => obj'[mobj].pc \notin Turning
  <2>1. mpc = "stop" => mobj # s /\ obj[mobj].pc \notin Turning
    BY DEF Turns, Moves
  <2>2. QED
    BY <2>1 DEF Moves
<1>4. QED
  BY <1>1, <1>2, <1>3, Zenon DEF Turns, Turn

\* The steps of a thread.
LEMMA ThreadKeeps == ASSUME IInv, NEW s \in Objects, Thread(s) PROVE IInv'
<1>1. /\ obj \in [Objects -> ObjectStates] /\ obj[s] \in ObjectStates
      /\ mobj \in Handles /\ (mpc # "idle" => mobj \in Objects)
      /\ card \in [Cameras -> Cards]
  BY DEF IInv, Types
<1>2. ASSUME strayed = {}
      PROVE  /\ Turns /\ Turn(obj[s])
             /\ obj[s].pc \in Turning => Live(card[0])
  <2>1. Turns /\ Owned /\ Busy
    BY <1>2 DEF IInv, Calm
  <2>2. Turn(obj[s])
    BY <2>1, Zenon DEF Turns, Turn
  <2>3. ASSUME obj[s].pc \in Turning PROVE Live(card[0])
    <3>1. obj[s].registered
      BY <2>2, <2>3 DEF Turn
    <3>2. mpc \in {"idle", "wait"}
      <4>1. mpc # "prepare"
        BY <2>1, <3>1 DEF Owned
      <4>2. ASSUME mpc = "stop" PROVE FALSE
        <5>1. obj[mobj].registered /\ mobj \in Objects /\ obj[mobj].pc \notin Turning
          BY <1>1, <2>1, <4>2 DEF Busy, Turns
        <5>2. mobj = s
          BY <2>1, <3>1, <5>1, Zenon DEF Owned
        <5>3. QED
          BY <2>3, <5>1, <5>2
      <4>3. QED
        BY <4>1, <4>2 DEF IInv, Types
    <3>3. QED
      BY <2>1, <3>1, <3>2, ObjectsFacts DEF Owned
  <2>4. QED
    BY <2>1, <2>2, <2>3
<1>3. CASE LoopTest(s)
  <2> DEFINE on == obj[s].flag = 1 /\ obj[s].exists
             o == [obj[s] EXCEPT !.pc = IF on THEN "take" ELSE "ended", !.tested = TRUE]
  <2>1. /\ obj[s].pc = "loop"
        /\ obj' = [obj EXCEPT ![s].pc = IF on THEN "take" ELSE "ended",
                              ![s].tested = TRUE]
        /\ UNCHANGED <<card, born, mpc, mobj, mcam, strayed, undefined>>
    BY <1>3 DEF LoopTest, LoopStep, mainvars, history
  <2>2. obj' = [obj EXCEPT ![s] = o]
    BY <1>1, <2>1
  <2>3. /\ o \in ObjectStates /\ o.pc \in {"take", "ended"}
        /\ o.flag = obj[s].flag /\ o.registered = obj[s].registered
        /\ o.exists = obj[s].exists /\ o.bitmap = obj[s].bitmap
        /\ o.pc = "take" => o.flag = 1
    BY <1>1 DEF ObjectStates
  <2> HIDE DEF o
  <2>4. Moves(s) /\ obj'[s] = o
    BY <1>1, <2>1, <2>2, <2>3, OneObject DEF Moves, Turning
  <2>5. strayed = {} => Turn(obj'[s])
    BY <1>2, <2>1, <2>3, <2>4 DEF Turn, Turning
  <2>6. QED
    BY <1>1, <1>2, <2>1, <2>4, <2>5, MovesTurns, MovesKeeps
<1>4. CASE TakeImage(s)
  <2> DEFINE pc == IF card[0].rgb = None THEN "turn" ELSE "copy"
             o == [obj[s] EXCEPT !.image = card[0].rgb, !.pc = pc]
  <2>1. /\ obj[s].pc = "take"
        /\ obj' = [obj EXCEPT ![s].image = card[0].rgb, ![s].pc = pc]
        /\ undefined' = undefined \cup
             IF card[0].rgb = None \/ obj[s].bitmap THEN {} ELSE {"wild pixels"}
        /\ UNCHANGED <<card, born, mpc, mobj, mcam, strayed>>
    BY <1>4 DEF TakeImage, mainvars
  <2>2. obj' = [obj EXCEPT ![s] = o]
    BY <1>1, <2>1
  <2>3. card[0].rgb \in Handles
    BY <1>1, ObjectsFacts DEF Cards
  <2>4. /\ o \in ObjectStates /\ o.pc = pc /\ o.image = card[0].rgb
        /\ o.flag = obj[s].flag /\ o.registered = obj[s].registered
        /\ o.exists = obj[s].exists /\ o.bitmap = obj[s].bitmap
        /\ o.tested = obj[s].tested
    BY <1>1, <2>3 DEF ObjectStates
  <2> HIDE DEF o
  <2>5. Moves(s) /\ obj'[s] = o
    BY <1>1, <2>1, <2>2, <2>4, OneObject DEF Moves, Turning
  <2>6. strayed = {} => Turn(obj'[s]) /\ undefined' = undefined
    <3> SUFFICES ASSUME strayed = {} PROVE Turn(obj'[s]) /\ undefined' = undefined
      OBVIOUS
    <3>1. Turn(obj[s]) /\ Live(card[0]) /\ obj[s].pc \in Turning
      BY <1>2, <2>1 DEF Turning
    <3>2. obj[s].registered /\ obj[s].bitmap /\ ~(obj[s].flag = 0 /\ obj[s].tested)
      BY <3>1 DEF Turn
    <3>3. pc = "copy" => <<"rgb", card[0].rgb>> \in card[0].heap
      BY <3>1 DEF Live
    <3>4. Turn(o)
      BY <2>4, <3>2, <3>3 DEF Turn
    <3>5. undefined' = undefined
      BY <2>1, <3>2
    <3>6. QED
      BY <2>5, <3>4, <3>5
  <2>7. QED
    BY <1>1, <1>2, <2>1, <2>5, <2>6, MovesTurns, MovesKeeps
<1>5. ASSUME NEW from \in Turning, NEW to \in {"turn", "loop", "crashed"},
             ThreadStep(s, from, to), from = "copy" \/ undefined' = undefined,
             from = "copy" => undefined' = undefined \cup
               IF <<"rgb", obj[s].image>> \in card[0].heap THEN {} ELSE {"freed image"}
      PROVE  IInv'
  <2> DEFINE o == [obj[s] EXCEPT !.pc = to]
  <2>1. /\ obj[s].pc = from /\ obj' = [obj EXCEPT ![s].pc = to]
        /\ UNCHANGED <<card, born, mpc, mobj, mcam, strayed>>
    BY <1>5 DEF ThreadStep, mainvars
  <2>2. obj' = [obj EXCEPT ![s] = o]
    BY <1>1, <2>1
  <2>3. /\ o \in ObjectStates /\ o.pc = to
        /\ o.flag = obj[s].flag /\ o.registered = obj[s].registered
        /\ o.exists = obj[s].exists /\ o.bitmap = obj[s].bitmap
        /\ o.tested = obj[s].tested
    BY <1>1 DEF ObjectStates
  <2> HIDE DEF o
  <2>4. Moves(s) /\ obj'[s] = o
    BY <1>1, <1>5, <2>1, <2>2, <2>3, OneObject DEF Moves
  <2>5. strayed = {} => Turn(obj'[s]) /\ undefined' = undefined
    BY <1>2, <1>5, <2>1, <2>3, <2>4 DEF Turn, Turning
  <2>6. QED
    BY <1>1, <1>2, <2>1, <2>4, <2>5, MovesTurns, MovesKeeps
<1>6. CASE CopyImage(s)
  BY <1>5, <1>6 DEF CopyImage, Turning
<1>7. CASE EndTurn(s)
  BY <1>5, <1>7 DEF EndTurn, Turning
<1>8. CASE Crash(s)
  BY <1>5, <1>8 DEF Crash, Turning
<1>9. QED
  BY <1>3, <1>4, <1>6, <1>7, <1>8 DEF Thread

\* The invariant is inductive.
THEOREM UsbInductive == Spec => []IInv
<1>1. Init => IInv
  BY IInvInit
<1>2. IInv /\ [Next]_vars => IInv'
  <2>1. IInv /\ Next => IInv'
    BY PressKeeps, PrepareKeeps, LooperKeeps, ReceiveKeeps, WaitKeeps, StopKeeps,
       ThreadKeeps DEF Next, Main, Receivers
  <2>2. IInv /\ UNCHANGED vars => IInv'
    <3> SUFFICES ASSUME IInv, UNCHANGED vars PROVE IInv'
      OBVIOUS
    <3>1. UNCHANGED <<card, obj, born, mpc, mobj, mcam, undefined, strayed>>
      BY DEF vars, mainvars, history
    <3>2. Types' /\ Busy'
      BY <3>1 DEF IInv, Types, Busy, Fresh
    <3>3. Calm' => Owned'
      BY <3>1 DEF IInv, Calm, Owned
    <3>4. strayed' = {} => Turns'
      BY <3>1 DEF IInv, Turns
    <3>5. QED
      BY <3>1, <3>2, <3>3, <3>4 DEF IInv, Calm, UnmapsOnce
  <2>3. QED
    BY <2>1, <2>2
<1>3. QED
  BY <1>1, <1>2, PTL DEF Spec

\* stopCamera (mycamera.c) unmaps buffers and frees their array only once,
\* whatever fails and whatever is pressed, for any number of cameras.
THEOREM UnmapsOnceAlways == Spec => []UnmapsOnce
<1>1. IInv => UnmapsOnce
  BY DEF IInv
<1>2. QED
  BY <1>1, UsbInductive, PTL

\* It frees a frame memory once, in the intended use.
THEOREM FreedOnceAlways == Spec => []FreedOnce
<1>1. IInv => FreedOnce
  BY DEF IInv, FreedOnce, Calm
<1>2. QED
  BY <1>1, UsbInductive, PTL

\* takeImage (mycamera.c) copies live memory into a live bitmap, in the
\* intended use.
THEOREM LiveImageAlways == Spec => []LiveImage
<1>1. IInv => LiveImage
  BY DEF IInv, LiveImage
<1>2. QED
  BY <1>1, UsbInductive, PTL
-----------------------------------------------------------------------------
\* The cameras of an object, in the use that presses "record" only after
\* "stop".

Single == "overlap" \notin strayed

\* No camera has been prepared for an object to come, or is already prepared
\* for the object whose turn is to come.
Named ==
  /\ \A i \in Cameras : card[i].rgb <= born
  /\ mpc = "prepare" => \A i \in Cameras : i >= mcam => card[i].rgb < mobj

\* At most one object is registered, and none while one is prepared.
Alone ==
  /\ \A s, t \in Objects : obj[s].registered /\ obj[t].registered => s = t
  /\ mpc = "prepare" => \A s \in Objects : ~obj[s].registered

\* The cameras that have been prepared for s stream for it.
HasCameras(s) ==
  /\ obj[s].exists /\ ~(mpc = "prepare" /\ mcam = 0) => card[0].rgb = s
  /\ \A i \in Cameras : card[i].rgb = s => Streams(card[i], s)

Streaming ==
  /\ \A s \in Objects : obj[s].registered /\ mpc # "stop" => HasCameras(s)
  /\ mpc = "prepare" => HasCameras(mobj)

CInv == Named /\ (Single => Alone /\ Streaming)

LEMMA MemoryNames ==
  ASSUME IInv, NEW i \in Cameras
  PROVE  card[i] \in Cards /\ card[i].rgb \in Nat
<1>1. card[i] \in Cards
  BY DEF IInv, Types
<1>2. card[i].rgb \in Handles
  BY <1>1 DEF Cards
<1>3. QED
  BY <1>1, <1>2, ObjectsFacts DEF Handles, None, Objects

LEMMA CInvInit == Init => CInv
<1> SUFFICES ASSUME Init PROVE CInv
  OBVIOUS
<1>1. /\ \A i \in Cameras : card[i].rgb = 0
      /\ \A s \in Objects : ~obj[s].registered
      /\ born = 0 /\ mpc = "idle"
  BY DEF Init, NewCard, NewObject, None
<1>2. QED
  BY <1>1 DEF CInv, Named, Alone, Streaming

\* Steps that change no camera, register no object and prepare none.
LEMMA CInvSame ==
  ASSUME IInv, CInv, UNCHANGED <<card, born, strayed>> \/
                     (card' = card /\ born' = born /\ strayed' = strayed \cup {"late"}),
         mpc' # "prepare" \/ UNCHANGED <<mpc, mobj, mcam>>,
         mpc = "stop" => mpc' = "stop",
         \A s \in Objects : /\ obj'[s].registered = obj[s].registered
                            /\ obj'[s].exists = obj[s].exists
  PROVE  CInv'
<1>1. card' = card /\ born' = born /\ (Single' => Single)
  BY DEF Single
<1>2. mpc # "idle" => mobj \in Objects
  BY DEF IInv, Types
<1>3. Named'
  BY <1>1 DEF CInv, Named
<1>4. ASSUME Single' PROVE Alone'
  BY <1>1, <1>4 DEF CInv, Alone
<1>5. ASSUME Single' PROVE Streaming'
  <2>1. Alone /\ Streaming
    BY <1>1, <1>5 DEF CInv
  <2>2. ASSUME NEW s \in Objects, obj[s].registered, mpc' # "stop"
        PROVE  HasCameras(s)'
    <3>1. HasCameras(s) /\ mpc # "prepare"
      BY <2>1, <2>2 DEF Streaming, Alone
    <3>2. QED
      BY <1>1, <3>1 DEF HasCameras, Streams
  <2>3. ASSUME mpc' = "prepare" PROVE HasCameras(mobj)'
    <3>1. mobj \in Objects /\ UNCHANGED <<mpc, mobj, mcam>> /\ HasCameras(mobj)
      BY <1>2, <2>1, <2>3 DEF Streaming
    <3>2. obj'[mobj].exists = obj[mobj].exists
      BY <3>1
    <3>3. QED
      BY <1>1, <3>1, <3>2 DEF HasCameras, Streams
  <2>4. QED
    BY <2>2, <2>3 DEF Streaming
<1>6. QED
  BY <1>3, <1>4, <1>5 DEF CInv

LEMMA CInvPress == ASSUME IInv, CInv, PressRecord PROVE CInv'
<1>1. /\ mpc = "idle" /\ born' = born + 1
      /\ mpc' = "prepare" /\ mobj' = born + 1 /\ mcam' = 0
      /\ strayed' = strayed \cup
           IF \E s \in Objects : obj[s].registered THEN {"overlap"} ELSE {}
      /\ UNCHANGED <<card, obj>> /\ born < MaxRecords
  BY DEF PressRecord
<1>2. /\ born \in Nat /\ born + 1 \in Objects
      /\ \A i \in Cameras : card[i].rgb \in Nat /\ card[i].rgb <= born
  <2>1. born \in Nat /\ born + 1 \in Objects
    <3>1. born \in 0..MaxRecords /\ MaxRecords \in Nat
      BY CameraAssumption DEF IInv, Types
    <3>2. QED
      BY <1>1, <3>1 DEF Objects
  <2>2. \A i \in Cameras : card[i].rgb \in Nat /\ card[i].rgb <= born
    BY MemoryNames DEF CInv, Named
  <2>3. QED
    BY <2>1, <2>2
<1>3. \A i \in Cameras : card[i].rgb <= born + 1 /\ card[i].rgb < born + 1
  BY <1>2
<1>4. Named'
  BY <1>1, <1>3 DEF Named
<1>5. ASSUME Single' PROVE Alone' /\ Streaming'
  <2>1. \A s \in Objects : ~obj[s].registered
    BY <1>1, <1>5 DEF Single
  <2>2. Alone'
    BY <1>1, <2>1 DEF Alone
  <2>3. HasCameras(mobj)'
    BY <1>1, <1>2, <1>3 DEF HasCameras
  <2>4. QED
    BY <1>1, <2>1, <2>2, <2>3 DEF Streaming
<1>6. QED
  BY <1>4, <1>5 DEF CInv

LEMMA CInvPrepare == ASSUME IInv, CInv, PrepareCamera PROVE CInv'
<1> DEFINE last == mcam = CAMERANUM - 1
<1>1. /\ mpc = "prepare" /\ mobj \in Objects /\ mobj = born /\ mcam \in Cameras
      /\ card \in [Cameras -> Cards] /\ obj \in [Objects -> ObjectStates]
      /\ \A i \in Cameras : card[i].rgb \in Nat /\ card[i].rgb <= born
      /\ \A i \in Cameras : i >= mcam => card[i].rgb < mobj
  <2>1. mpc = "prepare"
    BY DEF PrepareCamera
  <2>2. /\ mobj \in Objects /\ mobj = born /\ mcam \in Cameras
        /\ card \in [Cameras -> Cards] /\ obj \in [Objects -> ObjectStates]
    BY <2>1 DEF IInv, Types, Busy
  <2>3. /\ \A i \in Cameras : card[i].rgb \in Nat /\ card[i].rgb <= born
        /\ \A i \in Cameras : i >= mcam => card[i].rgb < mobj
    BY <2>1, MemoryNames DEF CInv, Named
  <2>4. QED
    BY <2>1, <2>2, <2>3
<1>2. PICK r \in prepared(card[mcam], mobj) :
        /\ card' = [card EXCEPT ![mcam] = r.card]
        /\ strayed \subseteq strayed'
        /\ obj' = [obj EXCEPT ![mobj].exists = IF mcam = 0 THEN r.ok ELSE @,
                     ![mobj].registered = (mcam = CAMERANUM - 1),
                     ![mobj].pc = IF mcam = CAMERANUM - 1 THEN "loop" ELSE @]
  BY DEF PrepareCamera
<1>3. /\ last => mpc' = "idle" /\ mobj' = None /\ mcam' = 0
      /\ ~last => mpc' = mpc /\ mobj' = mobj /\ mcam' = mcam + 1
      /\ born' = born
  BY DEF PrepareCamera
<1>4. /\ r \in Results
      /\ r.ok => Streams(r.card, mobj) /\ r.card.rgb = mobj
      /\ ~r.ok => r.card.rgb = card[mcam].rgb
  BY <1>1, Prepared DEF Keeps
<1>5. /\ card'[mcam] = r.card
      /\ \A i \in Cameras : i # mcam => card'[i] = card[i]
  BY <1>1, <1>2
<1>6. /\ \A t \in Objects : t # mobj => obj'[t] = obj[t]
      /\ obj'[mobj].exists = (IF mcam = 0 THEN r.ok ELSE obj[mobj].exists)
      /\ obj'[mobj].registered = last
  <2>1. obj[mobj] \in ObjectStates
    BY <1>1
  <2>2. QED
    BY <1>1, <1>2, <2>1 DEF ObjectStates
<1>7. /\ mcam \in Nat /\ mcam' \in Nat
      /\ ~last => \A i \in Cameras : i >= mcam' => i >= mcam /\ i # mcam
  BY <1>1, <1>3, CameraAssumption DEF Cameras
<1> HIDE DEF last
<1>8. Named'
  <2>1. \A i \in Cameras : card'[i].rgb <= born
    <3>1. mobj <= born /\ card[mcam].rgb <= born
      BY <1>1 DEF Objects
    <3>2. r.card.rgb = mobj \/ r.card.rgb = card[mcam].rgb
      BY <1>4
    <3>3. r.card.rgb <= born
      BY <3>1, <3>2
    <3>4. QED
      BY <1>1, <1>5, <3>3
  <2>2. ~last => \A i \in Cameras : i >= mcam' => card'[i].rgb < mobj
    BY <1>1, <1>5, <1>7
  <2>3. QED
    BY <1>1, <1>3, <2>1, <2>2 DEF Named
<1>9. ASSUME Single' PROVE Alone' /\ Streaming'
  <2>1. Alone /\ Streaming
    BY <1>2, <1>9 DEF CInv, Single
  <2>2. \A s \in Objects : obj'[s].registered => last /\ s = mobj
    BY <1>1, <1>6, <2>1 DEF Alone
  <2>3. Alone'
    BY <1>3, <2>2 DEF Alone
  <2>4. \A i \in Cameras : card'[i].rgb = mobj => Streams(card'[i], mobj)
    <3>1. \A i \in Cameras : card[i].rgb = mobj => Streams(card[i], mobj)
      BY <1>1, <2>1 DEF Streaming, HasCameras
    <3>2. card[mcam].rgb # mobj
      <4>1. card[mcam].rgb < mobj /\ card[mcam].rgb \in Nat /\ mobj \in Nat
        BY <1>1, <1>7 DEF Objects
      <4>2. QED
        BY <4>1
    <3>3. ASSUME NEW i \in Cameras, card'[i].rgb = mobj
          PROVE  Streams(card'[i], mobj)
      <4>1. CASE i = mcam
        BY <1>4, <1>5, <3>2, <3>3, <4>1
      <4>2. CASE i # mcam
        BY <1>5, <3>1, <3>3, <4>2
      <4>3. QED
        BY <4>1, <4>2
    <3>4. QED
      BY <3>3
  <2>5. obj'[mobj].exists => card'[0].rgb = mobj
    <3>1. CASE mcam = 0
      BY <1>4, <1>5, <1>6, <3>1
    <3>2. CASE mcam # 0
      BY <1>1, <1>5, <1>6, <2>1, <3>2, ObjectsFacts DEF Streaming, HasCameras
    <3>3. QED
      BY <3>1, <3>2
  <2>6. \A s \in Objects : s = mobj => HasCameras(s)'
    BY <2>4, <2>5 DEF HasCameras, Streams
  <2>7. Streaming'
    BY <1>1, <1>3, <2>2, <2>6 DEF Streaming
  <2>8. QED
    BY <2>3, <2>7
<1>10. QED
  BY <1>8, <1>9 DEF CInv

LEMMA CInvStop == ASSUME IInv, CInv, StopCamera PROVE CInv'
<1> DEFINE last == mcam = CAMERANUM - 1
<1>1. /\ mpc = "stop" /\ card' = [card EXCEPT ![mcam] = stopped(card[mcam])]
      /\ last => /\ obj' = [obj EXCEPT ![mobj].registered = FALSE, ![mobj].util = FALSE]
                 /\ mpc' = "idle"
      /\ ~last => UNCHANGED <<obj, mpc, mobj>>
      /\ UNCHANGED <<born, strayed>>
  BY DEF StopCamera
<1>2. /\ obj \in [Objects -> ObjectStates] /\ mobj \in Objects /\ mcam \in Cameras
      /\ card \in [Cameras -> Cards] /\ obj[mobj].registered
  BY <1>1 DEF IInv, Types, Busy
<1>3. \A i \in Cameras : card'[i].rgb = card[i].rgb
  BY <1>1, <1>2, Stopped
<1>4. \A s \in Objects : obj'[s].registered => obj[s].registered /\ (last => s # mobj)
  <2>1. CASE last
    <3>1. obj[mobj] \in ObjectStates
      BY <1>2
    <3>2. QED
      BY <1>1, <1>2, <2>1, <3>1 DEF ObjectStates
  <2>2. CASE ~last
    BY <1>1, <2>2
  <2>3. QED
    BY <2>1, <2>2
<1> HIDE DEF last
<1>5. Named'
  BY <1>1, <1>3 DEF CInv, Named
<1>6. ASSUME Single' PROVE Alone' /\ Streaming'
  <2>1. Alone
    BY <1>1, <1>6 DEF CInv, Single
  <2>2. Alone'
    BY <1>1, <1>4, <2>1 DEF Alone
  <2>3. last => \A s \in Objects : ~obj'[s].registered
    BY <1>2, <1>4, <2>1 DEF Alone
  <2>4. QED
    BY <1>1, <2>2, <2>3 DEF Streaming
<1>7. QED
  BY <1>5, <1>6 DEF CInv

LEMMA CInvNext == IInv /\ CInv /\ [Next]_vars => CInv'
<1> SUFFICES ASSUME IInv, CInv, [Next]_vars PROVE CInv'
  OBVIOUS
<1>1. obj \in [Objects -> ObjectStates] /\ (mpc # "idle" => mobj \in Objects)
  BY DEF IInv, Types
<1>2. CASE SendStop \/ \E s \in Objects : SkipStop(s)
  <2>1. UNCHANGED <<card, obj, born, mpc, mobj, mcam, strayed>>
    BY <1>2 DEF SendStop, SkipStop, history
  <2>2. QED
    BY <2>1, CInvSame
<1>3. ASSUME NEW s \in Objects, ReceiveStop(s) PROVE CInv'
  <2>1. /\ obj' = [obj EXCEPT ![s].flag = 0, ![s].tested = FALSE] /\ mpc = "idle"
        /\ mpc' = "wait" /\ UNCHANGED <<card, born, strayed>>
    BY <1>3 DEF ReceiveStop, NextReceiver, history
  <2>2. \A t \in Objects : /\ obj'[t].registered = obj[t].registered
                           /\ obj'[t].exists = obj[t].exists
    BY <1>1, <2>1 DEF ObjectStates
  <2>3. QED
    BY <2>1, <2>2, CInvSame
<1>4. CASE WaitOver
  <2>1. /\ obj' = [obj EXCEPT ![mobj].bitmap = FALSE] /\ mpc = "wait" /\ mpc' = "stop"
        /\ card' = card /\ born' = born
        /\ strayed' = strayed \/ strayed' = strayed \cup {"late"}
    BY <1>4 DEF WaitOver
  <2>2. \A t \in Objects : /\ obj'[t].registered = obj[t].registered
                           /\ obj'[t].exists = obj[t].exists
    BY <1>1, <2>1 DEF ObjectStates
  <2>3. QED
    BY <2>1, <2>2, CInvSame
<1>5. ASSUME NEW s \in Objects, Thread(s) PROVE CInv'
  <2>1. UNCHANGED <<card, born, mpc, mobj, mcam, strayed>>
    BY <1>5 DEF Thread, LoopTest, LoopStep, TakeImage, CopyImage, EndTurn, Crash,
       ThreadStep, mainvars, history
  <2>2. \A t \in Objects : /\ obj'[t].registered = obj[t].registered
                           /\ obj'[t].exists = obj[t].exists
    <3>1. CASE LoopTest(s)
      BY <1>1, <3>1 DEF LoopTest, LoopStep, ObjectStates
    <3>2. CASE TakeImage(s)
      BY <1>1, <3>2 DEF TakeImage, ObjectStates
    <3>3. ASSUME NEW from, NEW to, ThreadStep(s, from, to)
          PROVE  \A t \in Objects : /\ obj'[t].registered = obj[t].registered
                                    /\ obj'[t].exists = obj[t].exists
      BY <1>1, <3>3 DEF ThreadStep, ObjectStates
    <3>4. QED
      BY <1>5, <3>1, <3>2, <3>3 DEF Thread, CopyImage, EndTurn, Crash
  <2>3. QED
    BY <2>1, <2>2, CInvSame
<1>6. CASE UNCHANGED vars
  <2>1. UNCHANGED <<card, obj, born, mpc, mobj, mcam, strayed>>
    BY <1>6 DEF vars, mainvars, history
  <2>2. QED
    BY <2>1, CInvSame
<1>7. QED
  BY <1>2, <1>3, <1>4, <1>5, <1>6, CInvPress, CInvPrepare, CInvStop
     DEF Next, Main, Receivers

\* As long as no second "record" overlaps the first, and whatever prepareCamera
\* fails at: an object's thread takes images only of a camera prepared for it,
\* and all the cameras prepared for it stream for it until it is stopped, for
\* any number of cameras.
THEOREM ThreadHasCameraAlways == Spec => []ThreadHasCamera
<1>1. IInv /\ CInv => ThreadHasCamera
  BY DEF CInv, ThreadHasCamera, Single, Alone, Streaming, HasCameras, Streams
<1>2. Spec => []CInv
  BY CInvInit, CInvNext, UsbInductive, PTL DEF Spec
<1>3. QED
  BY <1>1, <1>2, UsbInductive, PTL
-----------------------------------------------------------------------------
\* What prepareCamera does with a camera that holds nothing: it fails and
\* holds nothing again, or keeps its buffers, or holds everything for s.
Empty(c) ==
  c.fd = None /\ c.node.fds = {} /\ c.node.maps = {} /\ c.heap = {}

Opened(c, s) ==
  c.fd = s /\ c.node.fds = {s} /\ c.node.maps = {} /\ c.heap = {}

Full(c, s) ==
  /\ c.fd = s /\ c.buffers = s /\ c.n = BufferCount
  /\ c.node.fds = {s} /\ c.node.maps = Buffers(s, BufferCount)
  /\ c.heap = {<<"buffers", s>>}

Whole(c, s) ==
  /\ c.fd = s /\ c.buffers = s /\ c.n = BufferCount /\ c.rgb = s
  /\ c.node.fds = {s} /\ c.node.maps = Buffers(s, BufferCount)
  /\ c.heap = {<<"buffers", s>>, <<"rgb", s>>}

\* The memory for the buffers has been allocated.
Half(c, s) == <<"buffers", s>> \in c.heap

\* Releasing the queue closes no file.
LEMMA ReleasedFiles ==
  ASSUME NEW node \in Nodes
  PROVE  Released(node).fds = node.fds /\ Released(node).maps = node.maps
BY DEF Released, Nodes

LEMMA OpenEmpty ==
  ASSUME NEW c \in Cards, NEW s \in Objects, Empty(c), NEW r \in opendevice(c, s)
  PROVE  /\ r \in Results
         /\ IF r.ok THEN Opened(r.card, s) ELSE Empty(r.card)
<1>1. r \in Results
  BY OpenDevice
<1>2. CASE r \in Fail(c, "stat")
  <2>1. r = [card |-> c, ok |-> FALSE]
    BY <1>2, FailResult
  <2>2. QED
    BY <1>1, <2>1
<1>3. CASE r \in Fail([c EXCEPT !.fd = None], "open")
  <2>1. r = [card |-> [c EXCEPT !.fd = None], ok |-> FALSE]
    BY <1>3, FailResult
  <2>2. QED
    BY <1>1, <2>1 DEF Empty, Cards
<1>4. CASE r = Result([c EXCEPT !.fd = s, !.node = Open(c.node, s)], TRUE)
  <2>1. /\ r.ok /\ r.card.fd = s /\ r.card.heap = c.heap
        /\ r.card.node = Open(c.node, s)
    BY <1>4 DEF Result, Cards
  <2>2. Open(c.node, s).fds = {s} /\ Open(c.node, s).maps = {}
    BY DEF Empty, Open, Cards, Nodes
  <2>3. QED
    BY <1>1, <2>1, <2>2 DEF Empty, Opened
<1>5. QED
  BY <1>2, <1>3, <1>4 DEF opendevice

LEMMA InitOpened ==
  ASSUME NEW c \in Cards, NEW s \in Objects, Opened(c, s), NEW r \in initdevice(c, s)
  PROVE  /\ r \in Results
         /\ IF r.ok THEN Full(r.card, s)
                    ELSE Opened(r.card, s) \/ Half(r.card, s)
<1> DEFINE q == [c EXCEPT !.node = Request(c.node, c.fd)]
           M(n) == [q EXCEPT !.buffers = s, !.n = n,
                             !.heap = @ \cup {<<"buffers", s>>},
                             !.node = Mmap(q.node, c.fd, n)]
           counts == Fail(q, "count")
           callocs == Fail([q EXCEPT !.buffers = None], "calloc")
           mmaps == UNION {Fail(M(n), "mmap") : n \in 0..(BufferCount - 1)}
           done == Result(M(BufferCount), TRUE)
<1>1. r \in Results
  BY InitDevice DEF Opened
<1>2. q \in Cards /\ Opened(q, s)
  BY NodeTypes DEF Cards, Request, Nodes, Opened
<1>3. ASSUME NEW n \in 0..BufferCount
      PROVE  /\ M(n).fd = s /\ M(n).buffers = s /\ M(n).n = n
             /\ M(n).node.fds = {s} /\ M(n).node.maps = Buffers(s, n)
             /\ M(n).heap = {<<"buffers", s>>}
  <2> HIDE DEF q
  <2>1. /\ M(n).fd = s /\ M(n).buffers = s /\ M(n).n = n
        /\ M(n).heap = {<<"buffers", s>>}
        /\ M(n).node = Mmap(q.node, s, n)
    BY <1>2 DEF Cards, Opened
  <2>2. Mmap(q.node, s, n).fds = {s} /\ Mmap(q.node, s, n).maps = Buffers(s, n)
    BY <1>2 DEF Mmap, Nodes, Cards, Opened
  <2>3. QED
    BY <2>1, <2>2
<1>4. CASE r \in Fail(c, "init") \/ r = Result(c, FALSE)
  <2>1. r = [card |-> c, ok |-> FALSE]
    BY <1>4, FailResult DEF Result
  <2>2. QED
    BY <1>1, <2>1
<1>5. CASE r \in counts
  <2>1. r = [card |-> q, ok |-> FALSE]
    BY <1>5, FailResult
  <2>2. QED
    BY <1>1, <1>2, <2>1
<1>6. CASE r \in callocs
  <2>1. r = [card |-> [q EXCEPT !.buffers = None], ok |-> FALSE]
    BY <1>6, FailResult
  <2>2. Opened([q EXCEPT !.buffers = None], s)
    <3> HIDE DEF q
    <3>1. QED
      BY <1>2 DEF Cards, Opened
  <2>3. QED
    BY <1>1, <2>1, <2>2
<1>7. CASE r \in mmaps
  <2>1. PICK n \in 0..(BufferCount - 1) : r \in Fail(M(n), "mmap")
    BY <1>7, Zenon
  <2>2. r = [card |-> M(n), ok |-> FALSE]
    BY <2>1, FailResult
  <2>3. n \in 0..BufferCount
    BY CameraAssumption
  <2>4. Half(M(n), s)
    BY <1>3, <2>3 DEF Half
  <2> HIDE DEF M
  <2>5. QED
    BY <1>1, <2>2, <2>4
<1>8. CASE r = done
  <2>1. r = [card |-> M(BufferCount), ok |-> TRUE]
    BY <1>8 DEF Result
  <2>2. Full(M(BufferCount), s)
    BY <1>3, ObjectsFacts DEF Full
  <2> HIDE DEF M
  <2>3. QED
    BY <1>1, <2>1, <2>2
<1>9. r \in Fail(c, "init") \/ r = Result(c, FALSE) \/ r \in initmmap(c, s)
  BY DEF initdevice
<1>10. initmmap(c, s) = counts \cup callocs \cup mmaps \cup {done}
  BY DEF initmmap
<1> HIDE DEF counts, callocs, mmaps, done
<1>11. QED
  BY <1>4, <1>5, <1>6, <1>7, <1>8, <1>9, <1>10

LEMMA StartFull ==
  ASSUME NEW c \in Cards, NEW s \in Objects, Full(c, s), NEW r \in startcapturing(c)
  PROVE  r \in Results /\ IF r.ok THEN Full(r.card, s) ELSE Half(r.card, s)
<1> DEFINE Q(n) == [c EXCEPT !.node = Queue(c.node, 0..(n - 1))]
           starts == UNION {Fail(Q(n), "start") : n \in 0..c.n}
           done == Result([Q(c.n) EXCEPT !.node = StreamOn(Q(c.n).node)], TRUE)
<1>1. ASSUME NEW n \in 0..BufferCount
      PROVE  Q(n) \in Cards /\ Full(Q(n), s)
  <2>1. Queue(c.node, 0..(n - 1)) \in Nodes
    BY NodeTypes, ObjectsFacts DEF Cards
  <2>2. /\ Queue(c.node, 0..(n - 1)).maps = c.node.maps
        /\ Queue(c.node, 0..(n - 1)).fds = c.node.fds
    BY DEF Queue, Cards, Nodes
  <2>3. QED
    BY <2>1, <2>2 DEF Cards, Full
<1>2. CASE r \in starts
  <2>1. PICK n \in 0..c.n : r \in Fail(Q(n), "start")
    BY <1>2, Zenon
  <2>2. r = [card |-> Q(n), ok |-> FALSE]
    BY <2>1, FailResult
  <2>3. Q(n) \in Cards /\ Half(Q(n), s)
    BY <1>1, <2>1 DEF Full, Half
  <2> HIDE DEF Q
  <2>4. QED
    BY <2>2, <2>3 DEF Results
<1>3. CASE r = done
  <2> DEFINE q == Q(c.n)
  <2>1. q \in Cards /\ Full(q, s)
    BY <1>1, ObjectsFacts DEF Full
  <2>2. r = [card |-> [q EXCEPT !.node = StreamOn(q.node)], ok |-> TRUE]
    BY <1>3 DEF Result
  <2> HIDE DEF q
  <2>3. StreamOn(q.node) \in Nodes
    BY <2>1, NodeTypes, ObjectsFacts DEF Cards
  <2>4. StreamOn(q.node).maps = q.node.maps /\ StreamOn(q.node).fds = q.node.fds
    BY <2>1 DEF StreamOn, Cards, Nodes
  <2>5. QED
    BY <2>1, <2>2, <2>3, <2>4 DEF Cards, Results, Full
<1>4. startcapturing(c) = starts \cup {done}
  BY DEF startcapturing
<1> HIDE DEF starts, done
<1>5. QED
  BY <1>2, <1>3, <1>4

LEMMA TriedEmpty ==
  ASSUME NEW c \in Cards, NEW s \in Objects, Empty(c), NEW r \in tried(c, s)
  PROVE  /\ r \in Results
         /\ IF r.ok THEN Full(r.card, s)
            ELSE Empty(r.card) \/ Opened(r.card, s) \/ Half(r.card, s)
<1> DEFINE opened == opendevice(c, s)
           Inits(x) == IF x.ok THEN initdevice(x.card, s) ELSE {x}
           Starts(y) == IF y.ok THEN startcapturing(y.card) ELSE {y}
<1>1. r \in UNION {Starts(y) : y \in UNION {Inits(x) : x \in opened}}
  BY Zenon DEF tried
<1> HIDE DEF opened, Inits, Starts
<1>2. PICK y \in UNION {Inits(x) : x \in opened} : r \in Starts(y)
  BY <1>1, Zenon
<1>3. PICK x \in opened : y \in Inits(x)
  BY <1>2, Zenon
<1>4. x \in Results /\ IF x.ok THEN Opened(x.card, s) ELSE Empty(x.card)
  BY OpenEmpty DEF opened
<1>5. /\ y \in Results
      /\ IF y.ok THEN Full(y.card, s)
         ELSE Empty(y.card) \/ Opened(y.card, s) \/ Half(y.card, s)
  <2>1. CASE x.ok
    BY <2>1, <1>3, <1>4, InitOpened DEF Inits, Results
  <2>2. CASE ~x.ok
    BY <2>2, <1>3, <1>4 DEF Inits
  <2>3. QED
    BY <2>1, <2>2
<1>6. CASE y.ok
  BY <1>6, <1>2, <1>5, StartFull DEF Starts, Results
<1>7. CASE ~y.ok
  BY <1>7, <1>2, <1>5 DEF Starts
<1>8. QED
  BY <1>6, <1>7

\* A camera that holds nothing is prepared for s, or holds nothing when that
\* has failed, unless its buffers had been allocated.
LEMMA PreparedEmpty ==
  ASSUME NEW c \in Cards, NEW s \in Objects, Empty(c), NEW r \in prepared(c, s)
  PROVE  IF r.ok THEN Whole(r.card, s) ELSE Empty(r.card) \/ Half(r.card, s)
<1> DEFINE P(x) ==
      IF x.ok
        THEN Result([x.card EXCEPT !.rgb = s, !.heap = @ \cup {<<"rgb", s>>}], TRUE)
      ELSE IF x.card.fd # None
        THEN Result([x.card EXCEPT !.fd = None,
                                   !.node = Close(x.card.node, x.card.fd)], FALSE)
      ELSE x
<1>1. r \in {P(x) : x \in tried(c, s)}
  BY Zenon DEF prepared
<1> HIDE DEF P
<1>2. PICK x \in tried(c, s) : r = P(x)
  BY <1>1, Zenon
<1> DEFINE d == x.card
<1>3. /\ d \in Cards
      /\ IF x.ok THEN Full(d, s) ELSE Empty(d) \/ Opened(d, s) \/ Half(d, s)
  BY TriedEmpty DEF Results
<1>4. CASE x.ok
  <2>1. r = [card |-> [d EXCEPT !.rgb = s, !.heap = @ \cup {<<"rgb", s>>}],
             ok |-> TRUE]
    BY <1>2, <1>4 DEF P, Result
  <2>2. Full(d, s)
    BY <1>3, <1>4
  <2> HIDE DEF d
  <2>3. QED
    BY <1>3, <2>1, <2>2 DEF Full, Whole, Cards
<1>5. CASE ~x.ok /\ d.fd # None
  <2>1. r = [card |-> [d EXCEPT !.fd = None, !.node = Close(d.node, d.fd)],
             ok |-> FALSE]
    BY <1>2, <1>5 DEF P, Result
  <2>2. Opened(d, s) \/ Half(d, s)
    BY <1>3, <1>5 DEF Empty
  <2> DEFINE off == [d.node EXCEPT !.fds = @ \ {d.fd}]
  <2> HIDE DEF d
  <2>3. d.node \in Nodes /\ off \in Nodes
    BY <1>3 DEF Cards, Nodes
  <2>4. off.fds = d.node.fds \ {d.fd} /\ off.maps = d.node.maps
    BY <2>3 DEF Nodes
  <2>5. Close(d.node, d.fd) = Released(off)
    BY DEF Close
  <2> HIDE DEF off
  <2>6. /\ Close(d.node, d.fd).fds = d.node.fds \ {d.fd}
        /\ Close(d.node, d.fd).maps = d.node.maps
    BY <2>3, <2>4, <2>5, ReleasedFiles
  <2>7. QED
    BY <1>3, <2>1, <2>2, <2>6 DEF Opened, Empty, Half, Cards
<1>6. CASE ~x.ok /\ d.fd = None
  <2>1. r = x
    BY <1>2, <1>6 DEF P
  <2>2. d.fd # s
    BY <1>6, ObjectsFacts
  <2>3. QED
    BY <1>3, <1>6, <2>1, <2>2 DEF Opened
<1>7. QED
  BY <1>4, <1>5, <1>6

\* stopCamera leaves such a camera holding nothing.
Clean(c) == Empty(c) \/ \E s \in Objects : Whole(c, s)

LEMMA StoppedClean ==
  ASSUME NEW c \in Cards, Clean(c) PROVE Empty(stopped(c))
<1>1. CASE Empty(c)
  BY <1>1 DEF stopped, closed, Empty, Cards
<1>2. ASSUME NEW s \in Objects, Whole(c, s) PROVE Empty(stopped(c))
  <2> DEFINE a == [c EXCEPT !.node = StreamOff(c.node, c.fd)]
             cut == [a.node EXCEPT !.maps = @ \ Buffers(s, BufferCount)]
             b == uninitdevice(a)
             off == [b.node EXCEPT !.fds = @ \ {s}]
  <2>1. c.fd = s /\ c.fd # None
    BY <1>2, ObjectsFacts DEF Whole
  <2>2. a \in Cards /\ Whole(a, s)
    <3>1. StreamOff(c.node, c.fd) \in Nodes
      BY <2>1, NodeTypes, ObjectsFacts DEF Cards
    <3>2. /\ StreamOff(c.node, c.fd).fds = c.node.fds
          /\ StreamOff(c.node, c.fd).maps = c.node.maps
      BY DEF StreamOff, Cards, Nodes
    <3>3. QED
      BY <1>2, <3>1, <3>2 DEF Cards, Whole
  <2> HIDE DEF a
  <2>3. cut \in Nodes /\ cut.fds = {s} /\ cut.maps = {}
    BY <2>2 DEF Whole, Cards, Nodes
  <2>4. Munmap(a.node, a.buffers, a.n) = Released(cut)
    BY <2>2, Zenon DEF Munmap, Whole
  <2> HIDE DEF cut
  <2>5. Munmap(a.node, a.buffers, a.n) \in Nodes
    BY <2>2, MunmapType DEF Cards
  <2>6. /\ b.node \in Nodes /\ b.node.fds = {s} /\ b.node.maps = {}
        /\ b.heap = {<<"rgb", s>>} /\ b \in Cards
    <3>1. b = [a EXCEPT !.node = Munmap(a.node, a.buffers, a.n),
                        !.heap = @ \ {<<"buffers", a.buffers>>}]
      BY DEF uninitdevice
    <3>2. a.heap \ {<<"buffers", a.buffers>>} = {<<"rgb", s>>}
      BY <2>2 DEF Whole
    <3>3. /\ b \in Cards /\ b.node = Munmap(a.node, a.buffers, a.n)
          /\ b.heap = {<<"rgb", s>>}
      BY <2>2, <2>5, <3>1, <3>2 DEF Cards
    <3>4. QED
      BY <2>3, <2>4, <2>5, <3>3, ReleasedFiles
  <2> HIDE DEF b
  <2>7. off \in Nodes /\ off.fds = {} /\ off.maps = {}
    BY <2>6 DEF Nodes
  <2>8. Close(b.node, s) = Released(off)
    BY DEF Close
  <2> HIDE DEF off
  <2>9. Close(b.node, s).fds = {} /\ Close(b.node, s).maps = {}
    BY <2>7, <2>8, ReleasedFiles
  <2>10. closed(c) = [b EXCEPT !.fd = None, !.node = Close(b.node, s)]
    BY <2>1, Zenon DEF closed, a, b
  <2>11. QED
    BY <1>2, <2>6, <2>9, <2>10 DEF stopped, Empty, Whole, Cards
<1>3. QED
  BY <1>1, <1>2 DEF Clean
-----------------------------------------------------------------------------
\* What TypeOK says beyond Types.
Sent ==
  /\ looper \in Seq(Objects) /\ stops \in 0..MaxStops
  /\ undefined \subseteq {"munmap", "free buffers", "free rgb", "freed image",
                          "wild pixels"}
  /\ strayed \subseteq Strayings

\* A camera holds nothing, or everything; nothing before it is prepared, when
\* it has been stopped, and when nobody is registered.
Tidy ==
  /\ \A i \in Cameras : Clean(card[i])
  /\ mpc = "prepare" => \A i \in Cameras : i >= mcam => Empty(card[i])
  /\ mpc = "stop" => \A i \in Cameras : i < mcam => Empty(card[i])
  /\ Resting => \A i \in Cameras : Empty(card[i])

Intended == strayed \subseteq {"late"}

TInv == Sent /\ (Intended => Tidy)

LEMMA TInvInit == Init => TInv
<1> SUFFICES ASSUME Init PROVE TInv
  OBVIOUS
<1>1. Empty(NewCard)
  BY DEF Empty, NewCard, NewNode
<1>2. \A i \in Cameras : Empty(card[i])
  BY <1>1 DEF Init
<1>3. Tidy
  BY <1>2 DEF Tidy, Clean
<1>4. Sent
  BY CameraAssumption DEF Init, Sent
<1>5. QED
  BY <1>3, <1>4 DEF TInv

\* The receivers a broadcast reaches.
LEMMA RegisteredType == ASSUME NEW q \in Registered PROVE q \in Seq(Objects)
<1> DEFINE R == {s \in Objects : obj[s].registered}
<1>1. IsFiniteSet(Objects)
  BY FS_Interval, CameraAssumption DEF Objects
<1>2. IsFiniteSet(R) /\ R \subseteq Objects
  BY <1>1, FS_Subset
<1>3. Cardinality(R) \in Nat
  BY <1>2, FS_CardinalityType
<1>4. q \in [1..Cardinality(R) -> R]
  BY Zenon DEF Registered
<1> HIDE DEF R
<1>5. q \in Seq(R)
  BY <1>3, <1>4
<1>6. QED
  BY <1>2, <1>5

LEMMA SentKeeps == ASSUME IInv, Sent, [Next]_vars PROVE Sent'
<1>1. card \in [Cameras -> Cards] /\ mcam \in Cameras
  BY DEF IInv, Types
<1>2. looper' \in Seq(Objects) /\ stops' \in 0..MaxStops
  <2>1. CASE SendStop
    <3>1. PICK q \in Registered : looper' = looper \o q
      BY <2>1, Zenon DEF SendStop
    <3>2. looper' \in Seq(Objects)
      BY <3>1, RegisteredType, ConcatProperties DEF Sent
    <3>3. stops' = stops + 1 /\ stops < MaxStops
      BY <2>1 DEF SendStop
    <3>4. stops \in 0..MaxStops
      BY Zenon DEF Sent
    <3>5. stops' \in 0..MaxStops
      BY <3>3, <3>4, CameraAssumption
    <3>6. QED
      BY <3>2, <3>5
  <2>2. CASE Receivers
    <3>1. looper # <<>> /\ looper' = Tail(looper) /\ stops' = stops
      BY <2>2 DEF Receivers, SkipStop, ReceiveStop, NextReceiver
    <3>2. Tail(looper) \in Seq(Objects)
      BY <3>1, HeadTailProperties DEF Sent
    <3>3. QED
      BY <3>1, <3>2 DEF Sent
  <2>3. CASE ~SendStop /\ ~Receivers
    <3>1. looper' = looper /\ stops' = stops
      BY <2>3 DEF Next, Main, PressRecord, PrepareCamera, WaitOver, StopCamera,
         Thread, LoopTest, LoopStep, TakeImage, CopyImage, EndTurn, Crash,
         ThreadStep, mainvars, vars
    <3>2. QED
      BY <3>1 DEF Sent
  <2>4. QED
    BY <2>1, <2>2, <2>3
<1>3. undefined' \subseteq {"munmap", "free buffers", "free rgb", "freed image",
                            "wild pixels"}
  <2>1. CASE StopCamera
    <3>1. Misuse(card[mcam]) \subseteq {"munmap", "free buffers", "free rgb"}
      BY <1>1, StopCard
    <3>2. QED
      BY <2>1, <3>1 DEF StopCamera, Sent
  <2>2. CASE ~StopCamera
    <3>1. undefined' \subseteq undefined \cup {"wild pixels", "freed image"}
      BY <2>2 DEF Next, Main, PressRecord, PrepareCamera, SendStop, Receivers,
         SkipStop, ReceiveStop, WaitOver, Thread, LoopTest, LoopStep, TakeImage,
         CopyImage, EndTurn, Crash, history, vars
    <3>2. QED
      BY <3>1 DEF Sent
  <2>3. QED
    BY <2>1, <2>2
<1>4. strayed' \subseteq strayed \cup Strayings
  BY DEF Next, Main, PressRecord, PrepareCamera, SendStop, Receivers, SkipStop,
     ReceiveStop, WaitOver, StopCamera, Thread, LoopTest, LoopStep, TakeImage,
     CopyImage, EndTurn, Crash, ThreadStep, history, vars, Strayings
<1>5. QED
  BY <1>2, <1>3, <1>4 DEF Sent

\* A step of a thread registers and unregisters nothing.
LEMMA ThreadRegisters ==
  ASSUME NEW s \in Objects, Thread(s), obj \in [Objects -> ObjectStates]
  PROVE  \A t \in Objects : obj'[t].registered = obj[t].registered
<1>1. obj[s] \in ObjectStates
  OBVIOUS
<1>2. CASE LoopTest(s)
  <2> DEFINE pc == IF obj[s].flag = 1 /\ obj[s].exists THEN "take" ELSE "ended"
             o == [obj[s] EXCEPT !.pc = pc, !.tested = TRUE]
  <2>1. obj' = [obj EXCEPT ![s] = o]
    BY <1>2 DEF LoopTest, LoopStep
  <2>2. o.registered = obj[s].registered
    BY <1>1 DEF ObjectStates
  <2> HIDE DEF o
  <2>3. QED
    BY <2>1, <2>2
<1>3. CASE TakeImage(s)
  <2> DEFINE pc == IF card[0].rgb = None THEN "turn" ELSE "copy"
             o == [obj[s] EXCEPT !.image = card[0].rgb, !.pc = pc]
  <2>1. obj' = [obj EXCEPT ![s] = o]
    BY <1>3 DEF TakeImage
  <2>2. o.registered = obj[s].registered
    BY <1>1 DEF ObjectStates
  <2> HIDE DEF o
  <2>3. QED
    BY <2>1, <2>2
<1>4. ASSUME NEW from, NEW to, ThreadStep(s, from, to)
      PROVE  \A t \in Objects : obj'[t].registered = obj[t].registered
  <2> DEFINE o == [obj[s] EXCEPT !.pc = to]
  <2>1. obj' = [obj EXCEPT ![s] = o]
    BY <1>4 DEF ThreadStep
  <2>2. o.registered = obj[s].registered
    BY <1>1 DEF ObjectStates
  <2> HIDE DEF o
  <2>3. QED
    BY <2>1, <2>2
<1>5. QED
  BY <1>2, <1>3, <1>4 DEF Thread, CopyImage, EndTurn, Crash

\* Only prepareCamera and stopCamera touch a camera, and only they and the
\* receiver change who is registered.
LEMMA TidyKeeps == ASSUME IInv, Sent, Intended => Tidy, [Next]_vars, Intended'
                   PROVE  Tidy'
<1>1. /\ card \in [Cameras -> Cards] /\ mcam \in Cameras
      /\ obj \in [Objects -> ObjectStates]
      /\ mpc # "idle" => mobj \in Objects
      /\ mcam \in Nat /\ Cameras \subseteq Nat /\ 0 \in Cameras
  BY ObjectsFacts DEF IInv, Types
<1>2. strayed \subseteq strayed'
  BY DEF Next, Main, PressRecord, PrepareCamera, SendStop, Receivers, SkipStop,
     ReceiveStop, WaitOver, StopCamera, Thread, LoopTest, LoopStep, TakeImage,
     CopyImage, EndTurn, Crash, ThreadStep, history, vars
<1>3. Intended /\ Tidy /\ Calm
  BY <1>2 DEF Intended, Calm
<1>4. ASSUME card' = card,
             mpc' = "prepare" => Resting \/ (mpc = "prepare" /\ mcam' = mcam),
             mpc' = "stop" => mcam' = 0 \/ (mpc = "stop" /\ mcam' = mcam),
             Resting' => Resting
      PROVE  Tidy'
  <2>1. \A i \in Cameras : ~(i < 0)
    BY <1>1
  <2>2. (\A i \in Cameras : Clean(card[i]))' /\ (Resting => \A i \in Cameras : Empty(card[i]))'
    BY <1>3, <1>4 DEF Tidy, Clean
  <2>3. (mpc = "prepare" => \A i \in Cameras : i >= mcam => Empty(card[i]))'
    BY <1>3, <1>4 DEF Tidy
  <2>4. (mpc = "stop" => \A i \in Cameras : i < mcam => Empty(card[i]))'
    BY <1>3, <1>4, <2>1 DEF Tidy
  <2>5. QED
    BY <2>2, <2>3, <2>4 DEF Tidy
<1>5. CASE PressRecord
  <2>1. ~\E s \in Objects : obj[s].registered
    BY <1>5 DEF PressRecord, Intended
  <2>2. card' = card /\ Resting /\ mpc' = "prepare"
    BY <1>5, <2>1 DEF PressRecord, Resting
  <2>3. QED
    BY <1>4, <2>2 DEF Resting
<1>6. CASE PrepareCamera
  <2> DEFINE last == mcam = CAMERANUM - 1
  <2>1. PICK r \in prepared(card[mcam], mobj) :
          /\ card' = [card EXCEPT ![mcam] = r.card]
          /\ strayed' = strayed
               \cup (IF ~r.ok /\ card[mcam].rgb # None THEN {"lost"} ELSE {})
               \cup (IF ~r.ok /\ <<"buffers", mobj>> \in r.card.heap THEN {"half"} ELSE {})
          /\ obj' = [obj EXCEPT ![mobj].exists = IF mcam = 0 THEN r.ok ELSE @,
                       ![mobj].registered = (mcam = CAMERANUM - 1),
                       ![mobj].pc = IF mcam = CAMERANUM - 1 THEN "loop" ELSE @]
    BY <1>6, Zenon DEF PrepareCamera
  <2>2. /\ mpc = "prepare" /\ mobj \in Objects
        /\ last => mpc' = "idle"
        /\ ~last => mpc' = "prepare" /\ mcam' = mcam + 1
    BY <1>1, <1>6 DEF PrepareCamera
  <2>3. Empty(card[mcam]) /\ card[mcam] \in Cards
    BY <1>1, <1>3, <2>2 DEF Tidy
  <2>4. Clean(r.card)
    <3>1. IF r.ok THEN Whole(r.card, mobj) ELSE Empty(r.card) \/ Half(r.card, mobj)
      BY <2>2, <2>3, PreparedEmpty
    <3>2. ~r.ok => ~Half(r.card, mobj)
      BY <2>1 DEF Intended, Half
    <3>3. QED
      BY <2>2, <3>1, <3>2 DEF Clean
  <2>5. card'[mcam] = r.card /\ \A i \in Cameras : i # mcam => card'[i] = card[i]
    BY <1>1, <2>1
  <2>6. last => obj'[mobj].registered
    <3>1. obj'[mobj] = [obj[mobj] EXCEPT !.exists = IF mcam = 0 THEN r.ok ELSE @,
                          !.registered = last,
                          !.pc = IF mcam = CAMERANUM - 1 THEN "loop" ELSE @]
      BY <1>1, <2>1, <2>2
    <3>2. obj[mobj] \in ObjectStates
      BY <1>1, <2>2
    <3>3. QED
      BY <3>1, <3>2 DEF ObjectStates
  <2>7. ~Resting'
    BY <2>2, <2>6 DEF Resting
  <2>8. \A i \in Cameras : Clean(card'[i])
    BY <1>3, <2>4, <2>5 DEF Tidy
  <2>9. mpc' = "prepare" => \A i \in Cameras : i >= mcam' => Empty(card'[i])
    <3>1. mpc' = "prepare" => \A i \in Cameras : i >= mcam' => i # mcam /\ i >= mcam
      BY <1>1, <2>2
    <3>2. QED
      BY <1>3, <2>2, <2>5, <3>1 DEF Tidy
  <2>10. mpc' # "stop"
    BY <2>2
  <2> HIDE DEF last
  <2>11. QED
    BY <2>7, <2>8, <2>9, <2>10 DEF Tidy, Clean, Empty, Whole
<1>7. CASE StopCamera
  <2> DEFINE last == mcam = CAMERANUM - 1
  <2>1. /\ mpc = "stop" /\ card' = [card EXCEPT ![mcam] = stopped(card[mcam])]
        /\ last => mpc' = "idle"
        /\ ~last => mpc' = "stop" /\ mcam' = mcam + 1
    BY <1>7 DEF StopCamera
  <2>2. Empty(stopped(card[mcam]))
    BY <1>1, <1>3, StoppedClean DEF Tidy
  <2>3. /\ Empty(card'[mcam])
        /\ \A i \in Cameras : i # mcam => card'[i] = card[i]
    BY <1>1, <2>1, <2>2
  <2>4. \A i \in Cameras : i <= mcam => Empty(card'[i])
    <3>1. \A i \in Cameras : i <= mcam => i = mcam \/ i < mcam
      BY <1>1
    <3>2. QED
      BY <1>3, <2>1, <2>3, <3>1 DEF Tidy
  <2>5. \A i \in Cameras : Clean(card'[i])
    BY <1>3, <2>3 DEF Tidy, Clean
  <2>6. last => \A i \in Cameras : i <= mcam
    BY CameraAssumption DEF Cameras
  <2>7. ~last => \A i \in Cameras : i < mcam' => i <= mcam
    BY <1>1, <2>1
  <2> HIDE DEF last
  <2>8. mpc' # "prepare" /\ (mpc' = "stop" => ~last) /\ (mpc' = "idle" => last)
    BY <2>1
  <2>9. QED
    BY <2>4, <2>5, <2>6, <2>7, <2>8 DEF Tidy, Clean, Empty, Whole, Resting
<1>8. ASSUME NEW s \in Objects, ReceiveStop(s) PROVE Tidy'
  <2>1. card' = card /\ mpc' = "wait"
    BY <1>8 DEF ReceiveStop
  <2>2. QED
    BY <1>4, <2>1 DEF Resting
<1>9. CASE WaitOver
  <2>1. card' = card /\ mpc' = "stop" /\ mcam' = 0
    BY <1>9 DEF WaitOver
  <2>2. QED
    BY <1>4, <2>1 DEF Resting
<1>10. CASE SendStop \/ (\E s \in Objects : SkipStop(s)) \/ UNCHANGED vars
  <2>1. UNCHANGED <<card, mpc, mcam, obj>>
    BY <1>10 DEF SendStop, SkipStop, vars, mainvars
  <2>2. QED
    BY <1>4, <2>1 DEF Resting
<1>11. ASSUME NEW s \in Objects, Thread(s) PROVE Tidy'
  <2>1. UNCHANGED <<card, mpc, mcam>>
    BY <1>11 DEF Thread, LoopTest, LoopStep, TakeImage, CopyImage, EndTurn, Crash,
       ThreadStep, mainvars
  <2>2. \A t \in Objects : obj'[t].registered = obj[t].registered
    BY <1>1, <1>11, ThreadRegisters
  <2>3. QED
    BY <1>4, <2>1, <2>2 DEF Resting
<1>12. QED
  BY <1>5, <1>6, <1>7, <1>8, <1>9, <1>10, <1>11 DEF Next, Main, Receivers

\* The second invariant holds on top of the first.
THEOREM TidyInductive == Spec => []TInv
<1>1. Init => TInv
  BY TInvInit
<1>2. IInv /\ TInv /\ [Next]_vars => TInv'
  BY SentKeeps, TidyKeeps DEF TInv
<1>3. QED
  BY <1>1, <1>2, UsbInductive, PTL DEF Spec

\* The state of the cameras, the objects and the main thread is well-typed.
THEOREM TypeCorrect == Spec => []TypeOK
<1>1. IInv /\ TInv => TypeOK
  BY DEF IInv, Types, TInv, Sent, TypeOK
<1>2. QED
  BY <1>1, UsbInductive, TidyInductive, PTL

\* When every UsbCameraData has been stopped, no camera is open and no memory
\* is held for it (mycamera.c), in the intended use and if no camera failed
\* half prepared.
THEOREM StopReleasesAlways == Spec => []StopReleases
<1>1. TInv => StopReleases
  BY DEF TInv, Tidy, Intended, StopReleases, Empty, Files
<1>2. QED
  BY <1>1, TidyInductive, PTL
=============================================================================
