-------------------------- MODULE FrameQueue_proof --------------------------
(***************************************************************************)
(* The counter of the frame buffer and the bound it puts on the buffer,    *)
(* for any number of camera and recorder threads and any maximum.          *)
(***************************************************************************)
EXTENDS FrameQueue, FiniteSetTheorems, SequenceTheorems, TLAPS

\* Every step of a thread keeps the types of the buffer.
LEMMA QTypeStep ==
  ASSUME QTypeOK, [Next]_qvars
  PROVE  QTypeOK'
<1> USE QueueAssumption DEF Threads, Frames, NoFrame
<1> USE DEF QTypeOK
<1>1. ASSUME NEW p \in Producers, AddDrops(p) PROVE QTypeOK'
  BY <1>1 DEF AddDrops
<1>2. ASSUME NEW p \in Producers, AddAccepts(p) PROVE QTypeOK'
  BY <1>2 DEF AddAccepts
<1>3. ASSUME NEW p \in Producers, Put(p) PROVE QTypeOK'
  <2>1. holders' \in Seq(1..MaxFrames)
    BY <1>3, AppendProperties DEF Put
  <2>2. QED
    BY <1>3, <2>1 DEF Put
<1>4. ASSUME NEW p \in Producers, IncLoad(p) PROVE QTypeOK'
  BY <1>4 DEF IncLoad, Load
<1>5. ASSUME NEW p \in Producers, IncStore(p) PROVE QTypeOK'
  <2>1. reg[p] \in Int /\ size \in Int /\ lost \in Nat
    OBVIOUS
  <2>2. Distance(size, reg[p]) \in Nat
    BY <2>1 DEF Distance
  <2>3. QED
    BY <1>5, <2>1, <2>2 DEF IncStore, Store
<1>6. ASSUME NEW c \in Consumers, Take(c) PROVE QTypeOK'
  <2>1. /\ Head(holders) \in 1..MaxFrames
        /\ Tail(holders) \in Seq(1..MaxFrames)
    BY <1>6, HeadTailProperties DEF Take
  <2>2. QED
    BY <1>6, <2>1 DEF Take
<1>7. ASSUME NEW c \in Consumers, DecLoad(c) PROVE QTypeOK'
  BY <1>7 DEF DecLoad, Load
<1>8. ASSUME NEW c \in Consumers, DecStore(c) PROVE QTypeOK'
  <2>1. reg[c] \in Int /\ size \in Int /\ lost \in Nat
    OBVIOUS
  <2>2. Distance(size, reg[c]) \in Nat
    BY <2>1 DEF Distance
  <2>3. QED
    BY <1>8, <2>1, <2>2 DEF DecStore, Store
<1>9. CASE UNCHANGED qvars
  BY <1>9 DEF qvars
<1>10. QED
  BY <1>1, <1>2, <1>3, <1>4, <1>5, <1>6, <1>7, <1>8, <1>9 DEF Next

\* Every thread does one thing at a time, and frames are what is in the
\* queue and in the hands of the threads.
THEOREM QTypeCorrect == Spec => []QTypeOK
<1> USE QueueAssumption DEF Threads, Frames, NoFrame
<1>1. Init => QTypeOK
  <2> SUFFICES ASSUME Init PROVE QTypeOK
    OBVIOUS
  <2>1. holders \in Seq(1..MaxFrames) /\ grabbed \in 0..MaxFrames
    BY DEF Init
  <2>2. op \in [Threads -> {"idle"}] /\ hand \in [Threads -> {0}]
        /\ reg \in [Threads -> {0}]
    BY DEF Init
  <2>3. size \in Int
    BY DEF Init
  <2>4. lost \in Nat
    BY DEF Init
  <2>5. QED
    BY <2>1, <2>2, <2>3, <2>4 DEF QTypeOK
<1>2. QTypeOK /\ [Next]_qvars => QTypeOK'
  BY QTypeStep
<1>3. QED
  BY <1>1, <1>2, PTL DEF Spec

-----------------------------------------------------------------------------

\* Threads enter and leave the two sets of a counter in transit one by one.
LEMMA ThreadSets ==
  /\ IsFiniteSet(Threads)
  /\ IsFiniteSet(Uncounted) /\ Cardinality(Uncounted) \in Nat
  /\ IsFiniteSet(Overcounted) /\ Cardinality(Overcounted) \in Nat
  /\ IsFiniteSet(Putting) /\ Cardinality(Putting) \in Nat
  /\ Cardinality(Producers) \in Nat
<1>1. IsFiniteSet(Threads)
  BY QueueAssumption, FS_Union DEF Threads
<1>2. /\ Uncounted \subseteq Threads
      /\ Overcounted \subseteq Threads
      /\ Putting \subseteq Producers
  BY DEF Uncounted, Overcounted, Putting
<1>3. QED
  BY <1>1, <1>2, FS_Subset, FS_CardinalityType, QueueAssumption

\* A store is off by what it overwrites and by what the counter was off.
LEMMA Triangle ==
  ASSUME NEW i \in Int, NEW j \in Int, NEW k \in Int
  PROVE  /\ Distance(i, j) \in Nat
         /\ Distance(i, k) <= Distance(i, j) + Distance(j, k)
         /\ Distance(i, j) = Distance(j, i)
         /\ Distance(i + 1, j + 1) = Distance(i, j)
         /\ Distance(i - 1, j - 1) = Distance(i, j)
BY DEF Distance

\* Only a store moves the counter away from what it should be: whoever stores
\* it changes it by what it has put or taken.
LEMMA SizeStep ==
  ASSUME QTypeOK, SizeIsLength, [Next]_qvars
  PROVE  SizeIsLength'
<1> USE QueueAssumption, ThreadSets
<1>0. /\ Len(holders) \in Nat /\ size \in Int /\ Counted \in Int /\ lost \in Nat
      /\ reg \in [Threads -> Int]
      /\ Distance(size, Counted) <= lost
  BY LenProperties DEF QTypeOK, SizeIsLength, Frames, Counted
<1>1. ASSUME NEW p \in Producers, AddDrops(p) \/ AddAccepts(p)
      PROVE  SizeIsLength'
  <2>1. Uncounted' = Uncounted /\ Overcounted' = Overcounted
    BY <1>1 DEF AddDrops, AddAccepts, Uncounted, Overcounted, Threads, QTypeOK
  <2>2. QED
    BY <1>0, <1>1, <2>1 DEF AddDrops, AddAccepts, Counted, SizeIsLength
<1>2. ASSUME NEW p \in Producers, Put(p)
      PROVE  SizeIsLength'
  <2>1. Uncounted' = Uncounted \cup {p} /\ p \notin Uncounted
        /\ Overcounted' = Overcounted
    BY <1>2 DEF Put, Uncounted, Overcounted, Threads, QTypeOK
  <2>2. Cardinality(Uncounted') = Cardinality(Uncounted) + 1
    BY <2>1, FS_AddElement
  <2>3. Len(holders') = Len(holders) + 1
    BY <1>2, AppendProperties DEF Put, QTypeOK
  <2>4. Counted' = Counted
    BY <1>0, <2>1, <2>2, <2>3 DEF Counted
  <2>5. QED
    BY <1>0, <1>2, <2>4 DEF Put, SizeIsLength
<1>3. ASSUME NEW c \in Consumers, Take(c)
      PROVE  SizeIsLength'
  <2>1. Overcounted' = Overcounted \cup {c} /\ c \notin Overcounted
        /\ Uncounted' = Uncounted
    BY <1>3 DEF Take, Uncounted, Overcounted, Threads, QTypeOK
  <2>2. Cardinality(Overcounted') = Cardinality(Overcounted) + 1
    BY <2>1, FS_AddElement
  <2>3. Len(holders') = Len(holders) - 1
    BY <1>3, HeadTailProperties DEF Take, QTypeOK
  <2>4. Counted' = Counted
    BY <1>0, <2>1, <2>2, <2>3 DEF Counted
  <2>5. QED
    BY <1>0, <1>3, <2>4 DEF Take, SizeIsLength
<1>4. ASSUME NEW t \in Threads, IncLoad(t) \/ DecLoad(t)
      PROVE  SizeIsLength'
  <2>1. Uncounted' = Uncounted /\ Overcounted' = Overcounted
    BY <1>4 DEF IncLoad, DecLoad, Load, Uncounted, Overcounted, QTypeOK
  <2>2. QED
    BY <1>0, <1>4, <2>1 DEF IncLoad, DecLoad, Load, Counted, SizeIsLength
<1>5. ASSUME NEW p \in Producers, IncStore(p)
      PROVE  SizeIsLength'
  <2>1. Uncounted' = Uncounted \ {p} /\ p \in Uncounted
        /\ Overcounted' = Overcounted
    BY <1>5 DEF IncStore, Store, Uncounted, Overcounted, Threads, QTypeOK
  <2>2. Cardinality(Uncounted') = Cardinality(Uncounted) - 1
    BY <2>1, FS_RemoveElement
  <2>3. /\ size' = reg[p] + 1 /\ holders' = holders /\ reg[p] \in Int
        /\ lost' = lost + Distance(size, reg[p])
    BY <1>0, <1>5 DEF IncStore, Store, Threads
  <2>4. Counted' = Counted + 1
    BY <1>0, <2>1, <2>2, <2>3 DEF Counted
  <2>5. /\ Distance(size', Counted') = Distance(reg[p], Counted)
        /\ Distance(reg[p], Counted) <= Distance(size, reg[p]) + Distance(size, Counted)
        /\ Distance(size, reg[p]) \in Nat /\ Distance(size, Counted) \in Nat
        /\ Distance(reg[p], Counted) \in Nat
    BY <1>0, <2>3, <2>4, Triangle
  <2>6. QED
    BY <1>0, <2>3, <2>5 DEF SizeIsLength
<1>6. ASSUME NEW c \in Consumers, DecStore(c)
      PROVE  SizeIsLength'
  <2>1. Overcounted' = Overcounted \ {c} /\ c \in Overcounted
        /\ Uncounted' = Uncounted
    BY <1>6 DEF DecStore, Store, Uncounted, Overcounted, Threads, QTypeOK
  <2>2. Cardinality(Overcounted') = Cardinality(Overcounted) - 1
    BY <2>1, FS_RemoveElement
  <2>3. /\ size' = reg[c] - 1 /\ holders' = holders /\ reg[c] \in Int
        /\ lost' = lost + Distance(size, reg[c])
    BY <1>0, <1>6 DEF DecStore, Store, Threads
  <2>4. Counted' = Counted - 1
    BY <1>0, <2>1, <2>2, <2>3 DEF Counted
  <2>5. /\ Distance(size', Counted') = Distance(reg[c], Counted)
        /\ Distance(reg[c], Counted) <= Distance(size, reg[c]) + Distance(size, Counted)
        /\ Distance(size, reg[c]) \in Nat /\ Distance(size, Counted) \in Nat
        /\ Distance(reg[c], Counted) \in Nat
    BY <1>0, <2>3, <2>4, Triangle
  <2>6. QED
    BY <1>0, <2>3, <2>5 DEF SizeIsLength
<1>7. ASSUME UNCHANGED qvars
      PROVE  SizeIsLength'
  <2>1. Uncounted' = Uncounted /\ Overcounted' = Overcounted
    BY <1>7 DEF qvars, Uncounted, Overcounted
  <2>2. QED
    BY <1>0, <1>7, <2>1 DEF qvars, Counted, SizeIsLength
<1>8. QED
  BY <1>1, <1>2, <1>3, <1>4, <1>5, <1>6, <1>7 DEF Next, Threads

\* getSize() is the number of frames in the buffer, up to the updates under
\* way and those that have been overwritten.
THEOREM SizeCorrect == Spec => []SizeIsLength
<1>1. Init => SizeIsLength
  <2> SUFFICES ASSUME Init PROVE SizeIsLength
    OBVIOUS
  <2>1. Uncounted = {} /\ Overcounted = {}
    BY DEF Init, Uncounted, Overcounted
  <2>2. Counted = 0
    BY <2>1, FS_EmptySet DEF Init, Counted
  <2>3. QED
    BY <2>2 DEF Init, SizeIsLength, Distance
<1>2. QTypeOK /\ SizeIsLength /\ [Next]_qvars => SizeIsLength'
  BY SizeStep
<1>3. QED
  BY <1>1, <1>2, QTypeCorrect, PTL DEF Spec

-----------------------------------------------------------------------------

\* The frames that are in the queue or about to be put there.  BufferBound
\* alone is not inductive: it says nothing of the frames that have passed the
\* test of add() and are on their way.
Committed ==
  Len(holders) + Cardinality(Putting)
    <= BitMapHolderMax + Cardinality(Producers) + lost

\* No step commits a frame beyond the bound: a producer that passes the test
\* of add() finds the counter, and so the queue, at the maximum or below.
LEMMA CommittedStep ==
  ASSUME QTypeOK, SizeIsLength, Committed, [Next]_qvars
  PROVE  Committed'
<1> USE QueueAssumption, ThreadSets
<1> DEFINE Goal == Committed'
<1>0. /\ Len(holders) \in Nat /\ lost \in Nat /\ size \in Int
      /\ Len(holders) + Cardinality(Putting)
           <= BitMapHolderMax + Cardinality(Producers) + lost
  BY LenProperties DEF QTypeOK, Committed, Frames
<1>1. ASSUME NEW p \in Producers, AddAccepts(p) PROVE Goal
  <2>1. Putting' = Putting \cup {p} /\ p \notin Putting
    BY <1>1 DEF AddAccepts, Putting, Threads, QTypeOK
  <2>2. Cardinality(Putting') = Cardinality(Putting) + 1
    BY <2>1, FS_AddElement
  <2>3. Cardinality(Putting') + Cardinality(Uncounted) <= Cardinality(Producers)
    <3>1. /\ Putting' \subseteq Producers
          /\ Uncounted \subseteq Producers
          /\ Putting' \cap Uncounted = {}
      BY <1>1, <2>1 DEF AddAccepts, Putting, Uncounted, Threads, QTypeOK
    <3>2. /\ IsFiniteSet(Putting')
          /\ Cardinality(Putting' \cup Uncounted)
               = Cardinality(Putting') + Cardinality(Uncounted)
      <4>1. IsFiniteSet(Putting') /\ Cardinality(Putting') \in Nat
        BY <2>1, FS_AddElement, FS_CardinalityType
      <4>2. Cardinality(Putting' \cup Uncounted)
              = Cardinality(Putting') + Cardinality(Uncounted)
                  - Cardinality(Putting' \cap Uncounted)
        BY <4>1, FS_Union
      <4>3. Cardinality(Putting' \cap Uncounted) = 0
        BY <3>1, FS_EmptySet
      <4>4. QED
        BY <4>1, <4>2, <4>3
    <3>3. Cardinality(Putting' \cup Uncounted) <= Cardinality(Producers)
      BY <3>1, FS_Subset
    <3>4. QED
      BY <3>2, <3>3
  <2>4. /\ holders' = holders /\ lost' = lost /\ size <= BitMapHolderMax
        /\ Len(holders) - Cardinality(Uncounted) + Cardinality(Overcounted)
             <= size + lost
    BY <1>0, <1>1 DEF AddAccepts, SizeIsLength, Counted, Distance
  <2>5. QED
    BY <1>0, <2>2, <2>3, <2>4 DEF Committed
<1>2. ASSUME NEW p \in Producers, Put(p) PROVE Goal
  <2>1. Putting' = Putting \ {p} /\ p \in Putting
    BY <1>2 DEF Put, Putting, Threads, QTypeOK
  <2>2. Cardinality(Putting') = Cardinality(Putting) - 1
    BY <2>1, FS_RemoveElement
  <2>3. Len(holders') = Len(holders) + 1
    BY <1>2, AppendProperties DEF Put, QTypeOK
  <2>4. QED
    BY <1>0, <1>2, <2>2, <2>3 DEF Put, Committed
<1>3. ASSUME NEW c \in Consumers, Take(c) PROVE Goal
  <2>1. Putting' = Putting
    BY <1>3 DEF Take, Putting, Threads, QTypeOK
  <2>2. Len(holders') = Len(holders) - 1
    BY <1>3, HeadTailProperties DEF Take, QTypeOK
  <2>3. QED
    BY <1>0, <1>3, <2>1, <2>2 DEF Take, Committed
<1>4. ASSUME NEW t \in Threads,
             IncLoad(t) \/ IncStore(t) \/ DecLoad(t) \/ DecStore(t)
      PROVE  Goal
  <2>1. Putting' = Putting /\ holders' = holders
    BY <1>4 DEF IncLoad, IncStore, DecLoad, DecStore, Load, Store, Putting,
                Threads, QTypeOK
  <2>2. lost' \in Nat /\ lost' >= lost
    <3>1. reg[t] \in Int
      BY DEF QTypeOK
    <3>2. Distance(size, reg[t]) \in Nat
      BY <1>0, <3>1, Triangle
    <3>3. lost' = lost \/ lost' = lost + Distance(size, reg[t])
      BY <1>4 DEF IncLoad, IncStore, DecLoad, DecStore, Load, Store
    <3>4. QED
      BY <1>0, <3>2, <3>3
  <2>3. QED
    BY <1>0, <2>1, <2>2 DEF Committed
<1>5. ASSUME NEW p \in Producers, AddDrops(p) PROVE Goal
  <2>1. Putting' = Putting /\ holders' = holders /\ lost' = lost
    BY <1>5 DEF AddDrops, Putting
  <2>2. QED
    BY <1>0, <2>1 DEF Committed
<1>6. ASSUME UNCHANGED qvars PROVE Goal
  <2>1. Putting' = Putting /\ holders' = holders /\ lost' = lost
    BY <1>6 DEF qvars, Putting
  <2>2. QED
    BY <1>0, <2>1 DEF Committed
<1>7. QED
  BY <1>1, <1>2, <1>3, <1>4, <1>5, <1>6 DEF Next, Threads

\* The buffer holds at most one frame more than the maximum for each camera
\* thread and each update of the counter that has been overwritten.
THEOREM BufferBounded == Spec => []BufferBound
<1>1. Init => Committed
  <2> SUFFICES ASSUME Init PROVE Committed
    OBVIOUS
  <2>1. Putting = {}
    BY DEF Init, Putting, Threads
  <2>2. QED
    BY <2>1, FS_EmptySet, ThreadSets, QueueAssumption DEF Init, Committed
<1>2. QTypeOK /\ SizeIsLength /\ Committed /\ [Next]_qvars => Committed'
  BY CommittedStep
<1>3. QTypeOK /\ Committed => BufferBound
  BY ThreadSets, LenProperties, QueueAssumption
    DEF QTypeOK, Committed, BufferBound, Frames
<1>4. QED
  BY <1>1, <1>2, <1>3, QTypeCorrect, SizeCorrect, PTL DEF Spec
=============================================================================
