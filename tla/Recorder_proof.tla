--------------------------- MODULE Recorder_proof ---------------------------
(***************************************************************************)
(* Theorems about Recorder: the invariant its other proofs rest on, and    *)
(* that recording keeps the promise of FrameLog: whatever recorders        *)
(* overlap on the buffer, a frame goes to at most one file, and with one   *)
(* camera thread the frames of a file are in the camera's order.           *)
(***************************************************************************)
EXTENDS Recorder, FiniteSetTheorems, SequenceTheorems, TLAPS

\* FrameQueue again, with what is proved about it.
QP == INSTANCE FrameQueue_proof WITH Producers <- Cams, Consumers <- Recs

\* The constants of the buffer are what FrameQueue assumes of them.
LEMMA QueueConstants ==
  /\ IsFiniteSet(Cams) /\ IsFiniteSet(Recs)
  /\ Cams \cap Recs = {}
  /\ BitMapHolderMax \in Nat
  /\ MaxFrames \in Nat
BY RecorderAssumption, FS_Interval DEF Recs

\* The two instances of FrameQueue are one.
LEMMA QueueSame ==
  /\ QP!QueueAssumption
  /\ Queue!Init => QP!Init
  /\ [Queue!Next]_(Queue!qvars) => [QP!Next]_(QP!qvars)
  /\ QP!QTypeOK => Queue!QTypeOK
  /\ QP!SizeIsLength => Queue!SizeIsLength
  /\ QP!BufferBound => Queue!BufferBound
<1> USE DEF Queue!Threads, QP!Threads, Queue!NoFrame, QP!NoFrame,
            Queue!Frames, QP!Frames, Queue!Cardinality, QP!Cardinality,
            Queue!Distance, QP!Distance
<1>1. QP!QueueAssumption
  BY QueueConstants DEF QP!QueueAssumption, QP!IsFiniteSet, IsFiniteSet
<1>2. Queue!Init => QP!Init
  BY DEF Queue!Init, QP!Init
<1>3. [Queue!Next]_(Queue!qvars) => [QP!Next]_(QP!qvars)
  BY DEF Queue!Next, QP!Next, Queue!qvars, QP!qvars,
    Queue!AddDrops, QP!AddDrops, Queue!AddAccepts, QP!AddAccepts,
    Queue!Put, QP!Put, Queue!Take, QP!Take,
    Queue!IncLoad, QP!IncLoad, Queue!IncStore, QP!IncStore,
    Queue!DecLoad, QP!DecLoad, Queue!DecStore, QP!DecStore,
    Queue!Load, QP!Load, Queue!Store, QP!Store
<1>4. QP!QTypeOK => Queue!QTypeOK
  BY DEF Queue!QTypeOK, QP!QTypeOK
<1>5. QP!SizeIsLength => Queue!SizeIsLength
  BY DEF QP!SizeIsLength, Queue!SizeIsLength, QP!Uncounted, Queue!Uncounted,
    QP!Overcounted, Queue!Overcounted, QP!Counted, Queue!Counted
<1>6. QP!BufferBound => Queue!BufferBound
  BY DEF QP!BufferBound, Queue!BufferBound
<1>7. QED
  BY <1>1, <1>2, <1>3, <1>4, <1>5, <1>6

\* Camera, recorder and main threads use the buffer only as FrameQueue lets
\* its threads use it: every step of the program is a step of the buffer or
\* leaves it alone.
THEOREM QueueRefined == Spec => Queue!Spec
<1>1. Init => Queue!Init
  BY DEF Init
<1>2. [Next]_vars => [Queue!Next]_(Queue!qvars)
  <2> SUFFICES ASSUME [Next]_vars PROVE [Queue!Next]_(Queue!qvars)
    OBVIOUS
  <2> USE DEF Queue!qvars, qvars
  <2>1. ASSUME NEW c \in Cams, Grab(c) PROVE Queue!Next
    BY <2>1 DEF Grab, Queue!Next
  <2>2. ASSUME NEW c \in Cams, QueueStep(c) PROVE Queue!Next
    BY <2>2 DEF QueueStep, Queue!Next
  <2>3. ASSUME NEW v \in Recs, GetFrame(v) PROVE Queue!Next
    BY <2>3 DEF GetFrame, Queue!Next
  <2>4. ASSUME NEW v \in Recs, CountDown(v) PROVE Queue!Next
    BY <2>4 DEF CountDown, Queue!Next
  <2>5. ASSUME NEW c \in Cams, CameraGoesOn(c), ~QueueStep(c)
        PROVE  UNCHANGED qvars
    BY <2>5 DEF CameraGoesOn, LoopTest, CameraCreates, Construct, TakeSlot,
      SetListener, Start, NextTurn, CameraCrashes
  <2>6. ASSUME NEW v \in Recs, RecorderNext(v), ~GetFrame(v), ~CountDown(v)
        PROVE  UNCHANGED qvars
    BY <2>6 DEF RecorderNext, StartFile, StartFails, SwitcherTest, RecordFrame,
      RecordFails, DrainTest, DrainSize, StopFile, StopFails, RenameFile,
      CleanUp, Respawn, NoRespawn, Construct, TakeSlot, Start
  <2>7. ASSUME MainBusy PROVE UNCHANGED qvars
    BY <2>7 DEF MainBusy, MainStep, MarkStop, StopSlot, Drop, Restart,
      NoRestart, SwitchOff, CloseCamera, TakeSlot, Start, DeliverSwitch,
      DeliverStop
  <2>8. ASSUME MainAsked PROVE UNCHANGED qvars
    BY <2>8 DEF MainAsked, MainStep, PressStop, SendFileSwitch, PressRecord
  <2>9. ASSUME UNCHANGED vars PROVE UNCHANGED qvars
    BY <2>9 DEF vars
  <2>10. QED
    BY <2>1, <2>2, <2>3, <2>4, <2>5, <2>6, <2>7, <2>8, <2>9 DEF Next
<1>3. QED
  BY <1>1, <1>2, PTL DEF Spec, Queue!Spec

\* So what holds of the buffer by itself holds of it inside the program, with
\* any number of recorders that overlap at file switches: the counter drifts
\* by lost updates only, and the buffer is bounded up to them.
THEOREM BufferInProgram ==
  Spec => [](Queue!QTypeOK /\ Queue!SizeIsLength /\ Queue!BufferBound)
<1>1. QP!QueueAssumption
  BY QueueSame
<1>2. Queue!Spec => QP!Spec
  BY QueueSame, PTL DEF Queue!Spec, QP!Spec
<1>3. QP!Spec => [](QP!QTypeOK /\ QP!SizeIsLength /\ QP!BufferBound)
  <2>1. QP!Spec => []QP!QTypeOK
    BY <1>1, QP!QTypeCorrect
  <2>2. QP!Spec => []QP!SizeIsLength
    BY <1>1, QP!SizeCorrect
  <2>3. QP!Spec => []QP!BufferBound
    BY <1>1, QP!BufferBounded
  <2>4. QED
    BY <2>1, <2>2, <2>3, PTL
<1>4. QED
  BY <1>2, <1>3, QueueRefined, QueueSame, PTL

-----------------------------------------------------------------------------

\* The threads: camera, recorder and main threads are different ones.
LEMMA Sets ==
  /\ Recs \subseteq Workers /\ Cams \subseteq Workers /\ Main \in Workers
  /\ Main \notin Cams /\ Main \notin Recs
  /\ \A v \in Recs : v \notin Cams
  /\ MaxRec \in Nat /\ MaxFrames \in Nat
BY RecorderAssumption DEF Workers, Recs

\* An instance before its constructor has run.
LEMMA NewInstanceType == NewInstance \in Instances
BY Sets DEF NewInstance, Instances, RecPcs

\* The parts of TypeOK that change together.
RecOK ==
  /\ inst \in [Recs -> Instances]
  /\ born \in 0..MaxRec
  /\ \A v \in 1..born : inst[v].name \in 1..v
  /\ slot \in 0..born
  /\ mk \in [Workers -> [pc : {"none", "slot", "listen", "start"},
                         kid : 0..MaxRec]]
  /\ \A t \in Workers : mk[t].pc # "none" => mk[t].kid \in 1..born

MainOK ==
  /\ mpc \in {"idle", "mark", "stop", "restart", "switchOff", "sleep"}
  /\ mpc \in {"mark", "stop"} => slot # 0
  /\ mpc \in {"restart", "switchOff"} => mv \in 1..born
  /\ mpc = "sleep" => mv \in Cams
  /\ looper \in Seq(Broadcasts)
  /\ switches \in 0..MaxSwitches
  /\ stops \in 0..MaxStops

FileOK ==
  /\ faults \in 0..MaxFaults
  /\ raw \in [Recs -> SUBSET Recs]
  /\ kept \in SUBSET Recs
  /\ logged \in [Frames -> 0..MaxRec]

\* The parts make up the type invariant.
LEMMA TypeParts ==
  ASSUME Queue!QTypeOK', RecOK', (cam \in [Cams -> Cameras])', MainOK', FileOK'
  PROVE  TypeOK'
BY DEF TypeOK, RecOK, MainOK, FileOK

\* The life of an instance: it runs only after it has been constructed, a
\* recorder thread constructs one only to replace itself, and no two threads
\* construct the same one.  TypeOK is not inductive without this: Start would
\* not know that the instance it starts is a fresh one.
Lifecycle ==
  /\ \A v \in Recs : inst[v].pc # "new" \/ inst[v].registered => v <= born
  /\ \A v \in Recs : mk[v].pc # "none" => inst[v].pc = "respawn"
  /\ \A t \in Workers : mk[t].pc # "none" => inst[mk[t].kid].pc = "new"
  /\ \A t, u \in Workers : mk[t].pc # "none" /\ mk[u].pc # "none" /\ t # u
                             => mk[t].kid # mk[u].kid

\* The inductive invariant.
IInv == TypeOK /\ Lifecycle

\* What becomes of an instance when fields of it are assigned.
LEMMA FieldTypes ==
  ASSUME NEW i \in Instances
  PROVE  /\ [i EXCEPT !.switcher = 0] \in Instances
         /\ [i EXCEPT !.switcher = 0].name = i.name
         /\ [i EXCEPT !.switcher = 0].pc = i.pc
         /\ [i EXCEPT !.listener = TRUE] \in Instances
         /\ [i EXCEPT !.listener = TRUE].name = i.name
         /\ [i EXCEPT !.listener = TRUE].pc = i.pc
         /\ [i EXCEPT !.flag = 1] \in Instances
         /\ [i EXCEPT !.flag = 1].name = i.name
         /\ [i EXCEPT !.flag = 1].pc = i.pc
BY DEF Instances

\* What the constructor makes of it.
LEMMA FreshType ==
  ASSUME NEW i \in Instances, NEW b \in BOOLEAN, NEW s \in 0..MaxRec
  PROVE  /\ [i EXCEPT !.registered = TRUE, !.listener = b, !.name = s]
              \in Instances
         /\ [i EXCEPT !.registered = TRUE, !.listener = b, !.name = s].name = s
         /\ [i EXCEPT !.registered = TRUE, !.listener = b, !.name = s].pc = i.pc
BY DEF Instances

\* The constructor.
LEMMA ConstructType ==
  ASSUME TypeOK, NEW t \in Workers, NEW lsnr \in BOOLEAN, Construct(t, lsnr)
  PROVE  /\ inst' \in [Recs -> Instances]
         /\ born \in 0..MaxRec
         /\ born' = born + 1
         /\ born' \in 0..MaxRec
         /\ \A v \in 1..born' : inst'[v].name \in 1..v
         /\ \A v \in Recs : inst'[v].pc = IF v = born' THEN "new" ELSE inst[v].pc
         /\ mk' = [mk EXCEPT ![t] = [pc |-> "slot", kid |-> born + 1]]
         /\ UNCHANGED <<qvars, slot, filevars, faults>>
<1>1. born \in 0..MaxRec /\ born < MaxRec /\ born' = born + 1
  BY DEF TypeOK, Construct
<1>2. PICK s \in Seconds :
       inst' = [v \in Recs |->
         CASE v = born + 1 -> [NewInstance EXCEPT
                !.registered = TRUE, !.listener = lsnr, !.name = s]
           [] v = slot -> [inst[v] EXCEPT !.switcher = 0]
           [] OTHER -> inst[v]]
  BY DEF Construct
<1> DEFINE fresh == [NewInstance EXCEPT
                       !.registered = TRUE, !.listener = lsnr, !.name = s]
<1>3. s \in 1..(born + 1)
  <2>1. CASE born = 0
    BY <2>1, <1>2 DEF Seconds
  <2>2. CASE born # 0
    <3>1. inst[born].name \in 1..born
      BY <1>1, <2>2 DEF TypeOK
    <3>2. PICK d \in NameSteps : s = inst[born].name + d
      BY <1>2, <2>2 DEF Seconds
    <3>3. QED
      BY <1>1, <3>1, <3>2, RecorderAssumption
  <2>3. QED
    BY <2>1, <2>2
<1>4. fresh \in Instances /\ fresh.name = s /\ fresh.pc = "new"
  <2>1. s \in 0..MaxRec
    BY <1>1, <1>3, Sets
  <2>2. NewInstance.pc = "new"
    BY DEF NewInstance
  <2>3. QED
    BY <2>1, <2>2, NewInstanceType, FreshType
<1>5. \A v \in Recs :
        /\ inst[v] \in Instances
        /\ [inst[v] EXCEPT !.switcher = 0] \in Instances
        /\ [inst[v] EXCEPT !.switcher = 0].name = inst[v].name
        /\ [inst[v] EXCEPT !.switcher = 0].pc = inst[v].pc
  BY FieldTypes DEF TypeOK
<1>6. \A v \in Recs :
        inst'[v] = IF v = born + 1 THEN fresh
                   ELSE IF v = slot THEN [inst[v] EXCEPT !.switcher = 0]
                   ELSE inst[v]
  <2>1. slot # born + 1
    BY <1>1 DEF TypeOK
  <2>2. QED
    BY <1>2, <2>1
<1>7. inst' \in [Recs -> Instances]
  <2>1. \A v \in Recs : inst'[v] \in Instances
    BY <1>4, <1>5, <1>6
  <2>2. QED
    BY <1>2, <2>1
<1>8. \A v \in 1..born' : inst'[v].name \in 1..v
  <2> SUFFICES ASSUME NEW v \in 1..born' PROVE inst'[v].name \in 1..v
    OBVIOUS
  <2>1. v \in Recs
    BY <1>1, Sets DEF Recs
  <2>2. CASE v = born + 1
    BY <1>3, <1>4, <1>6, <2>1, <2>2
  <2>3. CASE v # born + 1
    <3>1. inst[v].name \in 1..v
      BY <1>1, <2>3 DEF TypeOK
    <3>2. QED
      BY <1>5, <1>6, <2>1, <2>3, <3>1
  <2>4. QED
    BY <2>2, <2>3
<1>9. \A v \in Recs : inst'[v].pc = IF v = born' THEN "new" ELSE inst[v].pc
  BY <1>1, <1>4, <1>5, <1>6
<1>10. /\ mk' = [mk EXCEPT ![t] = [pc |-> "slot", kid |-> born + 1]]
       /\ UNCHANGED <<qvars, slot, filevars, faults>>
  BY Zenon DEF Construct
<1>11. born' \in 0..MaxRec
  BY <1>1, Sets
<1>12. QED
  BY <1>1, <1>7, <1>8, <1>9, <1>10, <1>11, Zenon

\* A field of one instance is assigned.
LEMMA FieldStep ==
  ASSUME RecOK, NEW v \in Recs, NEW to \in Instances, to.name = inst[v].name,
         inst' = [inst EXCEPT ![v] = to], UNCHANGED <<born, slot, mk>>
  PROVE  RecOK'
<1>1. inst' \in [Recs -> Instances]
  BY DEF RecOK
<1>2. \A w \in 1..born : inst'[w].name \in 1..w
  <2> SUFFICES ASSUME NEW w \in 1..born PROVE inst'[w].name \in 1..w
    OBVIOUS
  <2>1. w \in Recs
    BY Sets DEF RecOK, Recs
  <2>2. inst'[w].name = inst[w].name
    BY <2>1 DEF RecOK
  <2>3. QED
    BY <2>2 DEF RecOK
<1>3. QED
  BY <1>1, <1>2 DEF RecOK

\* A thread constructs an instance.
LEMMA ConstructOK ==
  ASSUME TypeOK, NEW t \in Workers, NEW lsnr \in BOOLEAN, Construct(t, lsnr)
  PROVE  RecOK' /\ born' = born + 1 /\ UNCHANGED <<qvars, slot, filevars, faults>>
<1> DEFINE mine == [pc |-> "slot", kid |-> born + 1]
<1>1. /\ inst' \in [Recs -> Instances] /\ born \in 0..MaxRec
      /\ born' = born + 1 /\ born' \in 0..MaxRec
      /\ \A v \in 1..born' : inst'[v].name \in 1..v
      /\ \A v \in Recs : inst'[v].pc = IF v = born' THEN "new" ELSE inst[v].pc
      /\ mk' = [mk EXCEPT ![t] = mine]
      /\ UNCHANGED <<qvars, slot, filevars, faults>>
  BY ConstructType
<1>2. mine \in [pc : {"none", "slot", "listen", "start"}, kid : 0..MaxRec]
      /\ mine.kid = born'
  BY <1>1, Sets
<1>3. /\ mk' \in [Workers -> [pc : {"none", "slot", "listen", "start"},
                             kid : 0..MaxRec]]
      /\ \A u \in Workers : u # t => mk'[u] = mk[u]
      /\ mk'[t] = mine
  BY <1>1, <1>2 DEF TypeOK
<1>4. \A u \in Workers : mk'[u].pc # "none" => mk'[u].kid \in 1..born'
  <2> SUFFICES ASSUME NEW u \in Workers, mk'[u].pc # "none"
               PROVE  mk'[u].kid \in 1..born'
    OBVIOUS
  <2>1. CASE u = t
    BY <1>1, <1>2, <1>3, <2>1
  <2>2. CASE u # t
    BY <1>1, <1>3, <2>2 DEF TypeOK
  <2>3. QED
    BY <2>1, <2>2
<1>5. QED
  BY <1>1, <1>3, <1>4 DEF RecOK, TypeOK

\* The instance under construction is one of those constructed.
LEMMA KidType ==
  ASSUME TypeOK
  PROVE  /\ \A t \in Workers :
              mk[t].pc # "none" => mk[t].kid \in 1..born /\ mk[t].kid \in Recs
         /\ \A v \in 1..born : v \in Recs
<1>1. born \in 0..MaxRec
      /\ \A t \in Workers : mk[t].pc # "none" => mk[t].kid \in 1..born
  BY DEF TypeOK
<1>2. \A v \in 1..born : v \in Recs
  BY <1>1, Sets DEF Recs
<1>3. QED
  BY <1>1, <1>2

\* A thread takes the next step of the construction it is in.
LEMMA MkType ==
  ASSUME TypeOK, NEW t \in Workers,
         NEW m \in [pc : {"none", "slot", "listen", "start"}, kid : 0..MaxRec],
         mk' = [mk EXCEPT ![t] = m]
  PROVE  /\ mk' \in [Workers -> [pc : {"none", "slot", "listen", "start"},
                                kid : 0..MaxRec]]
         /\ mk'[t] = m
         /\ \A u \in Workers : u # t => mk'[u] = mk[u]
BY DEF TypeOK

\* The steps after the constructor.
LEMMA TakeSlotOK ==
  ASSUME TypeOK, NEW t \in Workers, TakeSlot(t)
  PROVE  /\ RecOK' /\ slot' # 0
         /\ UNCHANGED <<qvars, inst, born, cam, mainvars, faults, filevars>>
<1>1. mk[t].kid \in 1..born
  BY DEF TakeSlot, TypeOK
<1>2. /\ mk' \in [Workers -> [pc : {"none", "slot", "listen", "start"},
                             kid : 0..MaxRec]]
      /\ \A u \in Workers : mk'[u].kid = mk[u].kid
      /\ \A u \in Workers : u # t => mk'[u] = mk[u]
  BY DEF TakeSlot, TypeOK
<1>3. \A u \in Workers : mk'[u].pc # "none" => mk'[u].kid \in 1..born
  BY <1>1, <1>2 DEF TypeOK
<1>4. QED
  BY <1>1, <1>2, <1>3, Sets DEF TakeSlot, TypeOK, RecOK

\* The camera thread sets the listener of its recorder.
LEMMA SetListenerOK ==
  ASSUME TypeOK, NEW c \in Cams, SetListener(c)
  PROVE  RecOK' /\ UNCHANGED <<qvars, born, slot, cam, mainvars, faults, filevars>>
<1>1. c \in Workers /\ mk[c].kid \in 1..born /\ mk[c].kid \in Recs
  BY Sets DEF SetListener, TypeOK, Recs
<1>2. inst[mk[c].kid] \in Instances
  BY <1>1 DEF TypeOK
<1>3. /\ [inst[mk[c].kid] EXCEPT !.listener = TRUE] \in Instances
      /\ [inst[mk[c].kid] EXCEPT !.listener = TRUE].name = inst[mk[c].kid].name
      /\ [inst[mk[c].kid] EXCEPT !.listener = TRUE].pc = inst[mk[c].kid].pc
  BY <1>2, FieldTypes
<1>4. inst' = [inst EXCEPT ![mk[c].kid] =
                 [inst[mk[c].kid] EXCEPT !.listener = TRUE]]
  BY <1>1 DEF SetListener, TypeOK
<1>5. /\ inst' \in [Recs -> Instances]
      /\ \A w \in Recs : inst'[w].name = inst[w].name /\ inst'[w].pc = inst[w].pc
  BY <1>1, <1>3, <1>4 DEF TypeOK
<1>6. \A w \in 1..born : inst'[w].name \in 1..w
  BY <1>5, KidType DEF TypeOK
<1>7. /\ mk' \in [Workers -> [pc : {"none", "slot", "listen", "start"},
                             kid : 0..MaxRec]]
      /\ \A u \in Workers : mk'[u].kid = mk[u].kid
      /\ \A u \in Workers : u # c => mk'[u] = mk[u]
  BY <1>1 DEF SetListener, TypeOK
<1>8. \A u \in Workers : mk'[u].pc # "none" => mk'[u].kid \in 1..born
  BY <1>1, <1>7 DEF TypeOK
<1>9. QED
  BY <1>5, <1>6, <1>7, <1>8 DEF SetListener, TypeOK, RecOK

\* start() of the instance a thread has constructed.
LEMMA StartOK ==
  ASSUME TypeOK, NEW t \in Workers, Start(t)
  PROVE  /\ RecOK' /\ cam' \in [Cams -> Cameras]
         /\ UNCHANGED <<qvars, born, slot, mainvars, faults, filevars>>
<1>1. mk[t].kid \in 1..born /\ mk[t].kid \in Recs
  BY KidType DEF Start
<1>2. \A v \in Recs : /\ inst'[v] \in Instances
                      /\ inst'[v].name = inst[v].name
  <2> SUFFICES ASSUME NEW v \in Recs
               PROVE  inst'[v] \in Instances /\ inst'[v].name = inst[v].name
    OBVIOUS
  <2>1. inst[v] \in Instances
    BY DEF TypeOK
  <2>2. /\ [inst[v] EXCEPT !.switcher = 1, !.pc = "starting"] \in Instances
        /\ [inst[v] EXCEPT !.switcher = 1, !.pc = "starting"].name = inst[v].name
        /\ [inst[v] EXCEPT !.pc = "done"] \in Instances
        /\ [inst[v] EXCEPT !.pc = "done"].name = inst[v].name
    BY <2>1 DEF Instances, RecPcs
  <2>3. inst'[v] = IF v = mk[t].kid
                     THEN [inst[v] EXCEPT !.switcher = 1, !.pc = "starting"]
                   ELSE IF v = t THEN [inst[v] EXCEPT !.pc = "done"]
                   ELSE inst[v]
    BY DEF Start
  <2>4. QED
    BY <2>1, <2>2, <2>3
<1>3. inst' \in [Recs -> Instances] /\ \A v \in 1..born : inst'[v].name \in 1..v
  <2>1. inst' = [v \in Recs |-> inst'[v]]
    BY DEF Start
  <2>2. inst' \in [Recs -> Instances]
    BY <1>2, <2>1
  <2>3. QED
    BY <1>2, <2>2, KidType DEF TypeOK
<1>4. /\ mk' \in [Workers -> [pc : {"none", "slot", "listen", "start"},
                             kid : 0..MaxRec]]
      /\ mk'[t].pc = "none"
      /\ \A u \in Workers : u # t => mk'[u] = mk[u]
  <2> DEFINE m == [pc |-> "none", kid |-> 0]
  <2>1. m \in [pc : {"none", "slot", "listen", "start"}, kid : 0..MaxRec]
        /\ m.pc = "none"
    BY Sets
  <2>2. mk' = [mk EXCEPT ![t] = m]
    BY DEF Start
  <2> HIDE DEF m
  <2>3. QED
    BY <2>1, <2>2, MkType
<1>5. \A u \in Workers : mk'[u].pc # "none" => mk'[u].kid \in 1..born
  BY <1>4 DEF TypeOK
<1>6. cam' \in [Cams -> Cameras]
  <2>1. CASE t \in Cams
    <3> DEFINE to == [cam[t] EXCEPT !.own = mk[t].kid, !.pc = "loop"]
    <3>1. cam[t] \in Cameras
      BY <2>1 DEF TypeOK
    <3>2. mk[t].kid \in 0..MaxRec
      BY <1>1, Sets DEF Recs
    <3>3. to \in Cameras
      BY <3>1, <3>2 DEF Cameras
    <3>4. cam' = [cam EXCEPT ![t] = to]
      BY <2>1 DEF Start
    <3> HIDE DEF to
    <3>5. QED
      BY <3>3, <3>4 DEF TypeOK
  <2>2. CASE t \notin Cams
    BY <2>2 DEF Start, TypeOK
  <2>3. QED
    BY <2>1, <2>2
<1>7. QED
  BY <1>3, <1>4, <1>5, <1>6 DEF Start, TypeOK, RecOK

\* What the steps of other threads leave of the main thread's variables.
LEMMA MainKept ==
  ASSUME TypeOK, UNCHANGED mainvars, born' \in {born, born + 1},
         slot # 0 => slot' # 0
  PROVE  MainOK'
BY DEF TypeOK, MainOK, mainvars

\* A step of a camera thread that touches only the camera.
LEMMA CamStepOK ==
  ASSUME TypeOK, Queue!QTypeOK', NEW c \in Cams, NEW from,
         NEW to \in {"loop", "grab", "added", "ended", "crashed"},
         CamStep(c, from, to)
  PROVE  TypeOK'
<1>1. [cam[c] EXCEPT !.pc = to] \in Cameras
  <2>1. cam[c] \in Cameras
    BY DEF TypeOK
  <2>2. QED
    BY <2>1 DEF Cameras
<1>2. cam' \in [Cams -> Cameras]
  BY <1>1 DEF CamStep, TypeOK
<1>3. RecOK' /\ MainOK' /\ FileOK'
  BY DEF CamStep, mainvars, filevars, TypeOK, RecOK, MainOK, FileOK
<1>4. QED
  BY <1>2, <1>3, TypeParts

\* A camera thread keeps the types.
LEMMA CameraStepType ==
  ASSUME TypeOK, Queue!QTypeOK', NEW c \in Cams, Grab(c) \/ CameraGoesOn(c)
  PROVE  TypeOK'
<1>0. c \in Workers
  BY Sets
<1>1. CASE Grab(c)
  BY <1>1, CamStepOK DEF Grab
<1>2. CASE LoopTest(c)
  BY <1>2, CamStepOK DEF LoopTest
<1>3. CASE QueueStep(c)
  <2>1. RecOK' /\ cam' \in [Cams -> Cameras] /\ MainOK' /\ FileOK'
    BY <1>3 DEF QueueStep, mainvars, filevars, TypeOK, RecOK, MainOK, FileOK
  <2>2. QED
    BY <2>1, TypeParts
<1>4. CASE CameraCreates(c)
  <2>1. RecOK' /\ born' = born + 1 /\ UNCHANGED <<slot, filevars, faults>>
    BY <1>0, <1>4, ConstructOK DEF CameraCreates
  <2>2. UNCHANGED <<cam, mainvars>>
    BY <1>4 DEF CameraCreates
  <2>3. MainOK'
    BY <2>1, <2>2, MainKept
  <2>4. FileOK' /\ cam' \in [Cams -> Cameras]
    BY <2>1, <2>2 DEF FileOK, filevars, TypeOK
  <2>5. QED
    BY <2>1, <2>3, <2>4, TypeParts
<1>5. CASE TakeSlot(c)
  <2>1. RecOK' /\ slot' # 0 /\ UNCHANGED <<born, cam, mainvars, faults, filevars>>
    BY <1>0, <1>5, TakeSlotOK
  <2>2. MainOK'
    BY <2>1, MainKept
  <2>3. FileOK' /\ cam' \in [Cams -> Cameras]
    BY <2>1 DEF FileOK, filevars, TypeOK
  <2>4. QED
    BY <2>1, <2>2, <2>3, TypeParts
<1>6. CASE SetListener(c)
  <2>1. RecOK' /\ UNCHANGED <<born, slot, cam, mainvars, faults, filevars>>
    BY <1>6, SetListenerOK
  <2>2. MainOK'
    BY <2>1, MainKept
  <2>3. FileOK' /\ cam' \in [Cams -> Cameras]
    BY <2>1 DEF FileOK, filevars, TypeOK
  <2>4. QED
    BY <2>1, <2>2, <2>3, TypeParts
<1>7. CASE Start(c)
  <2>1. RecOK' /\ cam' \in [Cams -> Cameras]
        /\ UNCHANGED <<born, slot, mainvars, faults, filevars>>
    BY <1>0, <1>7, StartOK
  <2>2. MainOK'
    BY <2>1, MainKept
  <2>3. FileOK'
    BY <2>1 DEF FileOK, filevars, TypeOK
  <2>4. QED
    BY <2>1, <2>2, <2>3, TypeParts
<1>8. CASE NextTurn(c)
  BY <1>8, CamStepOK DEF NextTurn
<1>9. CASE CameraCrashes(c)
  BY <1>9, CamStepOK DEF CameraCrashes
<1>10. QED
  BY <1>1, <1>2, <1>3, <1>4, <1>5, <1>6, <1>7, <1>8, <1>9 DEF CameraGoesOn

\* The files are renamed.
LEMMA FinaliseOK ==
  ASSUME TypeOK, faults' \in 0..MaxFaults, NEW v \in 1..born, Finalise(v)
  PROVE  FileOK'
<1>1. inst[v].name \in Recs
  <2>1. inst[v].name \in 1..v /\ v \in Recs
    BY KidType DEF TypeOK
  <2>2. QED
    BY <2>1, Sets DEF Recs
<1>2. raw[inst[v].name] \in SUBSET Recs
  BY <1>1 DEF TypeOK
<1>3. raw' \in [Recs -> SUBSET Recs] /\ logged' \in [Frames -> 0..MaxRec]
  BY DEF Finalise, TypeOK
<1>4. kept' \in SUBSET Recs
  BY <1>2 DEF Finalise, TypeOK
<1>5. QED
  BY <1>3, <1>4 DEF FileOK

\* A recorder thread changes its own instance and perhaps the files.
LEMMA RecStepOK ==
  ASSUME TypeOK, Queue!QTypeOK', FileOK', NEW v \in Recs, NEW from,
         NEW to \in Instances, to.name = inst[v].name, RecStep(v, from, to)
  PROVE  TypeOK'
<1>1. RecOK'
  <2>1. RecOK /\ inst' = [inst EXCEPT ![v] = to] /\ UNCHANGED <<born, slot, mk>>
    BY DEF TypeOK, RecOK, RecStep
  <2>2. QED
    BY <2>1, FieldStep
<1>2. MainOK' /\ cam' \in [Cams -> Cameras]
  BY DEF RecStep, TypeOK, MainOK, mainvars
<1>3. QED
  BY <1>1, <1>2, TypeParts

\* What its steps may make of its instance.
Outcomes(i) ==
  {i, [i EXCEPT !.opened = TRUE], [i EXCEPT !.opened = FALSE],
   [i EXCEPT !.mode = "drain"], [i EXCEPT !.switcher = 0],
   [i EXCEPT !.switcher = 0, !.opened = FALSE],
   [i EXCEPT !.opened = FALSE, !.switcher = 0]}

\* Each of these is an instance, with the file name it had.
LEMMA OutcomeType ==
  ASSUME NEW i \in Instances, NEW to \in Outcomes(i)
  PROVE  to \in Instances /\ to.name = i.name
BY DEF Outcomes, Instances

\* So is one whose thread has gone to another place.
LEMMA AtTypes ==
  ASSUME TypeOK, NEW v \in Recs, NEW p \in RecPcs
  PROVE  At(v, p) \in Instances /\ At(v, p).name = inst[v].name
<1>1. inst[v] \in Instances
  BY DEF TypeOK
<1>2. QED
  BY <1>1 DEF At, Instances

\* Steps that leave the files alone, and may throw an exception.
LEMMA FilesKept ==
  ASSUME TypeOK
  PROVE  /\ (UNCHANGED filevars /\ NoFault) => FileOK'
         /\ (UNCHANGED filevars /\ Fault) => FileOK'
<1>1. faults \in Nat /\ MaxFaults \in Nat /\ faults \in 0..MaxFaults
  BY RecorderAssumption DEF TypeOK
<1>2. Fault => faults' \in 0..MaxFaults
  BY <1>1 DEF Fault
<1>3. QED
  BY <1>1, <1>2 DEF TypeOK, FileOK, NoFault, filevars

\* A recorder thread keeps the types.
LEMMA RecorderStepType ==
  ASSUME IInv, Queue!QTypeOK', NEW v \in Recs, RecorderNext(v)
  PROVE  TypeOK'
<1>0. TypeOK /\ v \in Workers
  BY Sets DEF IInv
<1>1. inst[v] \in Instances /\ inst[v].mode \in {"loop", "drain"}
  <2>1. inst[v] \in Instances
    BY <1>0 DEF TypeOK
  <2>2. QED
    BY <2>1 DEF Instances
<1>2. inst[v].pc # "new" => v \in 1..born
  BY <1>0 DEF IInv, Lifecycle, TypeOK, Recs
<1>3. \A p \in RecPcs : \A to \in Outcomes(At(v, p)) :
        to \in Instances /\ to.name = inst[v].name
  BY <1>0, AtTypes, OutcomeType
<1> USE DEF RecPcs, Outcomes
<1> DEFINE Step(to) == \E from : RecStep(v, from, to)
<1>4. \A to \in Instances :
        Step(to) /\ to.name = inst[v].name /\ FileOK' => TypeOK'
  BY <1>0, RecStepOK
<1>5. /\ (UNCHANGED filevars /\ NoFault) => FileOK'
      /\ (UNCHANGED filevars /\ Fault) => FileOK'
  BY <1>0, FilesKept
<1>10. CASE StartFile(v)
  <2>1. FileOK'
    BY <1>0, <1>10 DEF StartFile, NoFault, FileOK, TypeOK
  <2>2. Step([At(v, "loop") EXCEPT !.opened = TRUE])
    BY <1>10 DEF StartFile
  <2>3. QED
    BY <1>3, <1>4, <2>1, <2>2
<1>11. CASE StartFails(v)
  BY <1>3, <1>4, <1>5, <1>11 DEF StartFails
<1>12. CASE SwitcherTest(v)
  BY <1>3, <1>4, <1>5, <1>12 DEF SwitcherTest
<1>13. CASE GetFrame(v)
  BY <1>3, <1>4, <1>5, <1>13 DEF GetFrame
<1>14. CASE CountDown(v)
  BY <1>3, <1>4, <1>5, <1>14 DEF CountDown
<1>15. CASE RecordFrame(v)
  <2>1. v \in 0..MaxRec
    BY Sets DEF Recs
  <2>2. FileOK'
    BY <1>0, <1>15, <2>1 DEF RecordFrame, NoFault, FileOK, TypeOK
  <2>3. Step(At(v, inst[v].mode))
    BY <1>15 DEF RecordFrame
  <2>4. QED
    BY <1>1, <1>3, <1>4, <2>2, <2>3
<1>16. CASE RecordFails(v)
  <2>1. v \in 1..born
    BY <1>2, <1>16 DEF RecordFails, RecStep
  <2>2. UNCHANGED filevars => FileOK'
    BY <1>5, <1>16 DEF RecordFails
  <2>3. faults' \in 0..MaxFaults
    <3>1. faults \in 0..MaxFaults /\ MaxFaults \in Nat
      BY <1>0, RecorderAssumption DEF TypeOK
    <3>2. QED
      BY <1>16, <3>1 DEF RecordFails, Fault, NoFault
  <2>4. Finalise(v) => FileOK'
    BY <1>0, <2>1, <2>3, FinaliseOK
  <2>5. FileOK'
    BY <1>16, <2>2, <2>4 DEF RecordFails
  <2>6. \/ Step(At(v, inst[v].mode))
        \/ Step([At(v, "crashed") EXCEPT !.opened = FALSE])
    BY <1>16 DEF RecordFails
  <2>7. QED
    BY <1>1, <1>3, <1>4, <2>5, <2>6
<1>17. CASE DrainTest(v)
  BY <1>3, <1>4, <1>5, <1>17 DEF DrainTest
<1>18. CASE DrainSize(v)
  BY <1>3, <1>4, <1>5, <1>18 DEF DrainSize
<1>19. CASE StopFile(v)
  BY <1>3, <1>4, <1>5, <1>19 DEF StopFile
<1>20. CASE StopFails(v)
  BY <1>3, <1>4, <1>5, <1>20 DEF StopFails
<1>21. CASE RenameFile(v)
  <2>1. v \in 1..born /\ faults' \in 0..MaxFaults
    BY <1>0, <1>2, <1>21 DEF RenameFile, RecStep, NoFault, TypeOK
  <2>2. FileOK'
    BY <1>0, <1>5, <1>21, <2>1, FinaliseOK DEF RenameFile
  <2>3. Step(At(v, "done")) \/ Step(At(v, "crashed"))
    BY <1>21 DEF RenameFile
  <2>4. QED
    BY <1>3, <1>4, <2>2, <2>3
<1>22. CASE CleanUp(v)
  <2>1. v \in 1..born /\ faults' \in 0..MaxFaults
    BY <1>0, <1>2, <1>22 DEF CleanUp, RecStep, NoFault, TypeOK
  <2>2. FileOK'
    BY <1>0, <1>5, <1>22, <2>1, FinaliseOK DEF CleanUp
  <2>3. \/ Step([At(v, "respawn") EXCEPT !.opened = FALSE, !.switcher = 0])
        \/ Step([At(v, "crashed") EXCEPT !.opened = FALSE, !.switcher = 0])
    BY <1>22 DEF CleanUp
  <2>4. QED
    BY <1>3, <1>4, <2>2, <2>3
<1>23. CASE Respawn(v)
  <2>1. inst[v].listener \in BOOLEAN
    BY <1>1 DEF Instances
  <2>2. RecOK' /\ born' = born + 1 /\ UNCHANGED <<slot, filevars, faults>>
    BY <1>0, <1>23, <2>1, ConstructOK DEF Respawn
  <2>3. UNCHANGED <<cam, mainvars>>
    BY <1>23 DEF Respawn
  <2>4. MainOK'
    BY <1>0, <2>2, <2>3, MainKept
  <2>5. FileOK' /\ cam' \in [Cams -> Cameras]
    BY <1>0, <2>2, <2>3 DEF FileOK, filevars, TypeOK
  <2>6. QED
    BY <2>2, <2>4, <2>5, TypeParts
<1>24. CASE NoRespawn(v)
  BY <1>3, <1>4, <1>5, <1>24 DEF NoRespawn
<1>25. CASE TakeSlot(v)
  <2>1. RecOK' /\ slot' # 0 /\ UNCHANGED <<born, cam, mainvars, faults, filevars>>
    BY <1>0, <1>25, TakeSlotOK
  <2>2. MainOK'
    BY <1>0, <2>1, MainKept
  <2>3. FileOK' /\ cam' \in [Cams -> Cameras]
    BY <1>0, <2>1 DEF FileOK, filevars, TypeOK
  <2>4. QED
    BY <2>1, <2>2, <2>3, TypeParts
<1>26. CASE Start(v)
  <2>1. RecOK' /\ cam' \in [Cams -> Cameras]
        /\ UNCHANGED <<born, slot, mainvars, faults, filevars>>
    BY <1>0, <1>26, StartOK
  <2>2. MainOK'
    BY <1>0, <2>1, MainKept
  <2>3. FileOK'
    BY <1>0, <2>1 DEF FileOK, filevars, TypeOK
  <2>4. QED
    BY <2>1, <2>2, <2>3, TypeParts
<1>27. QED
  BY <1>10, <1>11, <1>12, <1>13, <1>14, <1>15, <1>16, <1>17, <1>18, <1>19,
     <1>20, <1>21, <1>22, <1>23, <1>24, <1>25, <1>26 DEF RecorderNext

\* The main thread keeps the types.  First what it keeps in every step: the
\* buffer and the files.
LEMMA MainStepKeeps ==
  ASSUME TypeOK, NEW from, NEW to, NEW r, MainStep(from, to, r)
  PROVE  FileOK' /\ mpc = from /\ mpc' = to /\ mv' = r
BY DEF MainStep, TypeOK, FileOK, filevars

\* A step that touches no instance.
LEMMA RecKept ==
  ASSUME TypeOK, UNCHANGED <<inst, born, slot, mk>>
  PROVE  RecOK'
BY DEF TypeOK, RecOK

\* The looper gains a broadcast, or the oldest one loses a receiver.
LEMMA LooperType ==
  ASSUME TypeOK
  PROVE  /\ \A b \in Broadcasts : Append(looper, b) \in Seq(Broadcasts)
         /\ looper # <<>> => Tail(looper) \in Seq(Broadcasts)
         /\ \A k, x : Deliver(k, x) => looper' \in Seq(Broadcasts)
<1>1. looper \in Seq(Broadcasts)
  BY DEF TypeOK
<1>2. ASSUME NEW k, NEW x, Deliver(k, x) PROVE looper' \in Seq(Broadcasts)
  <2>1. looper # <<>> /\ looper' = [looper EXCEPT ![1].to = @ \ {x}]
    BY <1>2 DEF Deliver
  <2>2. 1 \in 1..Len(looper) /\ looper[1] \in Broadcasts
    BY <1>1, <2>1, EmptySeq, ElementOfSeq
  <2> DEFINE b == [looper[1] EXCEPT !.to = @ \ {x}]
  <2>3. b \in Broadcasts
    BY <2>2 DEF Broadcasts
  <2>4. looper' = [looper EXCEPT ![1] = b]
    BY <2>1
  <2> HIDE DEF b
  <2>5. QED
    BY <1>1, <2>2, <2>3, <2>4, ExceptSeq
<1>3. QED
  BY <1>1, <1>2, AppendProperties, HeadTailProperties

\* The commands of the user.
LEMMA MainAskedType ==
  ASSUME TypeOK, Queue!QTypeOK', MainAsked
  PROVE  TypeOK'
<1>0. /\ switches \in Nat /\ MaxSwitches \in Nat /\ switches <= MaxSwitches
      /\ stops \in Nat /\ MaxStops \in Nat /\ stops <= MaxStops
  BY RecorderAssumption DEF TypeOK
<1>1. CASE PressStop
  <2>1. RecOK' /\ cam' \in [Cams -> Cameras]
    BY <1>1, RecKept DEF PressStop, TypeOK
  <2>2. FileOK' /\ mpc' = IF slot = 0 THEN "idle" ELSE "mark"
    BY <1>1, MainStepKeeps DEF PressStop
  <2>3. looper' \in Seq(Broadcasts)
    <3> DEFINE b == [kind |-> "stop", to |-> {c \in Cams : cam[c].registered}]
    <3>1. b \in Broadcasts
      BY DEF Broadcasts
    <3>2. looper' = Append(looper, b)
      BY <1>1 DEF PressStop, Broadcast
    <3> HIDE DEF b
    <3>3. QED
      BY <3>1, <3>2, LooperType
  <2>4. switches' = switches /\ stops' \in 0..MaxStops /\ slot' = slot
    BY <1>0, <1>1 DEF PressStop
  <2>5. MainOK'
    BY <2>2, <2>3, <2>4 DEF MainOK, TypeOK
  <2>6. QED
    BY <2>1, <2>2, <2>5, TypeParts
<1>2. CASE SendFileSwitch
  <2>1. RecOK' /\ cam' \in [Cams -> Cameras]
    BY <1>2, RecKept DEF SendFileSwitch, TypeOK
  <2>2. FileOK' /\ mpc' = "idle"
    BY <1>2, MainStepKeeps DEF SendFileSwitch
  <2>3. looper' \in Seq(Broadcasts)
    <3> DEFINE b == [kind |-> "switch", to |-> {v \in Recs : inst[v].registered}]
    <3>1. b \in Broadcasts
      BY DEF Broadcasts
    <3>2. looper' = Append(looper, b)
      BY <1>2 DEF SendFileSwitch, Broadcast
    <3> HIDE DEF b
    <3>3. QED
      BY <3>1, <3>2, LooperType
  <2>4. stops' = stops /\ switches' \in 0..MaxSwitches
    BY <1>0, <1>2 DEF SendFileSwitch
  <2>5. MainOK'
    BY <2>2, <2>3, <2>4 DEF MainOK, TypeOK
  <2>6. QED
    BY <2>1, <2>2, <2>5, TypeParts
<1>3. ASSUME NEW c \in Cams, PressRecord(c) PROVE TypeOK'
  <2>1. RecOK'
    BY <1>3, RecKept DEF PressRecord
  <2>2. FileOK' /\ mpc' = "idle"
    BY <1>3, MainStepKeeps DEF PressRecord
  <2>3. cam' \in [Cams -> Cameras]
    <3>1. PICK found \in BOOLEAN :
            cam' = [cam EXCEPT ![c] = [NewCamera EXCEPT
                     !.pc = IF found THEN "loop" ELSE "ended",
                     !.flag = 1, !.registered = TRUE, !.util = TRUE]]
      BY <1>3, Zenon DEF PressRecord
    <3> DEFINE to == [NewCamera EXCEPT
                       !.pc = IF found THEN "loop" ELSE "ended",
                       !.flag = 1, !.registered = TRUE, !.util = TRUE]
    <3>2. NewCamera \in Cameras
      BY Sets DEF NewCamera, Cameras
    <3>3. (IF found THEN "loop" ELSE "ended") \in
            {"off", "loop", "grab", "added", "ended", "crashed"}
      OBVIOUS
    <3>4. to \in Cameras
      BY <3>2, <3>3 DEF Cameras
    <3>5. cam' = [cam EXCEPT ![c] = to]
      BY <3>1
    <3> HIDE DEF to
    <3>6. QED
      BY <3>4, <3>5 DEF TypeOK
  <2>4. MainOK'
    BY <1>3, <2>2 DEF PressRecord, MainOK, TypeOK
  <2>5. QED
    BY <2>1, <2>2, <2>3, <2>4, TypeParts
<1>4. QED
  BY <1>1, <1>2, <1>3 DEF MainAsked

\* What the main thread does with a command or a broadcast.
LEMMA MainBusyType ==
  ASSUME IInv, Queue!QTypeOK', MainBusy
  PROVE  TypeOK'
<1>0. /\ TypeOK /\ RecOK /\ Main \in Workers
      /\ mpc \in {"mark", "stop"} => slot \in 1..born /\ slot \in Recs
      /\ mpc \in {"restart", "switchOff"} => mv \in 1..born /\ mv \in Recs
      /\ \A v \in Recs : inst[v] \in Instances
  BY KidType, Sets DEF IInv, TypeOK, RecOK
<1>1. CASE MarkStop
  <2>1. FileOK' /\ mpc = "mark" /\ mpc' = "stop"
    BY <1>0, <1>1, MainStepKeeps DEF MarkStop
  <2> DEFINE to == [inst[slot] EXCEPT !.flag = 1]
  <2>2. to \in Instances /\ to.name = inst[slot].name
    BY <1>0, <2>1, FieldTypes
  <2>3. inst' = [inst EXCEPT ![slot] = to] /\ UNCHANGED <<born, slot, mk>>
    BY <1>1 DEF MarkStop
  <2> HIDE DEF to
  <2>4. RecOK'
    BY <1>0, <2>1, <2>2, <2>3, FieldStep
  <2>5. MainOK' /\ cam' \in [Cams -> Cameras]
    BY <1>1, <1>0, <2>1 DEF MarkStop, MainOK, TypeOK
  <2>6. QED
    BY <2>1, <2>4, <2>5, TypeParts
<1>2. CASE StopSlot
  <2>1. FileOK' /\ mpc = "stop" /\ mpc' = "idle"
    BY <1>0, <1>2, MainStepKeeps DEF StopSlot
  <2> DEFINE to == [inst[slot] EXCEPT !.switcher = 0]
  <2>2. to \in Instances /\ to.name = inst[slot].name
    BY <1>0, <2>1, FieldTypes
  <2>3. inst' = [inst EXCEPT ![slot] = to] /\ UNCHANGED <<born, slot, mk>>
    BY <1>2 DEF StopSlot
  <2> HIDE DEF to
  <2>4. RecOK'
    BY <1>0, <2>1, <2>2, <2>3, FieldStep
  <2>5. MainOK' /\ cam' \in [Cams -> Cameras]
    BY <1>0, <1>2, <2>1 DEF StopSlot, MainOK, TypeOK
  <2>6. QED
    BY <2>1, <2>4, <2>5, TypeParts
<1>3. CASE Drop
  <2>1. FileOK' /\ mpc' = "idle" /\ looper' \in Seq(Broadcasts)
    BY <1>0, <1>3, MainStepKeeps, LooperType DEF Drop
  <2>2. RecOK'
    BY <1>0, <1>3, RecKept DEF Drop
  <2>3. MainOK' /\ cam' \in [Cams -> Cameras]
    BY <1>0, <1>3, <2>1 DEF Drop, MainOK, TypeOK
  <2>4. QED
    BY <2>1, <2>2, <2>3, TypeParts
<1>4. CASE Restart
  <2>1. FileOK' /\ mpc = "restart" /\ mpc' = "switchOff" /\ mv' = mv
    BY <1>0, <1>4, MainStepKeeps DEF Restart
  <2>2. inst[mv].listener \in BOOLEAN
    <3>1. inst[mv] \in Instances
      BY <1>0, <2>1
    <3>2. QED
      BY <3>1 DEF Instances
  <2>3. RecOK' /\ born' = born + 1
    BY <1>0, <1>4, <2>2, ConstructOK DEF Restart
  <2>4. mv' \in 1..born'
    BY <1>0, <2>1, <2>3 DEF RecOK
  <2>5. MainOK' /\ cam' \in [Cams -> Cameras]
    BY <1>0, <1>4, <2>1, <2>4 DEF Restart, MainOK, TypeOK
  <2>6. QED
    BY <2>1, <2>3, <2>5, TypeParts
<1>5. CASE NoRestart
  <2>1. FileOK' /\ mpc = "restart" /\ mpc' = "switchOff" /\ mv' = mv
    BY <1>0, <1>5, MainStepKeeps DEF NoRestart
  <2>2. RecOK'
    BY <1>0, <1>5, RecKept DEF NoRestart
  <2>3. MainOK' /\ cam' \in [Cams -> Cameras]
    BY <1>5, <1>0, <2>1 DEF NoRestart, MainOK, TypeOK
  <2>4. QED
    BY <2>1, <2>2, <2>3, TypeParts
<1>6. CASE SwitchOff
  <2>1. FileOK' /\ mpc = "switchOff" /\ mpc' = "idle"
    BY <1>0, <1>6, MainStepKeeps DEF SwitchOff
  <2> DEFINE to == [inst[mv] EXCEPT !.switcher = 0, !.registered = FALSE]
  <2>2. to \in Instances /\ to.name = inst[mv].name
    <3>1. inst[mv] \in Instances
      BY <1>0, <2>1
    <3>2. QED
      BY <3>1 DEF Instances
  <2>3. inst' = [inst EXCEPT ![mv] = to] /\ UNCHANGED <<born, slot, mk>>
    BY <1>6 DEF SwitchOff
  <2> HIDE DEF to
  <2>4. RecOK'
    BY <1>0, <2>1, <2>2, <2>3, FieldStep
  <2>5. MainOK' /\ cam' \in [Cams -> Cameras]
    BY <1>0, <1>6, <2>1 DEF SwitchOff, MainOK, TypeOK
  <2>6. QED
    BY <2>1, <2>4, <2>5, TypeParts
<1>7. CASE CloseCamera
  <2>1. FileOK' /\ mpc = "sleep" /\ mpc' = "idle"
    BY <1>0, <1>7, MainStepKeeps DEF CloseCamera
  <2>2. RecOK'
    BY <1>0, <1>7, RecKept DEF CloseCamera
  <2>3. cam' \in [Cams -> Cameras]
    <3>1. mv \in Cams /\ cam[mv] \in Cameras
      BY <1>0, <2>1 DEF TypeOK
    <3> DEFINE to == [cam[mv] EXCEPT !.util = FALSE, !.registered = FALSE]
    <3>2. to \in Cameras
      BY <3>1 DEF Cameras
    <3>3. cam' = [cam EXCEPT ![mv] = to]
      BY <1>7 DEF CloseCamera
    <3> HIDE DEF to
    <3>4. QED
      BY <1>0, <3>2, <3>3 DEF TypeOK
  <2>4. MainOK'
    BY <1>0, <1>7, <2>1 DEF CloseCamera, MainOK, TypeOK
  <2>5. QED
    BY <2>1, <2>2, <2>3, <2>4, TypeParts
<1>8. CASE TakeSlot(Main)
  <2>1. RecOK' /\ slot' # 0 /\ UNCHANGED <<born, cam, mainvars, faults, filevars>>
    BY <1>0, <1>8, TakeSlotOK
  <2>2. MainOK'
    BY <1>0, <2>1, MainKept
  <2>3. FileOK' /\ cam' \in [Cams -> Cameras]
    BY <1>0, <2>1 DEF FileOK, filevars, TypeOK
  <2>4. QED
    BY <2>1, <2>2, <2>3, TypeParts
<1>9. CASE Start(Main)
  <2>1. RecOK' /\ cam' \in [Cams -> Cameras]
        /\ UNCHANGED <<born, slot, mainvars, faults, filevars>>
    BY <1>0, <1>9, StartOK
  <2>2. MainOK'
    BY <1>0, <2>1, MainKept
  <2>3. FileOK'
    BY <1>0, <2>1 DEF FileOK, filevars, TypeOK
  <2>4. QED
    BY <2>1, <2>2, <2>3, TypeParts
<1>10. ASSUME NEW v \in Recs, DeliverSwitch(v) PROVE TypeOK'
  <2>1. /\ FileOK'
        /\ mpc' = "idle" \/ (mpc' = "restart" /\ mv' = v /\ inst[v].registered)
    BY <1>0, <1>10, MainStepKeeps DEF DeliverSwitch
  <2>2. RecOK' /\ looper' \in Seq(Broadcasts)
    BY <1>0, <1>10, RecKept, LooperType DEF DeliverSwitch
  <2>3. inst[v].registered => v \in 1..born
    BY <1>0 DEF IInv, Lifecycle, TypeOK, Recs
  <2>4. MainOK' /\ cam' \in [Cams -> Cameras]
    BY <1>0, <1>10, <2>1, <2>2, <2>3 DEF DeliverSwitch, MainOK, TypeOK
  <2>5. QED
    BY <2>1, <2>2, <2>4, TypeParts
<1>11. ASSUME NEW c \in Cams, DeliverStop(c) PROVE TypeOK'
  <2>1. FileOK' /\ (mpc' = "idle" \/ (mpc' = "sleep" /\ mv' = c))
    BY <1>0, <1>11, MainStepKeeps DEF DeliverStop
  <2>2. RecOK' /\ looper' \in Seq(Broadcasts)
    BY <1>0, <1>11, RecKept, LooperType DEF DeliverStop
  <2>3. cam' \in [Cams -> Cameras]
    <3> DEFINE to == [cam[c] EXCEPT !.flag = 0]
    <3>1. cam[c] \in Cameras
      BY <1>0 DEF TypeOK
    <3>2. to \in Cameras
      BY <3>1 DEF Cameras
    <3>3. cam' = cam \/ cam' = [cam EXCEPT ![c] = to]
      BY <1>11 DEF DeliverStop
    <3> HIDE DEF to
    <3>4. QED
      BY <1>0, <3>2, <3>3 DEF TypeOK
  <2>4. MainOK'
    BY <1>0, <1>11, <2>1, <2>2 DEF DeliverStop, MainOK, TypeOK
  <2>5. QED
    BY <2>1, <2>2, <2>3, <2>4, TypeParts
<1>12. QED
  BY <1>1, <1>2, <1>3, <1>4, <1>5, <1>6, <1>7, <1>8, <1>9, <1>10, <1>11
    DEF MainBusy

-----------------------------------------------------------------------------

\* The life of an instance, step by step.  First the steps that neither begin
\* nor end anything.
LEMMA LifeQuiet ==
  ASSUME IInv, born' = born,
         \A t \in Workers : /\ mk'[t].kid = mk[t].kid
                            /\ mk'[t].pc # "none" => mk[t].pc # "none",
         \A v \in Recs : /\ inst'[v].pc = inst[v].pc
                         /\ inst'[v].registered => inst[v].registered
  PROVE  Lifecycle'
<1>1. \A t \in Workers : mk[t].pc # "none" => mk[t].kid \in Recs
  BY KidType DEF IInv
<1>2. QED
  BY <1>1, Sets DEF IInv, Lifecycle

\* A step of a recorder thread in its own loop: its instance is not new.
LEMMA LifeRecStep ==
  ASSUME IInv, NEW v \in Recs, NEW from, NEW to, RecStep(v, from, to),
         from # "new", from # "respawn" \/ mk[v].pc = "none",
         to.pc # "new", to.registered = inst[v].registered
  PROVE  Lifecycle'
<1>1. /\ inst[v].pc = from /\ UNCHANGED <<born, mk>>
      /\ inst'[v] = to /\ \A w \in Recs : w # v => inst'[w] = inst[w]
  BY DEF RecStep, IInv, TypeOK
<1>2. v <= born /\ mk[v].pc = "none"
  BY <1>1 DEF IInv, Lifecycle
<1>3. \A t \in Workers :
        mk[t].pc # "none" => mk[t].kid \in Recs /\ mk[t].kid # v
  BY <1>1, KidType DEF IInv, Lifecycle
<1>4. QED
  BY <1>1, <1>2, <1>3 DEF IInv, Lifecycle

\* The constructor makes the next instance, which nobody else constructs.
LEMMA LifeConstruct ==
  ASSUME IInv, NEW t \in Workers, NEW lsnr \in BOOLEAN, Construct(t, lsnr),
         t \in Recs => inst[t].pc = "respawn"
  PROVE  Lifecycle'
<1>1. /\ TypeOK /\ born \in 0..MaxRec /\ born' = born + 1
      /\ \A v \in Recs : inst'[v].pc = IF v = born' THEN "new" ELSE inst[v].pc
      /\ mk' = [mk EXCEPT ![t] = [pc |-> "slot", kid |-> born + 1]]
  BY ConstructType DEF IInv
<1>2. \A v \in Recs : v # born' => inst'[v].registered = inst[v].registered
  <2> SUFFICES ASSUME NEW v \in Recs, v # born'
               PROVE  inst'[v].registered = inst[v].registered
    OBVIOUS
  <2>1. inst'[v] = IF v = slot THEN [inst[v] EXCEPT !.switcher = 0] ELSE inst[v]
    BY <1>1 DEF Construct
  <2>2. inst[v] \in Instances
    BY <1>1 DEF TypeOK
  <2>3. QED
    BY <2>1, <2>2 DEF Instances
<1>3. /\ mk'[t].pc = "slot" /\ mk'[t].kid = born'
      /\ \A u \in Workers : u # t => mk'[u] = mk[u]
  BY <1>1 DEF TypeOK
<1>4. \A v \in Recs : v \in Nat /\ v \in Workers
  BY Sets DEF Recs
<1>5. inst[born'].pc = "new"
  <2>1. born' \in Recs /\ ~(born' <= born)
    BY <1>1, Sets DEF Construct, Recs
  <2>2. QED
    BY <2>1 DEF IInv, Lifecycle
<1>6. \A v \in Recs : inst'[v].pc # "new" \/ inst'[v].registered => v <= born'
  BY <1>1, <1>2, <1>4 DEF IInv, Lifecycle
<1>7. \A v \in Recs : mk'[v].pc # "none" => inst'[v].pc = "respawn"
  BY <1>1, <1>3, <1>4, <1>5 DEF IInv, Lifecycle
<1>8. \A u \in Workers : u # t /\ mk[u].pc # "none"
                          => mk[u].kid \in 1..born /\ mk[u].kid \in Recs
  BY <1>1, KidType
<1>9. \A u \in Workers : mk'[u].pc # "none" => inst'[mk'[u].kid].pc = "new"
  <2>1. born' \in Recs
    BY <1>1, Sets DEF Construct, Recs
  <2>2. QED
    BY <1>1, <1>3, <1>8, <2>1 DEF IInv, Lifecycle
<1>10. \A u, w \in Workers : mk'[u].pc # "none" /\ mk'[w].pc # "none" /\ u # w
                              => mk'[u].kid # mk'[w].kid
  BY <1>1, <1>3, <1>8 DEF IInv, Lifecycle
<1>11. QED
  BY <1>6, <1>7, <1>9, <1>10 DEF Lifecycle

\* start() ends the construction; after a respawn it ends its thread too.
LEMMA LifeStart ==
  ASSUME IInv, NEW t \in Workers, Start(t)
  PROVE  Lifecycle'
<1>1. /\ TypeOK /\ mk[t].pc # "none" /\ born' = born
      /\ mk[t].kid \in 1..born /\ mk[t].kid \in Recs
  BY KidType DEF Start, IInv
<1>2. \A v \in Recs :
        /\ inst'[v].registered = inst[v].registered
        /\ inst'[v].pc = IF v = mk[t].kid THEN "starting"
                         ELSE IF v = t THEN "done" ELSE inst[v].pc
  <2> SUFFICES ASSUME NEW v \in Recs
               PROVE  /\ inst'[v].registered = inst[v].registered
                      /\ inst'[v].pc = IF v = mk[t].kid THEN "starting"
                                       ELSE IF v = t THEN "done" ELSE inst[v].pc
    OBVIOUS
  <2>1. inst'[v] = IF v = mk[t].kid
                     THEN [inst[v] EXCEPT !.switcher = 1, !.pc = "starting"]
                   ELSE IF v = t THEN [inst[v] EXCEPT !.pc = "done"]
                   ELSE inst[v]
    BY DEF Start
  <2>2. inst[v] \in Instances
    BY <1>1 DEF TypeOK
  <2>3. QED
    BY <2>1, <2>2 DEF Instances
<1>3. mk'[t].pc = "none" /\ \A u \in Workers : u # t => mk'[u] = mk[u]
  BY <1>1 DEF Start, TypeOK
<1>4. t \in Recs => inst[t].pc = "respawn" /\ t <= born
  BY <1>1 DEF IInv, Lifecycle
<1>5. inst[mk[t].kid].pc = "new"
  BY <1>1 DEF IInv, Lifecycle
<1>6. \A v \in Recs : inst'[v].pc # "new" \/ inst'[v].registered => v <= born'
  BY <1>1, <1>2, <1>4 DEF IInv, Lifecycle
<1>7. \A v \in Recs : mk'[v].pc # "none" => inst'[v].pc = "respawn"
  BY <1>2, <1>3, <1>5, Sets DEF IInv, Lifecycle
<1>8. \A u \in Workers : u # t /\ mk[u].pc # "none"
        => /\ mk[u].kid \in Recs /\ mk[u].kid # mk[t].kid
           /\ inst[mk[u].kid].pc = "new"
  BY <1>1, KidType DEF IInv, Lifecycle
<1>9. \A u \in Workers : mk'[u].pc # "none" => inst'[mk'[u].kid].pc = "new"
  BY <1>2, <1>3, <1>4, <1>8
<1>10. \A u, w \in Workers : mk'[u].pc # "none" /\ mk'[w].pc # "none" /\ u # w
                              => mk'[u].kid # mk'[w].kid
  BY <1>3 DEF IInv, Lifecycle
<1>11. QED
  BY <1>6, <1>7, <1>9, <1>10 DEF Lifecycle

\* The steps between constructor and start() concern only the thread itself.
LEMMA LifeSlot ==
  ASSUME IInv, NEW t \in Workers,
         TakeSlot(t) \/ (t \in Cams /\ SetListener(t))
  PROVE  Lifecycle'
<1>1. CASE TakeSlot(t)
  <2>1. \A u \in Workers : mk'[u].kid = mk[u].kid
                           /\ (mk'[u].pc # "none" => mk[u].pc # "none")
    BY <1>1 DEF TakeSlot, IInv, TypeOK
  <2>2. born' = born /\ inst' = inst
    BY <1>1 DEF TakeSlot
  <2>3. QED
    BY <2>1, <2>2, LifeQuiet
<1>2. CASE t \in Cams /\ SetListener(t)
  <2>1. \A u \in Workers : mk'[u].kid = mk[u].kid
                           /\ (mk'[u].pc # "none" => mk[u].pc # "none")
    BY <1>2 DEF SetListener, IInv, TypeOK
  <2>2. \A v \in Recs : inst'[v].pc = inst[v].pc
                        /\ inst'[v].registered = inst[v].registered
    <3> SUFFICES ASSUME NEW v \in Recs
                 PROVE  inst'[v].pc = inst[v].pc
                        /\ inst'[v].registered = inst[v].registered
      OBVIOUS
    <3>1. inst[v] \in Instances
      BY DEF IInv, TypeOK
    <3>2. inst'[v] = inst[v] \/ inst'[v] = [inst[v] EXCEPT !.listener = TRUE]
      BY <1>2 DEF SetListener, IInv, TypeOK
    <3>3. QED
      BY <3>1, <3>2 DEF Instances
  <2>3. born' = born
    BY <1>2 DEF SetListener
  <2>4. QED
    BY <2>1, <2>2, <2>3, LifeQuiet
<1>3. QED
  BY <1>1, <1>2

\* The step of a recorder thread leads to another place of its own.
LEMMA OutcomePc ==
  ASSUME TypeOK, NEW v \in Recs, NEW p \in RecPcs
  PROVE  \A to \in Outcomes(At(v, p)) :
           to.pc = p /\ to.registered = inst[v].registered
<1>1. inst[v] \in Instances
  BY DEF TypeOK
<1>2. /\ At(v, p) \in Instances /\ At(v, p).pc = p
      /\ At(v, p).registered = inst[v].registered
  BY <1>1 DEF At, Instances
<1>3. \A i \in Instances : \A to \in Outcomes(i) :
        to.pc = i.pc /\ to.registered = i.registered
  BY DEF Outcomes, Instances
<1>4. QED
  BY <1>2, <1>3, Zenon

\* A recorder thread keeps the lives of the instances.
LEMMA LifeRecorder ==
  ASSUME IInv, NEW v \in Recs, RecorderNext(v)
  PROVE  Lifecycle'
<1>1. TypeOK /\ v \in Workers /\ inst[v].mode \in RecPcs \ {"new"}
      /\ inst[v].listener \in BOOLEAN
  <2>1. inst[v] \in Instances
    BY DEF IInv, TypeOK
  <2>2. QED
    BY <2>1, Sets DEF IInv, Instances, RecPcs
<1>2. \A p \in RecPcs \ {"new"} : \A to \in Outcomes(At(v, p)) :
        to.pc # "new" /\ to.registered = inst[v].registered
  BY <1>1, OutcomePc
<1>3. \A from, to :
        /\ RecStep(v, from, to)
        /\ from # "new" /\ (from # "respawn" \/ mk[v].pc = "none")
        /\ to.pc # "new" /\ to.registered = inst[v].registered
        => Lifecycle'
  BY LifeRecStep
<1>4. CASE Respawn(v)
  BY <1>1, <1>4, LifeConstruct DEF Respawn
<1>5. CASE TakeSlot(v)
  BY <1>1, <1>5, LifeSlot
<1>6. CASE Start(v)
  BY <1>1, <1>6, LifeStart
<1>7. CASE \/ StartFile(v) \/ StartFails(v) \/ SwitcherTest(v) \/ GetFrame(v)
           \/ CountDown(v) \/ RecordFrame(v) \/ RecordFails(v)
  BY <1>1, <1>2, <1>3, <1>7
    DEF StartFile, StartFails, SwitcherTest, GetFrame, CountDown, RecordFrame,
        RecordFails, RecPcs, Outcomes
<1>8. \A from : \A p \in RecPcs \ {"new"} : \A to \in Outcomes(At(v, p)) :
         RecStep(v, from, to) /\ from \notin {"new", "respawn"} => Lifecycle'
  BY <1>2, <1>3
<1>9. CASE DrainTest(v) \/ DrainSize(v) \/ StopFile(v) \/ StopFails(v)
  <2>1. CASE DrainTest(v)
    <3>1. PICK p \in {"drainSize", "stop"} : RecStep(v, "drain", At(v, p))
      BY <2>1 DEF DrainTest
    <3>2. p \in RecPcs \ {"new"} /\ At(v, p) \in Outcomes(At(v, p))
      BY DEF RecPcs, Outcomes
    <3>3. QED
      BY <1>8, <3>1, <3>2
  <2>2. CASE DrainSize(v)
    <3>1. PICK p \in {"take", "stop"} : RecStep(v, "drainSize", At(v, p))
      BY <2>2 DEF DrainSize
    <3>2. p \in RecPcs \ {"new"} /\ At(v, p) \in Outcomes(At(v, p))
      BY DEF RecPcs, Outcomes
    <3>3. QED
      BY <1>8, <3>1, <3>2
  <2>3. CASE StopFile(v)
    <3>1. "rename" \in RecPcs \ {"new"}
          /\ [At(v, "rename") EXCEPT !.switcher = 0, !.opened = FALSE]
               \in Outcomes(At(v, "rename"))
      BY DEF RecPcs, Outcomes
    <3>2. QED
      BY <1>8, <2>3, <3>1 DEF StopFile
  <2>4. CASE StopFails(v)
    <3>1. "error" \in RecPcs \ {"new"}
          /\ [At(v, "error") EXCEPT !.switcher = 0] \in Outcomes(At(v, "error"))
      BY DEF RecPcs, Outcomes
    <3>2. QED
      BY <1>8, <2>4, <3>1 DEF StopFails
  <2>5. QED
    BY <1>9, <2>1, <2>2, <2>3, <2>4
<1>10. CASE RenameFile(v) \/ NoRespawn(v)
  BY <1>2, <1>3, <1>10 DEF RenameFile, NoRespawn, RecPcs, Outcomes
<1>11. CASE CleanUp(v)
  <2>1. PICK p \in {"respawn", "crashed"} :
          RecStep(v, "error", [At(v, p) EXCEPT !.opened = FALSE, !.switcher = 0])
    BY <1>11 DEF CleanUp
  <2>2. p \in RecPcs \ {"new"}
    BY DEF RecPcs
  <2>3. [At(v, p) EXCEPT !.opened = FALSE, !.switcher = 0] \in Outcomes(At(v, p))
    BY DEF Outcomes
  <2>4. QED
    BY <1>8, <2>1, <2>2, <2>3
<1>12. QED
  BY <1>4, <1>5, <1>6, <1>7, <1>9, <1>10, <1>11 DEF RecorderNext

\* So does a camera thread ...
LEMMA LifeCamera ==
  ASSUME IInv, NEW c \in Cams, Grab(c) \/ CameraGoesOn(c)
  PROVE  Lifecycle'
<1>1. c \in Workers /\ c \notin Recs
  BY Sets
<1>2. UNCHANGED <<inst, born, mk>> => Lifecycle'
  BY LifeQuiet
<1>3. CASE \/ Grab(c) \/ LoopTest(c) \/ QueueStep(c) \/ NextTurn(c)
           \/ CameraCrashes(c)
  BY <1>2, <1>3 DEF Grab, LoopTest, QueueStep, NextTurn, CameraCrashes, CamStep
<1>4. CASE CameraCreates(c)
  BY <1>1, <1>4, LifeConstruct DEF CameraCreates
<1>5. CASE TakeSlot(c) \/ SetListener(c)
  BY <1>1, <1>5, LifeSlot
<1>6. CASE Start(c)
  BY <1>1, <1>6, LifeStart
<1>7. QED
  BY <1>3, <1>4, <1>5, <1>6 DEF CameraGoesOn

\* ... and the main thread.
LEMMA LifeMain ==
  ASSUME IInv, MainBusy \/ MainAsked
  PROVE  Lifecycle'
<1>1. Main \in Workers /\ Main \notin Recs
  BY Sets
<1>2. UNCHANGED <<inst, born, mk>> => Lifecycle'
  BY LifeQuiet
<1>3. ASSUME NEW v \in Recs, NEW to \in Instances, UNCHANGED <<born, mk>>,
             inst' = [inst EXCEPT ![v] = to], to.pc = inst[v].pc,
             to.registered => inst[v].registered
      PROVE  Lifecycle'
  <2>1. \A w \in Recs : /\ inst'[w].pc = inst[w].pc
                        /\ inst'[w].registered => inst[w].registered
    BY <1>3 DEF IInv, TypeOK
  <2>2. QED
    BY <1>3, <2>1, LifeQuiet
<1>4. /\ mpc \in {"mark", "stop"} => slot \in Recs
      /\ mpc \in {"restart", "switchOff"} => mv \in Recs
      /\ \A v \in Recs : inst[v] \in Instances
  BY KidType DEF IInv, TypeOK
<1>5. \A i \in Instances :
        \A to \in {[i EXCEPT !.flag = 1], [i EXCEPT !.switcher = 0],
                  [i EXCEPT !.switcher = 0, !.registered = FALSE]} :
          to \in Instances /\ to.pc = i.pc /\ (to.registered => i.registered)
  BY DEF Instances
<1>6. CASE \/ Drop \/ NoRestart \/ CloseCamera \/ MainAsked
           \/ (\E v \in Recs : DeliverSwitch(v))
           \/ (\E c \in Cams : DeliverStop(c))
  BY <1>2, <1>6 DEF Drop, NoRestart, CloseCamera, MainAsked, PressStop,
    SendFileSwitch, PressRecord, DeliverSwitch, DeliverStop
<1>7. CASE MarkStop
  <2>1. inst' = [inst EXCEPT ![slot] = [inst[slot] EXCEPT !.flag = 1]]
        /\ slot \in Recs /\ UNCHANGED <<born, mk>>
    BY <1>4, <1>7 DEF MarkStop, MainStep
  <2>2. QED
    BY <1>3, <1>4, <1>5, <2>1
<1>8. CASE StopSlot
  <2>1. inst' = [inst EXCEPT ![slot] = [inst[slot] EXCEPT !.switcher = 0]]
        /\ slot \in Recs /\ UNCHANGED <<born, mk>>
    BY <1>4, <1>8 DEF StopSlot, MainStep
  <2>2. QED
    BY <1>3, <1>4, <1>5, <2>1
<1>9. CASE SwitchOff
  <2>1. inst' = [inst EXCEPT ![mv] = [inst[mv] EXCEPT
                   !.switcher = 0, !.registered = FALSE]]
        /\ mv \in Recs /\ UNCHANGED <<born, mk>>
    BY <1>4, <1>9 DEF SwitchOff, MainStep
  <2>2. QED
    BY <1>3, <1>4, <1>5, <2>1
<1>10. CASE Restart
  <2>1. inst[mv] \in Instances
    BY <1>4, <1>10 DEF Restart, MainStep
  <2>2. inst[mv].listener \in BOOLEAN
    BY <2>1 DEF Instances
  <2>3. QED
    BY <1>1, <1>10, <2>2, LifeConstruct DEF Restart
<1>11. CASE TakeSlot(Main)
  BY <1>1, <1>11, LifeSlot
<1>12. CASE Start(Main)
  BY <1>1, <1>12, LifeStart
<1>13. QED
  BY <1>6, <1>7, <1>8, <1>9, <1>10, <1>11, <1>12 DEF MainBusy

-----------------------------------------------------------------------------

\* No instance has been constructed at the start.
LEMMA InitInv ==
  ASSUME Init, Queue!QTypeOK
  PROVE  IInv
<1>1. /\ inst = [v \in Recs |-> NewInstance] /\ born = 0 /\ slot = 0
      /\ mk = [t \in Workers |-> [pc |-> "none", kid |-> 0]]
      /\ cam = [c \in Cams |-> NewCamera]
      /\ mpc = "idle" /\ looper = <<>>
      /\ switches = 0 /\ stops = 0 /\ faults = 0
      /\ raw = [n \in Recs |-> {}] /\ kept = {}
      /\ logged = [f \in Frames |-> 0]
  BY DEF Init
<1>2. cam \in [Cams -> Cameras]
  <2>1. NewCamera \in Cameras
    BY Sets DEF NewCamera, Cameras
  <2>2. QED
    BY <1>1, <2>1
<1>3. inst \in [Recs -> Instances]
  BY <1>1, NewInstanceType
<1>4. mk \in [Workers -> [pc : {"none", "slot", "listen", "start"},
                         kid : 0..MaxRec]]
      /\ \A t \in Workers : mk[t].pc = "none"
  BY <1>1, Sets
<1>5. /\ switches \in 0..MaxSwitches /\ stops \in 0..MaxStops
      /\ faults \in 0..MaxFaults /\ born \in 0..MaxRec /\ slot \in 0..born
  BY <1>1, RecorderAssumption
<1>6. raw \in [Recs -> SUBSET Recs] /\ kept \in SUBSET Recs
      /\ logged \in [Frames -> 0..MaxRec]
  BY <1>1, Sets
<1>7. looper \in Seq(Broadcasts)
  BY <1>1
<1>8. TypeOK
  BY <1>1, <1>2, <1>3, <1>4, <1>5, <1>6, <1>7 DEF TypeOK
<1>9. Lifecycle
  <2>1. \A v \in Recs : inst[v].pc = "new" /\ ~inst[v].registered
    BY <1>1 DEF NewInstance
  <2>2. QED
    BY <1>4, <2>1, Sets DEF Lifecycle
<1>10. QED
  BY <1>8, <1>9 DEF IInv

\* Every step keeps the inductive invariant.
LEMMA StepInv ==
  ASSUME IInv, [Next]_vars, Queue!QTypeOK'
  PROVE  IInv'
<1>0. TypeOK
  BY DEF IInv
<1>1. ASSUME NEW c \in Cams, Grab(c) \/ CameraGoesOn(c) PROVE IInv'
  BY <1>0, <1>1, CameraStepType, LifeCamera DEF IInv
<1>2. ASSUME NEW v \in Recs, RecorderNext(v) PROVE IInv'
  BY <1>2, RecorderStepType, LifeRecorder DEF IInv
<1>3. CASE MainBusy
  BY <1>3, MainBusyType, LifeMain DEF IInv
<1>4. CASE MainAsked
  BY <1>0, <1>4, MainAskedType, LifeMain DEF IInv
<1>5. CASE UNCHANGED vars
  <2>1. RecOK' /\ MainOK' /\ FileOK' /\ (cam \in [Cams -> Cameras])'
    BY <1>0, <1>5 DEF vars, mainvars, filevars, TypeOK, RecOK, MainOK, FileOK
  <2>2. Lifecycle'
    BY <1>5, LifeQuiet DEF vars
  <2>3. QED
    BY <2>1, <2>2, TypeParts DEF IInv
<1>6. QED
  BY <1>1, <1>2, <1>3, <1>4, <1>5 DEF Next

\* Threads, instances, broadcasts and files are what the model says they are:
\* the main thread never handles an instance or a camera that is not there
\* (TypeOK), and no instance is started twice (Lifecycle).
THEOREM InvCorrect == Spec => []IInv
<1>1. Spec => []Queue!QTypeOK
  BY BufferInProgram, PTL
<1>2. Init /\ Queue!QTypeOK => IInv
  BY InitInv
<1>3. IInv /\ [Next]_vars /\ Queue!QTypeOK' => IInv'
  BY StepInv
<1>4. QED
  BY <1>1, <1>2, <1>3, PTL DEF Spec

\* The type invariant, for any number of threads and any of the bounds.
THEOREM TypeCorrect == Spec => []TypeOK
<1>1. IInv => TypeOK
  BY DEF IInv
<1>2. QED
  BY <1>1, InvCorrect, PTL
-----------------------------------------------------------------------------
\* A recorder has a frame it has not written yet; a camera thread has one it
\* has not put.
Holding(v) == inst[v].pc \in {"taking", "record"}
Putting(c) == op[c] = "put"
Places == 1..Len(holders)

\* Frames the camera has produced and that are in no file.  Those on their
\* way are such frames, ...
Pending == {f \in Frames : f <= grabbed /\ logged[f] = 0}

AllPending ==
  /\ \A f \in Frames : logged[f] # 0 => f <= grabbed
  /\ \A i \in Places : holders[i] \in Pending
  /\ \A c \in Cams : Putting(c) => hand[c] \in Pending
  /\ \A v \in Recs : Holding(v) => hand[v] \in Pending

\* ... and each of them is in one place only: in the buffer, in the hand of a
\* camera thread, or in the hand of a recorder.
InOnePlace ==
  /\ \A i, j \in Places : i # j => holders[i] # holders[j]
  /\ \A i \in Places, c \in Cams : Putting(c) => holders[i] # hand[c]
  /\ \A i \in Places, v \in Recs : Holding(v) => holders[i] # hand[v]
  /\ \A c, d \in Cams : Putting(c) /\ Putting(d) /\ c # d => hand[c] # hand[d]
  /\ \A c \in Cams, v \in Recs : Putting(c) /\ Holding(v) => hand[c] # hand[v]
  /\ \A v, w \in Recs : Holding(v) /\ Holding(w) /\ v # w => hand[v] # hand[w]

\* With one camera thread they are in the camera's order: first what has been
\* written, then what recorders hold, then the buffer, then what the camera
\* thread is about to put there.
InOrder ==
  /\ \A i, j \in Places : i < j => holders[i] < holders[j]
  /\ \A i \in Places, c \in Cams : Putting(c) => holders[i] < hand[c]
  /\ \A f \in Frames, i \in Places : logged[f] # 0 => f < holders[i]
  /\ \A f \in Frames, c \in Cams : logged[f] # 0 /\ Putting(c) => f < hand[c]
  /\ \A i \in Places, v \in Recs : Holding(v) => hand[v] < holders[i]
  /\ \A c \in Cams, v \in Recs : Putting(c) /\ Holding(v) => hand[v] < hand[c]
  /\ \A f \in Frames, v \in Recs : logged[f] = v /\ Holding(v) => f < hand[v]

OneCamera == \A c, d \in Cams : c = d

FrameInv == AllPending /\ InOnePlace /\ (OneCamera => InOrder)

\* What the invariants of the buffer and of the program say of the frames.
LEMMA FrameTypes ==
  ASSUME IInv
  PROVE  /\ holders \in Seq(Frames) /\ Len(holders) \in Nat
         /\ grabbed \in 0..MaxFrames /\ MaxFrames \in Nat
         /\ \A i \in Places : holders[i] \in Frames
         /\ \A t \in Cams \cup Recs : hand[t] \in Frames \cup {0}
         /\ \A c \in Cams : Putting(c) => hand[c] \in Frames
         /\ hand \in [Cams \cup Recs -> Frames \cup {0}]
         /\ op \in [Cams \cup Recs -> {"idle", "put", "incLoad", "incStore",
                                      "decLoad", "decStore"}]
         /\ \A v \in Recs : op[v] # "put"
         /\ logged \in [Frames -> 0..MaxRec]
<1>1. /\ holders \in Seq(Frames) /\ grabbed \in 0..MaxFrames
      /\ hand \in [Cams \cup Recs -> Frames \cup {0}]
      /\ op \in [Cams \cup Recs -> {"idle", "put", "incLoad", "incStore",
                                   "decLoad", "decStore"}]
      /\ \A v \in Recs : op[v] # "put"
      /\ \A c \in Cams : Putting(c) => hand[c] \in Frames
      /\ logged \in [Frames -> 0..MaxRec]
  BY DEF IInv, TypeOK, Queue!QTypeOK, Queue!Frames, Queue!Threads,
         Queue!NoFrame, Frames, Putting
<1>2. Len(holders) \in Nat /\ \A i \in Places : holders[i] \in Frames
  BY <1>1, LenProperties, ElementOfSeq DEF Places
<1>3. QED
  BY <1>1, <1>2, Sets

\* A step that moves no frame.
LEMMA FrameQuiet ==
  ASSUME FrameInv, UNCHANGED <<holders, hand, grabbed, logged>>,
         \A c \in Cams : Putting(c)' => Putting(c),
         \A v \in Recs : Holding(v)' => Holding(v)
  PROVE  FrameInv'
<1>1. AllPending'
  BY DEF FrameInv, AllPending, Pending, Places
<1>2. InOnePlace'
  BY DEF FrameInv, InOnePlace, Places
<1>3. ASSUME OneCamera PROVE InOrder'
  BY <1>3 DEF FrameInv, InOrder, Places
<1>4. QED
  BY <1>1, <1>2, <1>3 DEF FrameInv, OneCamera

\* The camera has a new frame.
LEMMA GrabFrames ==
  ASSUME IInv, FrameInv, NEW c \in Cams, Grab(c)
  PROVE  FrameInv'
<1>0. /\ c \in Cams \cup Recs /\ grabbed \in Nat
      /\ inst' = inst /\ logged' = logged
      /\ \A v \in Recs : Holding(v)' <=> Holding(v)
      /\ \A f \in Frames : f \in Nat
  BY FrameTypes DEF Grab, CamStep, filevars, Holding, Frames
<1>1. CASE Queue!AddDrops(c)
  <2>1. grabbed' = grabbed + 1 /\ UNCHANGED <<holders, hand, op>>
    BY <1>1 DEF Queue!AddDrops
  <2>2. Pending \subseteq Pending'
    BY <1>0, <2>1 DEF Pending
  <2>3. AllPending'
    BY <1>0, <2>1, <2>2 DEF FrameInv, AllPending, Places, Putting
  <2>4. InOnePlace'
    BY <1>0, <2>1 DEF FrameInv, InOnePlace, Places, Putting
  <2>5. ASSUME OneCamera PROVE InOrder'
    BY <1>0, <2>1, <2>5 DEF FrameInv, InOrder, Places, Putting
  <2>6. QED
    BY <2>3, <2>4, <2>5 DEF FrameInv, OneCamera
<1>2. CASE Queue!AddAccepts(c)
  <2>1. /\ grabbed' = grabbed + 1 /\ grabbed' \in Frames /\ holders' = holders
        /\ hand'[c] = grabbed' /\ op'[c] = "put" /\ op[c] # "put"
        /\ \A t \in Cams \cup Recs : t # c => hand'[t] = hand[t] /\ op'[t] = op[t]
    BY <1>0, <1>2, FrameTypes DEF Queue!AddAccepts, Frames
  <2>2. /\ \A d \in Cams : Putting(d)' <=> Putting(d) \/ d = c
        /\ ~Putting(c) /\ Places' = Places
        /\ \A d \in Cams : d # c => hand'[d] = hand[d]
        /\ \A v \in Recs : hand'[v] = hand[v]
    BY <1>0, <2>1, Sets DEF Putting, Places
  <2>3. \A f \in Pending : f \in Frames /\ f <= grabbed /\ f # grabbed' /\ f < grabbed'
    BY <1>0, <2>1 DEF Pending
  <2>4. Pending \subseteq Pending' /\ grabbed' \in Pending'
    <3>1. logged[grabbed'] = 0
      BY <1>0, <2>1 DEF FrameInv, AllPending
    <3>2. grabbed' \in Pending'
      BY <1>0, <2>1, <3>1 DEF Pending
    <3>3. \A f \in Pending : f \in Pending'
      BY <1>0, <2>1 DEF Pending
    <3>4. QED
      BY <3>2, <3>3
  <2>5. AllPending'
    <3>1. AllPending
      BY DEF FrameInv
    <3>2. \A f \in Frames : logged'[f] # 0 => f <= grabbed'
      BY <1>0, <2>1, <3>1 DEF AllPending
    <3>3. \A d \in Cams : Putting(d)' => hand'[d] \in Pending'
      BY <2>1, <2>2, <2>4, <3>1 DEF AllPending
    <3>4. /\ \A i \in Places' : holders'[i] \in Pending'
          /\ \A v \in Recs : Holding(v)' => hand'[v] \in Pending'
      BY <1>0, <2>1, <2>2, <2>4, <3>1 DEF AllPending
    <3>5. QED
      BY <3>2, <3>3, <3>4 DEF AllPending
  <2>6. InOnePlace'
    BY <1>0, <2>1, <2>2, <2>3 DEF FrameInv, AllPending, InOnePlace
  <2>7. ASSUME OneCamera PROVE InOrder'
    <3>1. \A d \in Cams : d = c
      BY <2>7 DEF OneCamera
    <3>2. \A f \in Frames : logged[f] # 0 => f < grabbed'
      BY <1>0, <2>1 DEF FrameInv, AllPending
    <3>3. QED
      BY <1>0, <2>1, <2>2, <2>3, <2>7, <3>1, <3>2
        DEF FrameInv, AllPending, InOrder
  <2>8. QED
    BY <2>5, <2>6, <2>7 DEF FrameInv, OneCamera
<1>3. QED
  BY <1>1, <1>2 DEF Grab

\* The camera thread puts its frame at the end of the buffer.
LEMMA PutFrames ==
  ASSUME IInv, FrameInv, NEW c \in Cams, QueueStep(c)
  PROVE  FrameInv'
<1>0. /\ c \in Cams \cup Recs /\ inst' = inst /\ logged' = logged
      /\ \A v \in Recs : Holding(v)' <=> Holding(v)
  BY DEF QueueStep, filevars, Holding
<1>1. CASE Queue!IncLoad(c) \/ Queue!IncStore(c)
  <2>1. UNCHANGED <<holders, hand, grabbed>>
        /\ \A d \in Cams : Putting(d)' => Putting(d)
    BY <1>1, FrameTypes DEF Queue!IncLoad, Queue!IncStore, Queue!Load,
      Queue!Store, Putting
  <2>2. QED
    BY <1>0, <2>1, FrameQuiet
<1>2. CASE Queue!Put(c)
  <2>1. /\ grabbed' = grabbed /\ holders' = Append(holders, hand[c])
        /\ op'[c] # "put" /\ Putting(c)
        /\ \A t \in Cams \cup Recs : t # c => hand'[t] = hand[t] /\ op'[t] = op[t]
    BY <1>0, <1>2, FrameTypes DEF Queue!Put, Putting
  <2>9. Putting(c)
    BY <2>1
  <2> DEFINE last == Len(holders) + 1
  <2>2. hand[c] \in Frames /\ Len(holders) \in Nat
    BY <2>1, FrameTypes
  <2>3. /\ Len(holders') = last /\ holders'[last] = hand[c]
        /\ \A i \in Places : holders'[i] = holders[i] /\ i # last
    BY <2>1, <2>2, FrameTypes, AppendProperties DEF Places
  <2>4. /\ \A i \in Places' : i = last \/ i \in Places
        /\ \A i, j \in Places' : i < j => i \in Places
    BY <2>2, <2>3 DEF Places
  <2> HIDE DEF last
  <2>5. /\ \A d \in Cams : Putting(d)' <=> Putting(d) /\ d # c
        /\ \A d \in Cams : d # c => hand'[d] = hand[d]
        /\ \A v \in Recs : hand'[v] = hand[v]
        /\ Pending' = Pending
    BY <1>0, <2>1, Sets DEF Putting, Pending
  <2>6. AllPending'
    BY <1>0, <2>1, <2>3, <2>4, <2>5 DEF FrameInv, AllPending
  <2>7. InOnePlace'
    <3>1. InOnePlace
      BY DEF FrameInv
    <3>2. \A i \in Places : holders'[i] # hand[c]
      <4>1. \A i \in Places : holders[i] # hand[c]
        BY <2>9, <3>1, Zenon DEF InOnePlace
      <4>2. QED
        BY <2>3, <4>1
    <3>3. \A i, j \in Places' : i # j => holders'[i] # holders'[j]
      BY <2>3, <2>4, <3>1, <3>2 DEF InOnePlace
    <3>4. \A i \in Places', d \in Cams : Putting(d)' => holders'[i] # hand'[d]
      <4>1. \A i \in Places, d \in Cams : Putting(d)' => holders[i] # hand'[d]
        BY <2>5, <3>1 DEF InOnePlace
      <4>2. \A d \in Cams : Putting(d)' => hand[c] # hand'[d]
        BY <2>5, <2>9, <3>1 DEF InOnePlace
      <4>3. QED
        BY <2>3, <2>4, <4>1, <4>2
    <3>5. \A i \in Places', v \in Recs : Holding(v)' => holders'[i] # hand'[v]
      <4>1. \A i \in Places, v \in Recs : Holding(v)' => holders[i] # hand'[v]
        BY <1>0, <2>5, <3>1 DEF InOnePlace
      <4>2. \A v \in Recs : Holding(v)' => hand[c] # hand'[v]
        BY <1>0, <2>5, <2>9, <3>1 DEF InOnePlace
      <4>3. QED
        BY <2>3, <2>4, <4>1, <4>2
    <3>6. /\ \A d, e \in Cams :
               Putting(d)' /\ Putting(e)' /\ d # e => hand'[d] # hand'[e]
          /\ \A d \in Cams, v \in Recs :
               Putting(d)' /\ Holding(v)' => hand'[d] # hand'[v]
      BY <1>0, <2>5, <3>1 DEF InOnePlace
    <3>7. \A v, w \in Recs :
            Holding(v)' /\ Holding(w)' /\ v # w => hand'[v] # hand'[w]
      BY <1>0, <2>5, <3>1 DEF InOnePlace
    <3>8. QED
      BY <3>3, <3>4, <3>5, <3>6, <3>7 DEF InOnePlace
  <2>8. ASSUME OneCamera PROVE InOrder'
    <3>1. \A d \in Cams : ~Putting(d)'
      BY <2>5, <2>8 DEF OneCamera
    <3>2. InOrder
      BY <2>8 DEF FrameInv
    <3>3. \A i, j \in Places' : i < j => holders'[i] < holders'[j]
      BY <2>1, <2>3, <2>4, <3>2 DEF InOrder
    <3>4. \A f \in Frames, i \in Places' : logged'[f] # 0 => f < holders'[i]
      BY <1>0, <2>1, <2>3, <2>4, <3>2 DEF InOrder
    <3>5. \A i \in Places', v \in Recs : Holding(v)' => hand'[v] < holders'[i]
      BY <1>0, <2>1, <2>3, <2>4, <2>5, <3>2 DEF InOrder
    <3>6. \A f \in Frames, v \in Recs : logged'[f] = v /\ Holding(v)' => f < hand'[v]
      BY <1>0, <2>5, <3>2 DEF InOrder
    <3>7. QED
      BY <3>1, <3>3, <3>4, <3>5, <3>6 DEF InOrder
  <2>10. QED
    BY <2>6, <2>7, <2>8 DEF FrameInv, OneCamera
<1>3. QED
  BY <1>1, <1>2 DEF QueueStep

\* A recorder thread takes the first frame of the buffer.
LEMMA TakeFrames ==
  ASSUME IInv, FrameInv, NEW v \in Recs, GetFrame(v)
  PROVE  FrameInv'
<1>0. /\ v \in Cams \cup Recs /\ logged' = logged /\ inst[v].pc = "take"
      /\ \A w \in Recs : w # v => inst'[w] = inst[w]
  BY DEF GetFrame, RecStep, filevars, IInv, TypeOK
<1>1. /\ grabbed' = grabbed /\ holders # <<>> /\ holders' = Tail(holders)
      /\ hand'[v] = Head(holders) /\ op'[v] # "put" /\ op[v] # "put"
      /\ \A t \in Cams \cup Recs : t # v => hand'[t] = hand[t] /\ op'[t] = op[t]
  BY <1>0, FrameTypes DEF GetFrame, Queue!Take
<1>2. Len(holders) \in Nat \ {0} /\ 1 \in Places
  BY <1>1, FrameTypes, EmptySeq DEF Places
<1>3. /\ Len(holders') = Len(holders) - 1 /\ hand'[v] = holders[1]
      /\ \A i \in Places' : holders'[i] = holders[i + 1]
  BY <1>1, <1>2, FrameTypes, HeadTailProperties DEF Places
<1>4. /\ \A i \in Places' : i + 1 \in Places /\ 1 < i + 1 /\ 1 # i + 1
      /\ \A i, j \in Places' : /\ i # j => i + 1 # j + 1
                             /\ i < j => i + 1 < j + 1
  BY <1>2, <1>3 DEF Places
<1>5. /\ \A c \in Cams : (Putting(c)' <=> Putting(c)) /\ hand'[c] = hand[c]
      /\ \A w \in Recs : w # v => (Holding(w)' <=> Holding(w)) /\ hand'[w] = hand[w]
      /\ ~Holding(v) /\ Pending' = Pending
  BY <1>0, <1>1, Sets DEF Putting, Holding, Pending
<1>6. AllPending'
  BY <1>0, <1>1, <1>2, <1>3, <1>4, <1>5 DEF FrameInv, AllPending
<1>7. InOnePlace'
  <2>1. InOnePlace
    BY DEF FrameInv
  <2>2. ASSUME NEW i \in Places', NEW j \in Places', i # j
        PROVE  holders'[i] # holders'[j]
    <3>1. i + 1 \in Places /\ j + 1 \in Places /\ i + 1 # j + 1
      BY <1>2, <1>3, <2>2 DEF Places
    <3>2. holders[i + 1] # holders[j + 1]
      BY <3>1, <2>1 DEF InOnePlace
    <3>3. QED
      BY <1>3, <3>2
  <2>3. \A i \in Places', c \in Cams : Putting(c)' => holders'[i] # hand'[c]
    BY <1>3, <1>4, <1>5, <2>1 DEF InOnePlace
  <2>4. \A i \in Places', w \in Recs : Holding(w)' => holders'[i] # hand'[w]
    BY <1>2, <1>3, <1>4, <1>5, <2>1 DEF InOnePlace
  <2>5. /\ \A c, d \in Cams :
             Putting(c)' /\ Putting(d)' /\ c # d => hand'[c] # hand'[d]
        /\ \A c \in Cams, w \in Recs :
             Putting(c)' /\ Holding(w)' => hand'[c] # hand'[w]
    BY <1>2, <1>3, <1>5, <2>1 DEF InOnePlace
  <2>6. \A u, w \in Recs :
          Holding(u)' /\ Holding(w)' /\ u # w => hand'[u] # hand'[w]
    BY <1>2, <1>3, <1>5, <2>1 DEF InOnePlace
  <2>7. QED
    BY <2>2, <2>3, <2>4, <2>5, <2>6 DEF InOnePlace
<1>8. ASSUME OneCamera PROVE InOrder'
  <2>1. InOrder /\ v # 0
    BY <1>8, Sets DEF FrameInv, Recs
  <2>2. ASSUME NEW i \in Places', NEW j \in Places', i < j
        PROVE  holders'[i] < holders'[j]
    <3>1. i + 1 \in Places /\ j + 1 \in Places /\ i + 1 < j + 1
      BY <1>2, <1>3, <2>2 DEF Places
    <3>2. holders[i + 1] < holders[j + 1]
      BY <3>1, <2>1 DEF InOrder
    <3>3. QED
      BY <1>3, <3>2
  <2>7. \A i \in Places', c \in Cams : Putting(c)' => holders'[i] < hand'[c]
    BY <1>3, <1>4, <1>5, <2>1 DEF InOrder
  <2>3. /\ \A f \in Frames, i \in Places' : logged'[f] # 0 => f < holders'[i]
        /\ \A f \in Frames, c \in Cams :
             logged'[f] # 0 /\ Putting(c)' => f < hand'[c]
    BY <1>0, <1>3, <1>4, <1>5, <2>1 DEF InOrder
  <2>4. /\ \A i \in Places', w \in Recs : Holding(w)' => hand'[w] < holders'[i]
        /\ \A c \in Cams, w \in Recs : Putting(c)' /\ Holding(w)' => hand'[w] < hand'[c]
    BY <1>2, <1>3, <1>4, <1>5, <2>1 DEF InOrder
  <2>5. \A f \in Frames, w \in Recs : logged'[f] = w /\ Holding(w)' => f < hand'[w]
    BY <1>0, <1>2, <1>3, <1>5, <2>1 DEF InOrder
  <2>6. QED
    BY <2>2, <2>3, <2>4, <2>5, <2>7 DEF InOrder
<1>9. QED
  BY <1>6, <1>7, <1>8 DEF FrameInv, OneCamera

\* A recorder thread writes the frame it holds: that frame is in no file yet
\* and, with one camera thread, is the youngest of its file.
LEMMA RecordFrames ==
  ASSUME IInv, FrameInv, NEW v \in Recs, RecordFrame(v)
  PROVE  /\ FrameInv'
         /\ grabbed' = grabbed
         /\ hand[v] \in Frames /\ hand[v] <= grabbed /\ logged[hand[v]] = 0
         /\ OneCamera => \A f \in Frames : logged[f] = v => f < hand[v]
         /\ logged' = [logged EXCEPT ![hand[v]] = v]
<1>1. /\ UNCHANGED <<holders, hand, op, grabbed>>
      /\ logged' = [logged EXCEPT ![hand[v]] = v]
      /\ inst[v].pc = "record" /\ inst' = [inst EXCEPT ![v] = At(v, inst[v].mode)]
  BY DEF RecordFrame, RecStep, qvars
<1>2. At(v, inst[v].mode).pc \in {"loop", "drain"}
  <2>1. inst[v] \in Instances
    BY DEF IInv, TypeOK
  <2>2. QED
    BY <2>1 DEF At, Instances
<1>3. /\ Holding(v) /\ ~Holding(v)'
      /\ \A w \in Recs : w # v => (Holding(w)' <=> Holding(w))
  BY <1>1, <1>2 DEF Holding, IInv, TypeOK
<1>4. hand[v] \in Frames /\ hand[v] <= grabbed /\ logged[hand[v]] = 0
  BY <1>3 DEF FrameInv, AllPending, Pending
<1>5. \A f \in Frames : logged'[f] = IF f = hand[v] THEN v ELSE logged[f]
  BY <1>1, FrameTypes
<1>6. v # 0 /\ \A c \in Cams : Putting(c)' <=> Putting(c)
  BY <1>1 DEF Recs, Putting
<1>7. \A f \in Pending : f # hand[v] => f \in Pending'
  BY <1>1, <1>5 DEF Pending
<1>8. AllPending'
  <2>1. AllPending /\ InOnePlace
    BY DEF FrameInv
  <2>2. \A f \in Frames : logged'[f] # 0 => f <= grabbed'
    BY <1>1, <1>4, <1>5, <2>1 DEF AllPending
  <2>3. \A i \in Places' : holders'[i] \in Pending'
    BY <1>1, <1>3, <1>7, <2>1 DEF AllPending, InOnePlace, Places
  <2>4. \A c \in Cams : Putting(c)' => hand'[c] \in Pending'
    BY <1>1, <1>3, <1>6, <1>7, <2>1 DEF AllPending, InOnePlace
  <2>5. \A w \in Recs : Holding(w)' => hand'[w] \in Pending'
    BY <1>1, <1>3, <1>7, <2>1 DEF AllPending, InOnePlace
  <2>6. QED
    BY <2>2, <2>3, <2>4, <2>5 DEF AllPending
<1>9. InOnePlace'
  BY <1>1, <1>3, <1>6 DEF FrameInv, InOnePlace, Places
<1>10. ASSUME OneCamera PROVE InOrder'
  <2>1. InOrder
    BY <1>10 DEF FrameInv
  <2>2. /\ \A i, j \in Places' : i < j => holders'[i] < holders'[j]
        /\ \A i \in Places', c \in Cams : Putting(c)' => holders'[i] < hand'[c]
    BY <1>1, <1>6, <2>1 DEF InOrder, Places
  <2>3. \A f \in Frames, i \in Places' : logged'[f] # 0 => f < holders'[i]
    BY <1>1, <1>3, <1>5, <2>1 DEF InOrder, Places
  <2>4. \A f \in Frames, c \in Cams :
          logged'[f] # 0 /\ Putting(c)' => f < hand'[c]
    BY <1>1, <1>3, <1>5, <1>6, <2>1 DEF InOrder
  <2>5. /\ \A i \in Places', w \in Recs : Holding(w)' => hand'[w] < holders'[i]
        /\ \A c \in Cams, w \in Recs : Putting(c)' /\ Holding(w)' => hand'[w] < hand'[c]
    BY <1>1, <1>3, <1>6, <2>1 DEF InOrder, Places
  <2>6. \A f \in Frames, w \in Recs : logged'[f] = w /\ Holding(w)' => f < hand'[w]
    BY <1>1, <1>3, <1>5, <2>1 DEF InOrder
  <2>7. QED
    BY <2>2, <2>3, <2>4, <2>5, <2>6 DEF InOrder
<1>11. OneCamera => \A f \in Frames : logged[f] = v => f < hand[v]
  BY <1>3 DEF FrameInv, InOrder
<1>12. FrameInv'
  BY <1>8, <1>9, <1>10 DEF FrameInv, OneCamera
<1>13. QED
  BY <1>1, <1>4, <1>11, <1>12

\* A step that leaves the buffer alone and brings no recorder to a place
\* where it has a frame.
LEMMA PcQuiet ==
  ASSUME FrameInv, UNCHANGED <<qvars, logged>>,
         \A v \in Recs : \/ inst'[v].pc = inst[v].pc
                         \/ inst'[v].pc \notin {"taking", "record"}
  PROVE  FrameInv' /\ UNCHANGED <<grabbed, logged>>
<1>1. /\ UNCHANGED <<holders, hand, grabbed, logged, op>>
      /\ \A c \in Cams : Putting(c)' => Putting(c)
      /\ \A v \in Recs : Holding(v)' => Holding(v)
  BY DEF qvars, Putting, Holding
<1>2. QED
  BY <1>1, FrameQuiet

\* The constructor and start(), by any thread.
LEMMA MakeQuiet ==
  ASSUME IInv, FrameInv, NEW t \in Workers,
         \/ \E lsnr \in BOOLEAN : Construct(t, lsnr)
         \/ TakeSlot(t)
         \/ t \in Cams /\ SetListener(t)
         \/ Start(t)
  PROVE  FrameInv' /\ UNCHANGED <<grabbed, logged>>
<1>0. TypeOK /\ \A v \in Recs : inst[v] \in Instances
  BY DEF IInv, TypeOK
<1>1. CASE \E lsnr \in BOOLEAN : Construct(t, lsnr)
  <2>1. /\ UNCHANGED <<qvars, slot, filevars, faults>>
        /\ \A v \in Recs : inst'[v].pc = IF v = born' THEN "new" ELSE inst[v].pc
    BY <1>0, <1>1, ConstructType
  <2>2. UNCHANGED <<qvars, logged>>
    BY <2>1 DEF filevars
  <2>3. QED
    BY <2>1, <2>2, PcQuiet
<1>2. CASE TakeSlot(t)
  BY <1>2, PcQuiet DEF TakeSlot, filevars
<1>3. CASE t \in Cams /\ SetListener(t)
  <2>1. \A v \in Recs : inst'[v].pc = inst[v].pc
    <3> SUFFICES ASSUME NEW v \in Recs PROVE inst'[v].pc = inst[v].pc
      OBVIOUS
    <3>1. inst'[v] = inst[v] \/ inst'[v] = [inst[v] EXCEPT !.listener = TRUE]
      BY <1>0, <1>3 DEF SetListener, TypeOK
    <3>2. QED
      BY <1>0, <3>1 DEF Instances
  <2>2. UNCHANGED <<qvars, logged>>
    BY <1>3 DEF SetListener, filevars
  <2>3. QED
    BY <2>1, <2>2, PcQuiet
<1>4. CASE Start(t)
  <2>1. \A v \in Recs : inst'[v].pc \in {"starting", "done", inst[v].pc}
    <3> SUFFICES ASSUME NEW v \in Recs
                 PROVE  inst'[v].pc \in {"starting", "done", inst[v].pc}
      OBVIOUS
    <3>1. \/ inst'[v] = [inst[v] EXCEPT !.switcher = 1, !.pc = "starting"]
          \/ inst'[v] = [inst[v] EXCEPT !.pc = "done"]
          \/ inst'[v] = inst[v]
      BY <1>4 DEF Start
    <3>2. QED
      BY <1>0, <3>1 DEF Instances
  <2>2. UNCHANGED <<qvars, logged>>
    BY <1>4 DEF Start, filevars
  <2>3. QED
    BY <2>1, <2>2, PcQuiet
<1>5. QED
  BY <1>1, <1>2, <1>3, <1>4

\* The other steps of a recorder thread.
LEMMA RecorderQuiet ==
  ASSUME IInv, FrameInv, NEW v \in Recs, RecorderNext(v),
         ~GetFrame(v), ~RecordFrame(v)
  PROVE  FrameInv' /\ UNCHANGED <<grabbed, logged>>
<1>0. /\ v \in Workers /\ inst[v] \in Instances /\ inst[v].listener \in BOOLEAN
      /\ inst[v].mode \in {"loop", "drain"} /\ inst \in [Recs -> Instances]
  <2>1. v \in Workers /\ inst[v] \in Instances /\ inst \in [Recs -> Instances]
    BY Sets DEF IInv, TypeOK
  <2>2. QED
    BY <2>1 DEF Instances
<1>1. ASSUME NEW from, NEW to, RecStep(v, from, to), UNCHANGED <<qvars, logged>>,
             to.pc \notin {"taking", "record"}
      PROVE  FrameInv' /\ UNCHANGED <<grabbed, logged>>
  <2>1. \A w \in Recs : inst'[w].pc \in {inst[w].pc, to.pc}
    BY <1>0, <1>1 DEF RecStep
  <2>2. QED
    BY <1>1, <2>1, PcQuiet
<1>2. \A p \in RecPcs :
        /\ At(v, p).pc = p
        /\ [At(v, p) EXCEPT !.opened = TRUE].pc = p
        /\ [At(v, p) EXCEPT !.mode = "drain"].pc = p
        /\ [At(v, p) EXCEPT !.opened = FALSE].pc = p
        /\ [At(v, p) EXCEPT !.switcher = 0].pc = p
        /\ [At(v, p) EXCEPT !.switcher = 0, !.opened = FALSE].pc = p
        /\ [At(v, p) EXCEPT !.opened = FALSE, !.switcher = 0].pc = p
  BY <1>0 DEF At, Instances
<1>3. Finalise(v) \/ UNCHANGED filevars => UNCHANGED logged
  BY DEF Finalise, filevars
<1>4. CASE StartFile(v)
  BY <1>1, <1>2, <1>4 DEF StartFile, RecPcs
<1>5. CASE StartFails(v)
  BY <1>1, <1>2, <1>3, <1>5 DEF StartFails, RecPcs
<1>6. CASE SwitcherTest(v)
  BY <1>1, <1>2, <1>3, <1>6 DEF SwitcherTest, RecPcs
<1>7. CASE CountDown(v)
  <2>1. /\ UNCHANGED <<holders, hand, grabbed, logged>>
        /\ \A c \in Cams : op'[c] = op[c]
    <3>1. \A c \in Cams : c # v
      BY Sets
    <3>2. QED
      BY <1>7, <3>1, FrameTypes DEF CountDown, Queue!DecLoad, Queue!DecStore,
        Queue!Load, Queue!Store, filevars
  <2>2. Holding(v) /\ \A w \in Recs : w # v => inst'[w] = inst[w]
    BY <1>0, <1>7 DEF CountDown, RecStep, Holding
  <2>3. /\ \A c \in Cams : Putting(c)' => Putting(c)
        /\ \A w \in Recs : Holding(w)' => Holding(w)
    BY <2>1, <2>2 DEF Putting, Holding
  <2>4. QED
    BY <2>1, <2>3, FrameQuiet
<1>8. CASE RecordFails(v)
  <2>1. UNCHANGED <<qvars, logged>>
    BY <1>3, <1>8 DEF RecordFails
  <2>2. /\ At(v, inst[v].mode).pc \in {"loop", "drain"}
        /\ [At(v, "crashed") EXCEPT !.opened = FALSE].pc = "crashed"
    BY <1>0, <1>2 DEF RecPcs
  <2>3. CASE inst[v].listener
    <3>1. RecStep(v, "record", At(v, inst[v].mode))
      BY <1>8, <2>3 DEF RecordFails
    <3>2. QED
      BY <1>1, <2>1, <2>2, <3>1
  <2>4. CASE ~inst[v].listener
    <3>1. RecStep(v, "record", [At(v, "crashed") EXCEPT !.opened = FALSE])
      BY <1>8, <2>4 DEF RecordFails
    <3>2. QED
      BY <1>1, <2>1, <2>2, <3>1
  <2>5. QED
    BY <2>3, <2>4
<1>9. CASE DrainTest(v)
  BY <1>1, <1>2, <1>3, <1>9 DEF DrainTest, RecPcs
<1>10. CASE DrainSize(v)
  BY <1>1, <1>2, <1>3, <1>10 DEF DrainSize, RecPcs
<1>11. CASE StopFile(v) \/ StopFails(v)
  <2>1. UNCHANGED <<qvars, logged>>
    BY <1>3, <1>11 DEF StopFile, StopFails
  <2>2. /\ [At(v, "rename") EXCEPT !.switcher = 0, !.opened = FALSE].pc = "rename"
        /\ [At(v, "error") EXCEPT !.switcher = 0].pc = "error"
    BY <1>2 DEF RecPcs
  <2>3. CASE StopFile(v)
    BY <1>1, <2>1, <2>2, <2>3 DEF StopFile
  <2>4. CASE StopFails(v)
    BY <1>1, <2>1, <2>2, <2>4 DEF StopFails
  <2>5. QED
    BY <1>11, <2>3, <2>4
<1>12. CASE RenameFile(v)
  BY <1>0, <1>1, <1>2, <1>3, <1>12 DEF RenameFile, RecPcs
<1>13. CASE CleanUp(v)
  <2>1. PICK p \in {"respawn", "crashed"} :
          RecStep(v, "error", [At(v, p) EXCEPT !.opened = FALSE, !.switcher = 0])
    BY <1>13 DEF CleanUp
  <2>2. [At(v, p) EXCEPT !.opened = FALSE, !.switcher = 0].pc = p
    BY <1>2 DEF RecPcs
  <2>3. UNCHANGED <<qvars, logged>>
    BY <1>3, <1>13 DEF CleanUp
  <2>4. QED
    BY <1>1, <2>1, <2>2, <2>3
<1>14. CASE NoRespawn(v)
  BY <1>1, <1>2, <1>3, <1>14 DEF NoRespawn, RecPcs
<1>15. CASE Respawn(v)
  BY <1>0, <1>15, MakeQuiet DEF Respawn
<1>16. CASE TakeSlot(v) \/ Start(v)
  BY <1>0, <1>16, MakeQuiet
<1>17. QED
  BY <1>4, <1>5, <1>6, <1>7, <1>8, <1>9, <1>10, <1>11, <1>12, <1>13, <1>14,
     <1>15, <1>16 DEF RecorderNext

\* The main thread never touches a frame.
LEMMA MainQuiet ==
  ASSUME IInv, FrameInv, MainBusy \/ MainAsked
  PROVE  FrameInv' /\ UNCHANGED <<grabbed, logged>>
<1>1. Main \in Workers /\ \A v \in Recs : inst[v] \in Instances
  BY Sets DEF IInv, TypeOK
<1>2. /\ mpc \in {"mark", "stop"} => slot \in Recs
      /\ mpc \in {"restart", "switchOff"} => mv \in Recs
  BY KidType DEF IInv, TypeOK
<1>3. ASSUME UNCHANGED inst, UNCHANGED <<qvars, filevars, faults>>
      PROVE  FrameInv' /\ UNCHANGED <<grabbed, logged>>
  BY <1>3, PcQuiet DEF filevars
<1>4. CASE \/ Drop \/ NoRestart \/ CloseCamera \/ MainAsked
           \/ (\E v \in Recs : DeliverSwitch(v))
           \/ (\E c \in Cams : DeliverStop(c))
  BY <1>3, <1>4 DEF Drop, NoRestart, CloseCamera, MainAsked, PressStop,
    SendFileSwitch, PressRecord, DeliverSwitch, DeliverStop, MainStep
<1>5. CASE MarkStop \/ StopSlot \/ SwitchOff
  <2>1. UNCHANGED <<qvars, logged>>
    BY <1>5 DEF MarkStop, StopSlot, SwitchOff, MainStep, filevars
  <2>2. ASSUME NEW v \in Recs PROVE inst'[v].pc = inst[v].pc
    <3>1. inst'[v] \in {inst[v], [inst[v] EXCEPT !.flag = 1],
                        [inst[v] EXCEPT !.switcher = 0],
                        [inst[v] EXCEPT !.switcher = 0, !.registered = FALSE]}
      BY <1>2, <1>5 DEF MarkStop, StopSlot, SwitchOff, MainStep, IInv, TypeOK
    <3>2. QED
      BY <1>1, <3>1 DEF Instances
  <2>3. QED
    BY <2>1, <2>2, PcQuiet
<1>6. CASE Restart
  <2>1. inst[mv].listener \in BOOLEAN
    BY <1>1, <1>2, <1>6 DEF Restart, MainStep, Instances
  <2>2. QED
    BY <1>1, <1>6, <2>1, MakeQuiet DEF Restart
<1>7. CASE TakeSlot(Main) \/ Start(Main)
  BY <1>1, <1>7, MakeQuiet
<1>8. QED
  BY <1>4, <1>5, <1>6, <1>7 DEF MainBusy


\* Nothing has been produced, taken or written at the start.
LEMMA InitFrames ==
  ASSUME Init
  PROVE  FrameInv
<1>1. /\ holders = <<>> /\ \A t \in Cams \cup Recs : op[t] = "idle"
      /\ grabbed = 0 /\ \A f \in Frames : logged[f] = 0
      /\ \A v \in Recs : inst[v].pc = "new"
  BY DEF Init, Queue!Init, Queue!Threads, NewInstance
<1>2. /\ Places = {} /\ \A c \in Cams : ~Putting(c)
      /\ \A v \in Recs : ~Holding(v)
  BY <1>1 DEF Places, Putting, Holding
<1>3. QED
  BY <1>1, <1>2 DEF FrameInv, AllPending, InOnePlace, InOrder

\* FrameLog promises the order to a channel with one camera thread.
LEMMA Alone ==
  ASSUME Cardinality(Cams) = 1
  PROVE  OneCamera
<1>1. PICK c : Cams = {c}
  BY RecorderAssumption, FS_Singleton
<1>2. QED
  BY <1>1 DEF OneCamera

\* A step of the program keeps the invariant, and is a step of FrameLog.
LEMMA FrameStep ==
  ASSUME IInv, FrameInv, [Next]_vars
  PROVE  FrameInv' /\ [Promise!Next]_<<grabbed, logged>>
<1>1. ASSUME NEW c \in Cams, Grab(c)
      PROVE  FrameInv' /\ Promise!Next
  <2>1. grabbed < MaxFrames /\ grabbed' = grabbed + 1 /\ logged' = logged
    BY <1>1 DEF Grab, CamStep, filevars, Queue!AddDrops, Queue!AddAccepts
  <2>2. QED
    BY <1>1, <2>1, GrabFrames DEF Promise!Next, Promise!Produce
<1>2. ASSUME NEW c \in Cams, QueueStep(c)
      PROVE  FrameInv' /\ UNCHANGED <<grabbed, logged>>
  BY <1>2, PutFrames DEF QueueStep, filevars, Queue!Put, Queue!IncLoad,
    Queue!IncStore, Queue!Load, Queue!Store
<1>3. ASSUME NEW c \in Cams, CameraGoesOn(c), ~QueueStep(c)
      PROVE  FrameInv' /\ UNCHANGED <<grabbed, logged>>
  <2>1. c \in Workers
    BY Sets
  <2>2. CASE LoopTest(c) \/ NextTurn(c) \/ CameraCrashes(c)
    BY <2>2, PcQuiet DEF LoopTest, NextTurn, CameraCrashes, CamStep, filevars
  <2>3. CASE CameraCreates(c)
    BY <2>1, <2>3, MakeQuiet DEF CameraCreates
  <2>4. CASE TakeSlot(c) \/ SetListener(c) \/ Start(c)
    BY <2>1, <2>4, MakeQuiet
  <2>5. QED
    BY <1>3, <2>2, <2>3, <2>4 DEF CameraGoesOn
<1>4. ASSUME NEW v \in Recs, GetFrame(v)
      PROVE  FrameInv' /\ UNCHANGED <<grabbed, logged>>
  BY <1>4, TakeFrames DEF GetFrame, filevars, Queue!Take
<1>5. ASSUME NEW v \in Recs, RecordFrame(v)
      PROVE  FrameInv' /\ Promise!Next
  <2>1. /\ FrameInv' /\ grabbed' = grabbed
        /\ hand[v] \in Frames /\ hand[v] <= grabbed /\ logged[hand[v]] = 0
        /\ OneCamera => \A f \in Frames : logged[f] = v => f < hand[v]
        /\ logged' = [logged EXCEPT ![hand[v]] = v]
    BY <1>5, RecordFrames
  <2>2. Promise!Log(hand[v], v)
    BY <2>1, Alone DEF Promise!Log, Promise!Frames, Frames
  <2>3. QED
    BY <2>1, <2>2 DEF Promise!Next, Promise!Frames, Frames
<1>6. ASSUME NEW v \in Recs, RecorderNext(v), ~GetFrame(v), ~RecordFrame(v)
      PROVE  FrameInv' /\ UNCHANGED <<grabbed, logged>>
  BY <1>6, RecorderQuiet
<1>7. ASSUME MainBusy \/ MainAsked
      PROVE  FrameInv' /\ UNCHANGED <<grabbed, logged>>
  BY <1>7, MainQuiet
<1>8. ASSUME UNCHANGED vars
      PROVE  FrameInv' /\ UNCHANGED <<grabbed, logged>>
  BY <1>8, PcQuiet DEF vars, filevars
<1>9. QED
  BY <1>1, <1>2, <1>3, <1>4, <1>5, <1>6, <1>7, <1>8 DEF Next

\* Recording keeps the promise of FrameLog, for any number of camera threads,
\* recorders, file switches and exceptions: a frame is written to at most one
\* file, and with one camera thread the frames of a file are in order.
THEOREM FramesCorrect == Spec => FramesOnceInOrder
<1>1. Init => FrameInv
  BY InitFrames
<1>2. Init => Promise!Init
  BY DEF Init, Promise!Init, Promise!Frames, Frames, Queue!Init
<1>3. IInv /\ FrameInv /\ [Next]_vars
        => FrameInv' /\ [Promise!Next]_<<grabbed, logged>>
  BY FrameStep
<1>4. Spec => []IInv
  BY InvCorrect
<1>5. QED
  BY <1>1, <1>2, <1>3, <1>4, PTL DEF Spec, FramesOnceInOrder, Promise!Spec
=============================================================================
