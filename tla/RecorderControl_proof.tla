----------------------- MODULE RecorderControl_proof ------------------------
(***************************************************************************)
(* Who is told to record, who answers the next file switch, and what       *)
(* becomes of the files, for any number of camera threads, recorders, file *)
(* switches and stops.  Where it is needed it is assumed that nothing is   *)
(* asked of the program while a camera thread has yet to start its first   *)
(* recorder (Calm), and the properties say where they end with the first   *)
(* exception of FFmpeg; without these they are false.  The last two        *)
(* theorems, DrainAlways and StrandedAlways, do not need Calm.             *)
(***************************************************************************)
EXTENDS Recorder_proof

Making(t) == mk[t].pc # "none"

\* A camera thread constructs an instance for its first frame only, the main
\* thread only between the two halves of a file switch.
Makers ==
  /\ \A c \in Cams : Making(c) => cam[c].pc = "added" /\ cam[c].own = 0
  /\ Making(Main) => mpc = "switchOff"
  /\ \A t \in Workers : mk[t].pc = "listen" => t \in Cams
  /\ \A t \in Workers : ~Making(t) => mk[t].kid = 0

\* While a camera thread starts its first recorder, no other one does, and
\* the main thread has nothing to do.
Undisturbed ==
  /\ \A c, d \in Cams : Starting(c) /\ Starting(d) => c = d
  /\ (\E c \in Cams : Starting(c)) => mpc = "idle" /\ looper = <<>>

\* Every instance has a listener, or a camera thread is about to set it.
Listened ==
  \A v \in 1..born : inst[v].listener
    \/ \E c \in Cams : mk[c].pc \in {"slot", "listen"} /\ mk[c].kid = v

\* A file without its end time is that of an instance at work.
Unfinished ==
  \A v, n \in Recs : v \in raw[n] =>
    inst[v].name = n /\ inst[v].pc \notin {"new", "respawn", "done", "crashed"}

CalmInv == Makers /\ Undisturbed /\ Listened /\ Unfinished

\* No instance is in the handler of an exception.
NoError == \A v \in Recs : inst[v].pc \notin {"error", "respawn"}

\* Whoever is told to record is in the slot, and nobody is making another;
\* who makes one has put it in the slot before it starts it.
Active ==
  /\ \A v \in Recs : inst[v].switcher = 1 =>
       v = slot /\ \A t \in Workers : ~Making(t)
  /\ \A t \in Workers : mk[t].pc \in {"listen", "start"} => mk[t].kid = slot

\* Whoever is not registered for file switches is off, and whoever is being
\* made or is handling one is registered.
Registered ==
  /\ \A v \in 1..born : ~inst[v].registered => inst[v].switcher = 0
  /\ \A t \in Workers : Making(t) => inst[mk[t].kid].registered
  /\ mpc \in {"restart", "switchOff"} => inst[mv].registered

\* A recorder leaves its first loop only when it is off.
Draining ==
  \A v \in Recs :
    /\ inst[v].pc \in {"drain", "drainSize", "stop"} \/ inst[v].mode = "drain"
         => inst[v].switcher = 0
    /\ inst[v].pc = "new" => inst[v].mode = "loop"

\* Until a stop some recorder is at work or being made.
HasReader ==
  stops = 0 /\ (\E c \in Cams : cam[c].own # 0) =>
    \/ \E v \in Recs : inst[v].switcher = 1
    \/ \E t \in Workers : mk[t].kid # 0

\* Before the first stop a file switch has replaced the instance it turns off.
Reader ==
  stops = 0 =>
    /\ \A v \in Recs : inst[v].flag = 0
    /\ mpc \notin {"mark", "stop"}
    /\ mpc = "switchOff" => /\ inst[mv].switcher = 0
                            /\ Making(Main) => mk[Main].kid # mv
    /\ HasReader

\* Who answers the next file switch is in the slot, or is being replaced.
Heir(v) == inst[v].registered /\ inst[v].flag = 0
Heirs ==
  /\ \A c \in Cams : cam[c].pc = "off" \/ (cam[c].own = 0 /\ ~Making(c))
                       => born = 0
  /\ \A v \in 1..born : Heir(v) =>
       \/ v = slot /\ \A t \in Workers : ~Making(t)
       \/ mpc = "switchOff" /\ v = mv
       \/ \E t \in Workers : Making(t) /\ v = mk[t].kid

ControlInv ==
  NoError /\ Active /\ Registered /\ Draining /\ Reader /\ (OneCamera => Heirs)

-----------------------------------------------------------------------------

\* What is known of the state the invariants are about.
LEMMA Known ==
  ASSUME IInv
  PROVE  /\ inst \in [Recs -> Instances] /\ born \in 0..MaxRec /\ slot \in 0..born
         /\ \A v \in Recs : inst[v] \in Instances
         /\ \A v \in 1..born : v \in Recs
         /\ mk \in [Workers -> [pc : {"none", "slot", "listen", "start"},
                                kid : 0..MaxRec]]
         /\ \A t \in Workers : Making(t) =>
              /\ mk[t].kid \in 1..born /\ mk[t].kid \in Recs
              /\ inst[mk[t].kid].pc = "new" /\ mk[t].kid # 0
         /\ \A t, u \in Workers : Making(t) /\ Making(u) /\ t # u => mk[t].kid # mk[u].kid
         /\ \A v \in Recs : Making(v) => inst[v].pc = "respawn"
         /\ \A v \in Recs : inst[v].pc # "new" \/ inst[v].registered => v \in 1..born
         /\ cam \in [Cams -> Cameras]
         /\ raw \in [Recs -> SUBSET Recs]
         /\ mpc \in {"restart", "switchOff"} => mv \in 1..born /\ mv \in Recs
         /\ mpc \in {"mark", "stop"} => slot \in Recs
<1>1. TypeOK /\ Lifecycle
  BY DEF IInv
<1>2. /\ \A t \in Workers : mk[t].pc # "none" => mk[t].kid \in 1..born /\ mk[t].kid \in Recs
      /\ \A v \in 1..born : v \in Recs
  BY <1>1, KidType
<1>3. born \in 0..MaxRec /\ slot \in 0..born
  BY <1>1 DEF TypeOK
<1>4. \A v \in Recs : v <= born => v \in 1..born
  BY <1>3, Sets DEF Recs
<1>5. /\ inst \in [Recs -> Instances]
      /\ mk \in [Workers -> [pc : {"none", "slot", "listen", "start"}, kid : 0..MaxRec]]
      /\ cam \in [Cams -> Cameras] /\ raw \in [Recs -> SUBSET Recs]
  BY <1>1 DEF TypeOK
<1>6. /\ mpc \in {"restart", "switchOff"} => mv \in 1..born
      /\ mpc \in {"mark", "stop"} => slot # 0
  BY <1>1 DEF TypeOK
<1>7. slot # 0 => slot \in Recs
  BY <1>2, <1>3, Sets
<1>8. \A t \in Workers : Making(t) => mk[t].kid # 0
  BY <1>2, <1>3, Sets DEF Making
<1>9. QED
  BY <1>1, <1>2, <1>3, <1>4, <1>5, <1>6, <1>7, <1>8 DEF Lifecycle, Making

\* Turning an instance off.
LEMMA OffFields ==
  ASSUME NEW i \in Instances
  PROVE  LET j == [i EXCEPT !.switcher = 0]
         IN /\ j.switcher = 0 /\ j.pc = i.pc /\ j.mode = i.mode /\ j.flag = i.flag
            /\ j.registered = i.registered /\ j.listener = i.listener
            /\ j.name = i.name /\ j.opened = i.opened
BY DEF Instances

\* What the constructor does to the instances and to the threads.
LEMMA Constructed ==
  ASSUME IInv, NEW t \in Workers, NEW lsnr \in BOOLEAN, Construct(t, lsnr)
  PROVE  /\ ~Making(t) /\ mk'[t].pc = "slot" /\ mk'[t].kid = born + 1
         /\ \A u \in Workers : u # t => mk'[u] = mk[u]
         /\ born' = born + 1 /\ born + 1 \in Recs /\ born + 1 \notin 1..born
         /\ inst'[born + 1] \in [pc : {"new"}, mode : {"loop"}, switcher : {0},
                                 flag : {0}, registered : {TRUE}, listener : {lsnr},
                                 name : 0..MaxRec, opened : {FALSE}]
         /\ \A v \in Recs : v # born + 1 =>
              inst'[v] = IF v = slot THEN [inst[v] EXCEPT !.switcher = 0] ELSE inst[v]
         /\ inst[born + 1].pc = "new" /\ ~inst[born + 1].registered
         /\ UNCHANGED <<qvars, slot, filevars, faults>>
<1>1. PICK s \in Seconds :
        inst' = [v \in Recs |->
          CASE v = born + 1 -> [NewInstance EXCEPT
                 !.registered = TRUE, !.listener = lsnr, !.name = s]
            [] v = slot -> [inst[v] EXCEPT !.switcher = 0]
            [] OTHER -> inst[v]]
  BY DEF Construct
<1>2. born \in 0..MaxRec /\ born < MaxRec /\ born + 1 \in Recs /\ born + 1 \notin 1..born
  BY Known, Sets DEF Construct, Recs
<1>3. inst'[born + 1] = [NewInstance EXCEPT
        !.registered = TRUE, !.listener = lsnr, !.name = s]
  <2> DEFINE fresh == [NewInstance EXCEPT !.registered = TRUE, !.listener = lsnr, !.name = s]
  <2>1. inst' = [v \in Recs |-> CASE v = born + 1 -> fresh
                                  [] v = slot -> [inst[v] EXCEPT !.switcher = 0]
                                  [] OTHER -> inst[v]]
    BY <1>1
  <2>2. inst'[born + 1] = CASE born + 1 = born + 1 -> fresh
                            [] born + 1 = slot -> [inst[born + 1] EXCEPT !.switcher = 0]
                            [] OTHER -> inst[born + 1]
    BY <1>2, <2>1
  <2>3. slot # born + 1
    BY Known
  <2> HIDE DEF fresh
  <2>4. inst'[born + 1] = fresh
    BY <2>2, <2>3
  <2>5. QED
    BY <2>4 DEF fresh
<1>4. inst'[born + 1].name \in 0..MaxRec
  <2>1. TypeOK
    BY DEF IInv
  <2>2. inst' \in [Recs -> Instances]
    BY <2>1, ConstructType
  <2>3. QED
    BY <1>2, <2>2 DEF Instances
<1>5. inst'[born + 1] \in [pc : {"new"}, mode : {"loop"}, switcher : {0},
                           flag : {0}, registered : {TRUE}, listener : {lsnr},
                           name : 0..MaxRec, opened : {FALSE}]
  BY <1>3, <1>4 DEF NewInstance
<1>6. \A v \in Recs : v # born + 1 =>
        inst'[v] = IF v = slot THEN [inst[v] EXCEPT !.switcher = 0] ELSE inst[v]
  BY <1>1, Zenon
<1>7. inst[born + 1].pc = "new" /\ ~inst[born + 1].registered
  BY <1>2, Known
<1>8. QED
  BY <1>2, <1>5, <1>6, <1>7, Known DEF Construct, Making

\* The steps of a recorder thread other than those that make an instance.
Works(v) ==
  \/ StartFile(v) \/ StartFails(v) \/ SwitcherTest(v) \/ GetFrame(v)
  \/ CountDown(v) \/ RecordFrame(v) \/ RecordFails(v) \/ DrainTest(v)
  \/ DrainSize(v) \/ StopFile(v) \/ StopFails(v) \/ RenameFile(v)
  \/ CleanUp(v) \/ NoRespawn(v)

\* The fields of an outcome.
LEMMA OutcomeFields ==
  ASSUME NEW i \in Instances, NEW to \in Outcomes(i)
  PROVE  /\ to \in Instances /\ to.registered = i.registered
         /\ to.listener = i.listener /\ to.flag = i.flag /\ to.name = i.name
         /\ to.switcher \in {i.switcher, 0} /\ to.pc = i.pc
BY DEF Outcomes, Instances

\* Such a step changes the place of its own instance, and turns it off at most.
LEMMA Worked ==
  ASSUME IInv, NEW v \in Recs, Works(v)
  PROVE  /\ \A w \in Recs : w # v => inst'[w] = inst[w]
         /\ inst'[v] \in Instances
         /\ inst'[v].registered = inst[v].registered
         /\ inst'[v].listener = inst[v].listener
         /\ inst'[v].flag = inst[v].flag /\ inst'[v].name = inst[v].name
         /\ inst'[v].switcher \in {inst[v].switcher, 0}
         /\ inst[v].pc # "new" /\ inst'[v].pc # "new"
         /\ UNCHANGED <<born, slot, mk, cam, mainvars>>
<1>1. inst \in [Recs -> Instances] /\ inst[v] \in Instances
  BY Known
<1> DEFINE Step(to) == \E from \in RecPcs \ {"new"} : RecStep(v, from, to)
           Outcome(p) == \E to \in Outcomes(At(v, p)) : Step(to)
<1>2. inst[v].mode \in {"loop", "drain"}
  BY <1>1 DEF Instances
<1>3. \E p \in RecPcs \ {"new"} : Outcome(p)
  <2>1. CASE StartFile(v)
    <3>1. Outcome("loop")
      BY <2>1 DEF StartFile, RecPcs, Outcomes
    <3>2. QED
      BY <1>2, <3>1 DEF RecPcs
  <2>2. CASE StartFails(v)
    <3>1. Outcome("loop")
      BY <2>2 DEF StartFails, RecPcs, Outcomes
    <3>2. QED
      BY <1>2, <3>1 DEF RecPcs
  <2>3. CASE SwitcherTest(v)
    <3>1. Outcome("take") \/ Outcome("drain")
      BY <2>3 DEF SwitcherTest, RecPcs, Outcomes
    <3>2. QED
      BY <1>2, <3>1 DEF RecPcs
  <2>4. CASE GetFrame(v)
    <3>1. Outcome("taking")
      BY <2>4 DEF GetFrame, RecPcs, Outcomes
    <3>2. QED
      BY <1>2, <3>1 DEF RecPcs
  <2>5. CASE CountDown(v)
    <3>1. Outcome("taking") \/ Outcome("record")
      BY <2>5 DEF CountDown, RecPcs, Outcomes
    <3>2. QED
      BY <1>2, <3>1 DEF RecPcs
  <2>6. CASE RecordFrame(v)
    <3>1. Outcome(inst[v].mode)
      BY <2>6 DEF RecordFrame, RecPcs, Outcomes
    <3>2. QED
      BY <1>2, <3>1 DEF RecPcs
  <2>7. CASE RecordFails(v)
    <3>1. Outcome(inst[v].mode) \/ Outcome("crashed")
      BY <2>7 DEF RecordFails, RecPcs, Outcomes
    <3>2. QED
      BY <1>2, <3>1 DEF RecPcs
  <2>8. CASE DrainTest(v)
    <3>1. Outcome("drainSize") \/ Outcome("stop")
      BY <2>8 DEF DrainTest, RecPcs, Outcomes
    <3>2. QED
      BY <1>2, <3>1 DEF RecPcs
  <2>9. CASE DrainSize(v)
    <3>1. Outcome("stop") \/ Outcome("take")
      BY <2>9 DEF DrainSize, RecPcs, Outcomes
    <3>2. QED
      BY <1>2, <3>1 DEF RecPcs
  <2>10. CASE StopFile(v)
    <3>1. Outcome("rename")
      BY <2>10 DEF StopFile, RecPcs, Outcomes
    <3>2. QED
      BY <1>2, <3>1 DEF RecPcs
  <2>11. CASE StopFails(v)
    <3>1. Outcome("error")
      BY <2>11 DEF StopFails, RecPcs, Outcomes
    <3>2. QED
      BY <1>2, <3>1 DEF RecPcs
  <2>12. CASE RenameFile(v)
    <3>1. Outcome("done") \/ Outcome("crashed")
      BY <2>12 DEF RenameFile, RecPcs, Outcomes
    <3>2. QED
      BY <1>2, <3>1 DEF RecPcs
  <2>13. CASE CleanUp(v)
    <3>1. Outcome("respawn") \/ Outcome("crashed")
      BY <2>13 DEF CleanUp, RecPcs, Outcomes
    <3>2. QED
      BY <1>2, <3>1 DEF RecPcs
  <2>14. CASE NoRespawn(v)
    <3>1. Outcome("done")
      BY <2>14 DEF NoRespawn, RecPcs, Outcomes
    <3>2. QED
      BY <1>2, <3>1 DEF RecPcs
  <2>15. QED
    BY <2>1, <2>2, <2>3, <2>4, <2>5, <2>6, <2>7, <2>8, <2>9, <2>10, <2>11, <2>12, <2>13, <2>14 DEF Works
<1>4. PICK p \in RecPcs \ {"new"} : Outcome(p)
  BY <1>3
<1>5. PICK to \in Outcomes(At(v, p)) : Step(to)
  BY <1>4
<1>6. PICK from \in RecPcs \ {"new"} : RecStep(v, from, to)
  BY <1>5
<1>7. inst' = [inst EXCEPT ![v] = to] /\ inst[v].pc = from
      /\ UNCHANGED <<born, slot, mk, cam, mainvars>>
  BY <1>6 DEF RecStep
<1>8. /\ to \in Instances /\ to.registered = inst[v].registered
      /\ to.listener = inst[v].listener /\ to.flag = inst[v].flag
      /\ to.name = inst[v].name /\ to.switcher \in {inst[v].switcher, 0}
      /\ to.pc = p
  <2>1. /\ At(v, p) \in Instances /\ At(v, p).registered = inst[v].registered
        /\ At(v, p).listener = inst[v].listener /\ At(v, p).flag = inst[v].flag
        /\ At(v, p).name = inst[v].name /\ At(v, p).switcher = inst[v].switcher
        /\ At(v, p).pc = p
    BY <1>1 DEF Instances, At
  <2>2. QED
    BY <1>5, <2>1, OutcomeFields
<1>9. QED
  BY <1>1, <1>6, <1>7, <1>8

-----------------------------------------------------------------------------

\* The steps of a camera thread other than those that make an instance.
Turns(c) ==
  Grab(c) \/ LoopTest(c) \/ QueueStep(c) \/ NextTurn(c) \/ CameraCrashes(c)

\* Such a step moves the thread, but not while it makes an instance.
LEMMA Turned ==
  ASSUME IInv, NEW c \in Cams, Turns(c)
  PROVE  /\ UNCHANGED <<inst, born, slot, mk, mainvars, faults, filevars>>
         /\ \A d \in Cams : d # c => cam'[d] = cam[d]
         /\ cam'[c].own = cam[c].own
         /\ Starting(c)' => Starting(c)
         /\ cam'[c] = cam[c] \/ ~(cam[c].pc = "added" /\ cam[c].own = 0)
         /\ cam'[c].pc = "off" => cam[c].pc = "off"
<1>1. cam \in [Cams -> Cameras] /\ cam[c] \in Cameras
  BY Known
<1>2. CASE QueueStep(c)
  BY <1>2 DEF QueueStep, Starting
<1>3. CASE Grab(c) \/ LoopTest(c) \/ NextTurn(c) \/ CameraCrashes(c)
  <2>1. PICK from \in {"loop", "grab", "added"}, to \in {"loop", "grab", "added", "ended", "crashed"} :
          CamStep(c, from, to) /\ (from = "added" => cam[c].own # 0)
    BY <1>3 DEF Grab, LoopTest, NextTurn, CameraCrashes, CamStep
  <2>2. /\ cam[c].pc = from /\ cam' = [cam EXCEPT ![c].pc = to]
        /\ UNCHANGED <<inst, born, slot, mk, mainvars, faults, filevars>>
    BY <2>1 DEF CamStep
  <2>3. /\ \A d \in Cams : d # c => cam'[d] = cam[d]
        /\ cam'[c].own = cam[c].own /\ cam'[c].pc = to
    BY <1>1, <2>2 DEF Cameras
  <2>4. QED
    BY <2>1, <2>2, <2>3 DEF Starting
<1>4. QED
  BY <1>2, <1>3 DEF Turns

\* A camera thread that makes its first instance is starting.
LEMMA MakersStart ==
  ASSUME Makers, NEW c \in Cams, Making(c)
  PROVE  Starting(c)
BY DEF Makers, Starting

\* The turns of a camera thread.
LEMMA CalmTurn ==
  ASSUME IInv, CalmInv, NEW c \in Cams, Turns(c)
  PROVE  CalmInv'
<1>1. /\ UNCHANGED <<inst, born, slot, mk, mpc, looper, raw>>
      /\ \A d \in Cams : d # c => cam'[d] = cam[d]
      /\ cam'[c].own = cam[c].own
      /\ Starting(c)' => Starting(c)
      /\ cam'[c] = cam[c] \/ ~(cam[c].pc = "added" /\ cam[c].own = 0)
  BY Turned DEF mainvars, filevars
<1>2. Makers'
  BY <1>1 DEF CalmInv, Makers, Making
<1>3. Undisturbed'
  <2>1. \A d \in Cams : Starting(d)' => Starting(d)
    BY <1>1 DEF Starting
  <2>2. QED
    BY <1>1, <2>1 DEF CalmInv, Undisturbed
<1>4. Listened' /\ Unfinished'
  BY <1>1 DEF CalmInv, Listened, Unfinished
<1>5. QED
  BY <1>2, <1>3, <1>4 DEF CalmInv

\* The constructor, wherever it is called.
LEMMA CalmConstruct ==
  ASSUME IInv, CalmInv, NEW t \in Workers, NEW lsnr \in BOOLEAN, Construct(t, lsnr),
         lsnr \/ t \in Cams, UNCHANGED <<cam, looper>>,
         mpc' = mpc \/ ~\E c \in Cams : Starting(c),
         t \in Cams => cam[t].pc = "added" /\ cam[t].own = 0,
         t = Main \/ Making(Main) => mpc' = "switchOff"
  PROVE  CalmInv'
<1>1. /\ ~Making(t) /\ mk'[t].pc = "slot" /\ mk'[t].kid = born + 1
      /\ \A u \in Workers : u # t => mk'[u] = mk[u]
      /\ born' = born + 1 /\ born + 1 \in Recs /\ born + 1 \notin 1..born
      /\ inst'[born + 1].pc = "new" /\ inst'[born + 1].listener = lsnr
      /\ \A v \in Recs : v # born + 1 =>
              inst'[v] = IF v = slot THEN [inst[v] EXCEPT !.switcher = 0] ELSE inst[v]
      /\ inst[born + 1].pc = "new" /\ raw' = raw
  BY Constructed DEF filevars
<1>2. Cams \subseteq Workers /\ Main \in Workers /\ born \in Nat
  BY Sets, Known
<1>3. ASSUME NEW v \in Recs, v # born + 1
      PROVE  /\ inst'[v].pc = inst[v].pc /\ inst'[v].listener = inst[v].listener
             /\ inst'[v].name = inst[v].name
  <2>1. inst[v] \in Instances
    BY Known
  <2>2. inst'[v] = IF v = slot THEN [inst[v] EXCEPT !.switcher = 0] ELSE inst[v]
    BY <1>1, <1>3
  <2>3. QED
    BY <2>1, <2>2, OffFields
<1>4. Makers'
  BY <1>1, <1>2 DEF CalmInv, Makers, Making
<1>5. Undisturbed'
  BY DEF CalmInv, Undisturbed, Starting
<1>6. Listened'
  <2> SUFFICES ASSUME NEW v \in (1..born)'
               PROVE  (inst[v].listener
                        \/ \E c \in Cams : mk[c].pc \in {"slot", "listen"} /\ mk[c].kid = v)'
    BY DEF Listened
  <2>1. CASE v = born + 1
    BY <1>1, <2>1
  <2>2. CASE v # born + 1
    <3>1. v \in 1..born /\ v \in Recs
      BY <1>1, <1>2, <2>2, Known
    <3>2. inst'[v].listener = inst[v].listener
      BY <1>3, <2>2, <3>1
    <3>3. CASE inst[v].listener
      BY <3>2, <3>3
    <3>4. ASSUME NEW c \in Cams, mk[c].pc \in {"slot", "listen"}, mk[c].kid = v
          PROVE  mk'[c].pc \in {"slot", "listen"} /\ mk'[c].kid = v
      BY <1>1, <1>2, <3>4 DEF Making
    <3>5. QED
      BY <3>1, <3>3, <3>4 DEF CalmInv, Listened
  <2>3. QED
    BY <2>1, <2>2
<1>7. Unfinished'
  BY <1>1, <1>3 DEF CalmInv, Unfinished
<1>8. QED
  BY <1>4, <1>5, <1>6, <1>7 DEF CalmInv

\* Whoever runs has a listener, unless it is being made; so does whoever is
\* there while the main thread is at work.
LEMMA HasListener ==
  ASSUME IInv, CalmInv, NEW v \in Recs, v \in 1..born,
         inst[v].pc # "new" \/ ~\E c \in Cams : Starting(c)
  PROVE  inst[v].listener
<1>1. SUFFICES ASSUME NEW c \in Cams, mk[c].pc \in {"slot", "listen"}, mk[c].kid = v
               PROVE  FALSE
  BY DEF CalmInv, Listened
<1>2. Making(c) /\ c \in Workers
  BY <1>1, Sets DEF Making
<1>3. Starting(c)
  BY <1>2, MakersStart DEF CalmInv
<1>4. inst[v].pc = "new"
  BY <1>1, <1>2, Known
<1>5. QED
  BY <1>3, <1>4

\* The three callers of the constructor.
LEMMA CalmCreates ==
  ASSUME IInv, CalmInv, (\E c \in Cams : CameraCreates(c)) \/ Restart \/ (\E v \in Recs : Respawn(v))
  PROVE  CalmInv'
<1>1. ASSUME NEW c \in Cams, CameraCreates(c) PROVE CalmInv'
  <2>1. /\ Construct(c, FALSE) /\ cam[c].pc = "added" /\ cam[c].own = 0
        /\ UNCHANGED <<cam, looper, mpc>>
    BY <1>1 DEF CameraCreates, mainvars
  <2>2. c \in Workers /\ c # Main
    BY Sets
  <2>3. Making(Main) => mpc' = "switchOff"
    BY <2>1 DEF CalmInv, Makers
  <2>4. QED
    BY <2>1, <2>2, <2>3, CalmConstruct
<1>2. CASE Restart
  <2>1. /\ mpc = "restart" /\ mpc' = "switchOff" /\ UNCHANGED <<cam, looper>>
        /\ Construct(Main, inst[mv].listener)
    BY <1>2 DEF Restart, MainStep
  <2>2. ~\E c \in Cams : Starting(c)
    BY <2>1 DEF CalmInv, Undisturbed
  <2>3. mv \in 1..born /\ mv \in Recs
    BY <2>1, Known
  <2>4. inst[mv].listener /\ inst[mv].listener \in BOOLEAN
    BY <2>2, <2>3, HasListener, Known DEF Instances
  <2>5. QED
    BY <2>1, <2>2, <2>4, CalmConstruct, Sets
<1>3. ASSUME NEW v \in Recs, Respawn(v) PROVE CalmInv'
  <2>1. /\ inst[v].pc = "respawn" /\ Construct(v, inst[v].listener)
        /\ UNCHANGED <<cam, looper, mpc>>
    BY <1>3 DEF Respawn, mainvars
  <2>2. v \in 1..born
    BY <2>1, Known
  <2>3. inst[v].listener /\ inst[v].listener \in BOOLEAN
    BY <2>1, <2>2, HasListener, Known DEF Instances
  <2>4. v \in Workers /\ v # Main /\ v \notin Cams
    BY Sets
  <2>5. Making(Main) => mpc' = "switchOff"
    BY <2>1 DEF CalmInv, Makers
  <2>6. QED
    BY <2>1, <2>3, <2>4, <2>5, CalmConstruct
<1>4. QED
  BY <1>1, <1>2, <1>3

\* The steps from the constructor to the start.
LEMMA CalmMake ==
  ASSUME IInv, CalmInv, NEW t \in Workers,
         TakeSlot(t) \/ Start(t) \/ (t \in Cams /\ SetListener(t))
  PROVE  CalmInv'
<1> DEFINE k == mk[t].kid
<1>1. /\ Making(t) /\ k \in 1..born /\ k \in Recs /\ inst[k].pc = "new" /\ k # 0
      /\ inst[k] \in Instances
  BY Known DEF TakeSlot, Start, SetListener, Making
<1>2. Cams \subseteq Workers /\ Main \in Workers /\ Main \notin Cams
  BY Sets
<1>3. UNCHANGED <<born, mpc, looper, raw>>
  BY DEF TakeSlot, Start, SetListener, mainvars, filevars
<1>4. CASE TakeSlot(t)
  <2>1. /\ mk[t].pc = "slot" /\ UNCHANGED <<inst, cam>>
        /\ mk' = [mk EXCEPT ![t].pc = IF t \in Cams THEN "listen" ELSE "start"]
    BY <1>4 DEF TakeSlot
  <2>2. /\ \A u \in Workers : u # t => mk'[u] = mk[u]
        /\ mk'[t].kid = k /\ mk'[t].pc = IF t \in Cams THEN "listen" ELSE "start"
    BY <2>1, Known
  <2> HIDE DEF k
  <2>3. Makers'
    BY <1>1, <1>2, <1>3, <2>1, <2>2 DEF CalmInv, Makers, Making
  <2>4. Undisturbed' /\ Unfinished'
    BY <1>3, <2>1 DEF CalmInv, Undisturbed, Starting, Unfinished
  <2>5. Listened'
    <3>1. \A c \in Cams : mk[c].pc \in {"slot", "listen"} =>
            mk'[c].pc \in {"slot", "listen"} /\ mk'[c].kid = mk[c].kid
      BY <1>2, <2>2 DEF k
    <3>2. QED
      BY <1>3, <2>1, <3>1 DEF CalmInv, Listened
  <2>6. QED
    BY <2>3, <2>4, <2>5 DEF CalmInv
<1>5. CASE t \in Cams /\ SetListener(t)
  <2>1. /\ mk[t].pc = "listen" /\ UNCHANGED cam
        /\ inst' = [inst EXCEPT ![k].listener = TRUE]
        /\ mk' = [mk EXCEPT ![t].pc = "start"]
    BY <1>5 DEF SetListener
  <2>2. /\ \A u \in Workers : u # t => mk'[u] = mk[u]
        /\ mk'[t].kid = k /\ mk'[t].pc = "start"
    BY <2>1, Known
  <2>3. /\ \A v \in Recs : v # k => inst'[v] = inst[v]
        /\ inst'[k].listener /\ inst'[k].pc = "new" /\ inst'[k].name = inst[k].name
    BY <1>1, <2>1, Known DEF Instances
  <2> HIDE DEF k
  <2>4. Makers'
    BY <1>1, <1>2, <1>3, <1>5, <2>1, <2>2 DEF CalmInv, Makers, Making
  <2>5. Undisturbed'
    BY <1>3, <2>1 DEF CalmInv, Undisturbed, Starting
  <2>6. Unfinished'
    BY <1>1, <1>3, <2>3 DEF CalmInv, Unfinished
  <2>7. Listened'
    <3>1. \A v \in 1..born : v \in Recs
      BY Known
    <3>2. \A c \in Cams : c # t => mk'[c] = mk[c]
      BY <1>2, <2>2
    <3>3. \A v \in 1..born : v # k =>
            inst'[v].listener \/ \E c \in Cams : mk'[c].pc \in {"slot", "listen"} /\ mk'[c].kid = v
      BY <2>3, <3>1, <3>2 DEF CalmInv, Listened, k
    <3>4. QED
      BY <1>3, <2>3, <3>3 DEF Listened
  <2>8. QED
    BY <2>4, <2>5, <2>6, <2>7 DEF CalmInv
<1>6. CASE Start(t)
  <2>1. /\ mk[t].pc = "start"
        /\ inst' = [v \in Recs |->
             IF v = k THEN [inst[v] EXCEPT !.switcher = 1, !.pc = "starting"]
             ELSE IF v = t THEN [inst[v] EXCEPT !.pc = "done"] ELSE inst[v]]
        /\ mk' = [mk EXCEPT ![t] = [pc |-> "none", kid |-> 0]]
        /\ cam' = IF t \in Cams
                  THEN [cam EXCEPT ![t] = [@ EXCEPT !.own = k, !.pc = "loop"]] ELSE cam
    BY <1>6 DEF Start
  <2>2. /\ \A u \in Workers : u # t => mk'[u] = mk[u]
        /\ mk'[t].kid = 0 /\ mk'[t].pc = "none"
    BY <2>1, Known
  <2>3. /\ \A v \in Recs : inst'[v].listener = inst[v].listener
                           /\ inst'[v].name = inst[v].name
        /\ \A v \in Recs : v # k /\ v # t => inst'[v] = inst[v]
        /\ inst'[k].pc = "starting"
    BY <1>1, <2>1, Known DEF Instances
  <2>4. \A c \in Cams : /\ c # t => cam'[c] = cam[c]
                        /\ c = t => cam'[c].own # 0
    BY <1>1, <2>1, Known DEF Cameras
  <2> HIDE DEF k
  <2>5. Makers'
    BY <1>1, <1>2, <1>3, <2>2, <2>4 DEF CalmInv, Makers, Making
  <2>6. Undisturbed'
    <3>1. \A c \in Cams : Starting(c)' => Starting(c)
      BY <2>4 DEF Starting
    <3>2. QED
      BY <1>3, <3>1 DEF CalmInv, Undisturbed
  <2>7. Listened'
    <3>1. \A v \in 1..born : v \in Recs
      BY Known
    <3>2. \A c \in Cams : mk[c].pc \in {"slot", "listen"} => mk'[c] = mk[c]
      BY <1>2, <2>1, <2>2
    <3>3. QED
      BY <1>3, <2>3, <3>1, <3>2 DEF CalmInv, Listened
  <2>8. Unfinished'
    <3>1. t \in Recs => inst[t].pc = "respawn"
      BY <1>1, Known
    <3>2. QED
      BY <1>1, <1>3, <2>3, <3>1 DEF CalmInv, Unfinished
  <2>9. QED
    BY <2>5, <2>6, <2>7, <2>8 DEF CalmInv
<1>7. QED
  BY <1>4, <1>5, <1>6

\* The work of a recorder thread: it may give files their final names, and
\* when it ends it has done so for its own.
LEMMA CalmWork ==
  ASSUME IInv, CalmInv, Calm, NEW v \in Recs, Works(v)
  PROVE  CalmInv'
<1>1. /\ \A w \in Recs : w # v => inst'[w] = inst[w]
      /\ inst'[v].listener = inst[v].listener /\ inst'[v].name = inst[v].name
      /\ inst[v].pc # "new" /\ inst'[v].pc # "new"
      /\ UNCHANGED <<born, slot, mk, cam, mpc, looper>>
  BY Worked DEF mainvars
<1>2. Makers' /\ Undisturbed'
  BY <1>1 DEF CalmInv, Makers, Making, Undisturbed, Starting
<1>3. Listened'
  <2>1. \A w \in 1..born : w \in Recs
    BY Known
  <2>2. QED
    BY <1>1, <2>1 DEF CalmInv, Listened
<1>4. Unfinished'
  <2>1. v \in 1..born
    BY <1>1, Known
  <2>2. inst[v].listener
    BY <1>1, <2>1, HasListener
  <2>3. raw \in [Recs -> SUBSET Recs] /\ inst[v].name \in Recs
    <3>1. \A w \in 1..born : inst[w].name \in 1..w
      BY DEF IInv, TypeOK
    <3>2. QED
      BY <2>1, <3>1, Known, Sets DEF Recs
  <2> DEFINE Ends(w) == w \in {"new", "respawn", "done", "crashed"}
  <2>4. ~Ends(inst[v].pc) \/ inst[v].pc = "respawn"
    BY DEF Works, StartFile, StartFails, SwitcherTest, GetFrame, CountDown,
      RecordFrame, RecordFails, DrainTest, DrainSize, StopFile, StopFails,
      RenameFile, CleanUp, NoRespawn, RecStep
  <2>5. CASE UNCHANGED raw /\ (Ends(inst'[v].pc) => inst[v].pc = "respawn")
    BY <1>1, <2>5 DEF CalmInv, Unfinished
  <2>6. CASE raw' = [raw EXCEPT ![inst[v].name] = @ \cup {v}] /\ ~Ends(inst'[v].pc)
             /\ ~Ends(inst[v].pc)
    BY <1>1, <2>3, <2>6 DEF CalmInv, Unfinished
  <2>7. CASE raw' = [raw EXCEPT ![inst[v].name] = {}]
    BY <1>1, <2>3, <2>7 DEF CalmInv, Unfinished
  <2>8. CASE StartFile(v)
    <3>1. inst[v].pc = "starting" /\ inst'[v].pc = "loop"
      BY <2>8, Known DEF StartFile, RecStep, At, Instances
    <3>2. raw' = [raw EXCEPT ![inst[v].name] = @ \cup {v}]
      BY <2>8 DEF StartFile
    <3>3. QED
      BY <2>6, <3>1, <3>2
  <2>9. CASE RecordFails(v) \/ RenameFile(v) \/ CleanUp(v)
    BY <2>2, <2>7, <2>9 DEF RecordFails, RenameFile, CleanUp, Finalise
  <2>10. CASE StartFails(v) \/ SwitcherTest(v) \/ GetFrame(v) \/ CountDown(v)
              \/ RecordFrame(v) \/ DrainTest(v) \/ DrainSize(v) \/ StopFile(v)
              \/ StopFails(v) \/ NoRespawn(v)
    <3>1. UNCHANGED raw
      BY <2>10 DEF StartFails, SwitcherTest, GetFrame, CountDown, RecordFrame,
        DrainTest, DrainSize, StopFile, StopFails, NoRespawn, filevars
    <3>2. inst[v].mode \in {"loop", "drain"} /\ inst[v] \in Instances
      BY Known DEF Instances
    <3>3. Ends(inst'[v].pc) => inst[v].pc = "respawn"
      <4>1. inst \in [Recs -> Instances]
        BY Known
      <4>2. CASE StartFails(v)
        BY <3>2, <4>1, <4>2 DEF StartFails, RecStep, At, Instances
      <4>3. CASE SwitcherTest(v)
        BY <3>2, <4>1, <4>3 DEF SwitcherTest, RecStep, At, Instances
      <4>4. CASE GetFrame(v)
        BY <3>2, <4>1, <4>4 DEF GetFrame, RecStep, At, Instances
      <4>5. CASE CountDown(v)
        BY <3>2, <4>1, <4>5 DEF CountDown, RecStep, At, Instances
      <4>6. CASE RecordFrame(v)
        BY <3>2, <4>1, <4>6 DEF RecordFrame, RecStep, At, Instances
      <4>7. CASE DrainTest(v)
        BY <3>2, <4>1, <4>7 DEF DrainTest, RecStep, At, Instances
      <4>8. CASE DrainSize(v)
        BY <3>2, <4>1, <4>8 DEF DrainSize, RecStep, At, Instances
      <4>9. CASE StopFile(v)
        BY <3>2, <4>1, <4>9 DEF StopFile, RecStep, At, Instances
      <4>10. CASE StopFails(v)
        BY <3>2, <4>1, <4>10 DEF StopFails, RecStep, At, Instances
      <4>11. CASE NoRespawn(v)
        BY <3>2, <4>1, <4>11 DEF NoRespawn, RecStep, At, Instances
      <4>12. QED
        BY <2>10, <4>2, <4>3, <4>4, <4>5, <4>6, <4>7, <4>8, <4>9, <4>10, <4>11
    <3>4. QED
      BY <2>5, <3>1, <3>3
  <2>11. QED
    BY <2>8, <2>9, <2>10 DEF Works
<1>5. QED
  BY <1>2, <1>3, <1>4 DEF CalmInv

\* The commands and the broadcasts, of which there are none while a camera
\* thread starts its first recorder.
MainWorks ==
  \/ MarkStop \/ StopSlot \/ Drop \/ NoRestart \/ SwitchOff \/ CloseCamera
  \/ (\E v \in Recs : DeliverSwitch(v))
  \/ (\E c \in Cams : DeliverStop(c))
  \/ PressStop \/ SendFileSwitch

\* Such a step neither moves a camera thread nor makes an instance, and the
\* main thread does not leave a file switch while it makes one.
LEMMA MainWorked ==
  ASSUME IInv, MainWorks
  PROVE  /\ UNCHANGED <<born, slot, mk, raw, kept, logged, faults>>
         /\ \A c \in Cams : cam'[c].pc = cam[c].pc /\ cam'[c].own = cam[c].own
         /\ \A v \in Recs :
              /\ inst'[v] \in Instances
              /\ inst'[v].pc = inst[v].pc /\ inst'[v].mode = inst[v].mode
              /\ inst'[v].listener = inst[v].listener
              /\ inst'[v].name = inst[v].name /\ inst'[v].opened = inst[v].opened
              /\ inst'[v].switcher \in {inst[v].switcher, 0}
         /\ mpc = "switchOff" => mk[Main].pc = "none"
<1>1. UNCHANGED <<born, slot, mk, raw, kept, logged, faults>>
  BY DEF MainWorks, MarkStop, StopSlot, Drop, NoRestart, SwitchOff, CloseCamera,
    DeliverSwitch, DeliverStop, PressStop, SendFileSwitch, MainStep, filevars
<1>2. \A c \in Cams : cam'[c].pc = cam[c].pc /\ cam'[c].own = cam[c].own
  <2>1. \/ UNCHANGED cam
        \/ \E c \in Cams : cam' = [cam EXCEPT ![c].flag = 0]
        \/ cam' = [cam EXCEPT ![mv] = [@ EXCEPT !.util = FALSE, !.registered = FALSE]]
    BY DEF MainWorks, MarkStop, StopSlot, Drop, NoRestart, SwitchOff, CloseCamera,
      DeliverSwitch, DeliverStop, PressStop, SendFileSwitch
  <2>2. ASSUME NEW c \in Cams PROVE cam'[c].pc = cam[c].pc /\ cam'[c].own = cam[c].own
    <3>1. cam[c] \in Cameras /\ cam \in [Cams -> Cameras]
      BY Known
    <3>2. cam'[c] \in {cam[c], [cam[c] EXCEPT !.flag = 0],
                       [cam[c] EXCEPT !.util = FALSE, !.registered = FALSE]}
      BY <2>1, <3>1
    <3>3. QED
      BY <3>1, <3>2 DEF Cameras
  <2>3. QED
    BY <2>2
<1>3. \/ UNCHANGED inst
      \/ inst' = [inst EXCEPT ![slot].flag = 1]
      \/ inst' = [inst EXCEPT ![slot].switcher = 0]
      \/ inst' = [inst EXCEPT ![mv] = [@ EXCEPT !.switcher = 0, !.registered = FALSE]]
  BY DEF MainWorks, MarkStop, StopSlot, Drop, NoRestart, SwitchOff, CloseCamera,
    DeliverSwitch, DeliverStop, PressStop, SendFileSwitch
<1>4. ASSUME NEW v \in Recs
      PROVE  /\ inst'[v] \in Instances
             /\ inst'[v].pc = inst[v].pc /\ inst'[v].mode = inst[v].mode
             /\ inst'[v].listener = inst[v].listener
             /\ inst'[v].name = inst[v].name /\ inst'[v].opened = inst[v].opened
             /\ inst'[v].switcher \in {inst[v].switcher, 0}
  <2>1. inst[v] \in Instances /\ inst \in [Recs -> Instances]
    BY Known
  <2>2. inst'[v] \in {inst[v], [inst[v] EXCEPT !.flag = 1],
                      [inst[v] EXCEPT !.switcher = 0],
                      [inst[v] EXCEPT !.switcher = 0, !.registered = FALSE]}
    BY <1>3, <2>1
  <2>3. QED
    BY <2>1, <2>2 DEF Instances
<1>5. mpc = "switchOff" => mk[Main].pc = "none"
  BY DEF MainWorks, MarkStop, StopSlot, Drop, NoRestart, SwitchOff, CloseCamera,
    DeliverSwitch, DeliverStop, PressStop, SendFileSwitch, MainStep
<1>6. QED
  BY <1>1, <1>2, <1>4, <1>5

\* The main thread is idle while a camera thread starts.
LEMMA CalmMain ==
  ASSUME IInv, CalmInv, Calm, MainWorks
  PROVE  CalmInv'
<1>1. /\ UNCHANGED <<born, mk, raw>>
      /\ \A c \in Cams : cam'[c].pc = cam[c].pc /\ cam'[c].own = cam[c].own
      /\ \A v \in Recs : /\ inst'[v].pc = inst[v].pc
                         /\ inst'[v].listener = inst[v].listener
                         /\ inst'[v].name = inst[v].name
      /\ mpc = "switchOff" => mk[Main].pc = "none"
  BY MainWorked
<1>2. ~\E c \in Cams : Starting(c)
  <2>1. MayAsk \/ mpc # "idle" \/ looper # <<>>
    BY DEF MainWorks, MarkStop, StopSlot, Drop, NoRestart, SwitchOff, CloseCamera,
      DeliverSwitch, DeliverStop, Deliver, PressStop, SendFileSwitch, MainStep
  <2>2. QED
    BY <2>1 DEF MayAsk, CalmInv, Undisturbed
<1>3. Makers'
  <2>1. ~Making(Main)
    BY <1>1 DEF CalmInv, Makers, Making
  <2>2. QED
    BY <1>1, <2>1 DEF CalmInv, Makers, Making
<1>4. Undisturbed'
  BY <1>1, <1>2 DEF Undisturbed, Starting
<1>5. Listened'
  <2>1. \A v \in 1..born : v \in Recs
    BY Known
  <2>2. QED
    BY <1>1, <2>1 DEF CalmInv, Listened
<1>6. Unfinished'
  BY <1>1 DEF CalmInv, Unfinished
<1>7. QED
  BY <1>3, <1>4, <1>5, <1>6 DEF CalmInv

\* A press of "record" starts one camera thread, when no other one starts.
LEMMA CalmPress ==
  ASSUME IInv, CalmInv, Calm, NEW c \in Cams, PressRecord(c)
  PROVE  CalmInv'
<1>1. /\ cam[c].pc = "off" /\ MayAsk /\ looper = <<>> /\ mpc = "idle" /\ mpc' = "idle"
      /\ UNCHANGED <<inst, born, slot, mk, looper, raw>>
  BY DEF PressRecord, MainStep, filevars
<1>2. /\ \A d \in Cams : d # c => cam'[d] = cam[d]
      /\ cam'[c].own = 0
  BY Known DEF PressRecord, NewCamera
<1>3. ~Making(c)
  BY <1>1 DEF CalmInv, Makers
<1>4. Makers'
  BY <1>1, <1>2, <1>3 DEF CalmInv, Makers, Making
<1>5. Undisturbed'
  <2>1. \A d \in Cams : d # c => ~Starting(d)'
    BY <1>1, <1>2 DEF MayAsk, Starting
  <2>2. QED
    BY <1>1, <2>1 DEF Undisturbed
<1>6. Listened' /\ Unfinished'
  BY <1>1 DEF CalmInv, Listened, Unfinished
<1>7. QED
  BY <1>4, <1>5, <1>6 DEF CalmInv

\* Every step is one of those.
LEMMA Steps ==
  ASSUME Next
  PROVE  \/ \E c \in Cams : Turns(c) \/ CameraCreates(c)
         \/ \E t \in Workers : TakeSlot(t) \/ Start(t) \/ (t \in Cams /\ SetListener(t))
         \/ \E v \in Recs : Works(v) \/ Respawn(v)
         \/ Restart \/ MainWorks
         \/ \E c \in Cams : PressRecord(c)
<1>1. Cams \subseteq Workers /\ Recs \subseteq Workers /\ Main \in Workers
  BY Sets
<1>2. CASE \E c \in Cams : Grab(c) \/ CameraGoesOn(c)
  BY <1>1, <1>2 DEF CameraGoesOn, Turns
<1>3. CASE \E v \in Recs : RecorderNext(v)
  BY <1>1, <1>3 DEF RecorderNext, Works
<1>4. CASE MainBusy \/ MainAsked
  BY <1>1, <1>4 DEF MainBusy, MainAsked, MainWorks
<1>5. QED
  BY <1>2, <1>3, <1>4 DEF Next

\* Every step keeps the invariant.
LEMMA CalmNext ==
  ASSUME IInv, CalmInv, Calm, [Next]_vars
  PROVE  CalmInv'
<1>1. CASE UNCHANGED vars
  BY <1>1 DEF vars, mainvars, filevars, CalmInv, Makers, Making, Undisturbed, Starting,
    Listened, Unfinished
<1>2. CASE Next
  BY <1>2, Steps, CalmTurn, CalmCreates, CalmMake, CalmWork, CalmMain, CalmPress
<1>3. QED
  BY <1>1, <1>2

\* It holds at the start.
LEMMA CalmInit == Init => CalmInv
BY Sets DEF Init, CalmInv, Makers, Making, Undisturbed, Starting, Listened, Unfinished,
  NewCamera, NewInstance

\* If nothing is asked of the program while a camera thread is about to start
\* its first recorder (Calm), a recorder thread that has ended, also by an
\* exception of FFmpeg, has left no file without its end time.
THEOREM FinalisedAlways == ASSUME Calm PROVE Spec => []FileFinalised
<1>1. CalmInv => FileFinalised
  BY DEF CalmInv, Unfinished, FileFinalised
<1>2. IInv /\ CalmInv /\ [Next]_vars => CalmInv'
  BY CalmNext
<1>3. QED
  BY <1>1, <1>2, CalmInit, InvCorrect, PTL DEF Spec

-----------------------------------------------------------------------------

\* The fields that tell who records and who answers.
Same(v) ==
  /\ inst'[v].switcher = inst[v].switcher /\ inst'[v].flag = inst[v].flag
  /\ inst'[v].registered = inst[v].registered

\* Instances are made one at a time.
LEMMA OneMaker ==
  ASSUME IInv, CalmInv, NoError, NEW t \in Workers, NEW u \in Workers,
         Making(t), Making(u)
  PROVE  t = u /\ t \notin Recs
<1>1. t \notin Recs /\ u \notin Recs
  BY Known DEF NoError
<1>2. t \in Cams \/ t = Main
  BY <1>1 DEF Workers
<1>3. u \in Cams \/ u = Main
  BY <1>1 DEF Workers
<1>4. t \in Cams => Starting(t) /\ mpc = "idle"
  BY MakersStart DEF CalmInv, Undisturbed
<1>5. u \in Cams => Starting(u) /\ mpc = "idle"
  BY MakersStart DEF CalmInv, Undisturbed
<1>6. QED
  BY <1>1, <1>2, <1>3, <1>4, <1>5 DEF CalmInv, Undisturbed, Makers

\* Nothing the invariant speaks of has changed.
LEMMA ControlQuiet ==
  ASSUME ControlInv, IInv, UNCHANGED <<born, slot, mk, mpc, stops>>,
         mv' = mv \/ mpc \notin {"restart", "switchOff"},
         \A v \in Recs : /\ Same(v) /\ inst'[v].pc = inst[v].pc
                         /\ inst'[v].mode = inst[v].mode,
         \A c \in Cams : /\ cam'[c].own \in {cam[c].own, 0}
                         /\ cam'[c].own = 0 => cam[c].own = 0 \/ cam[c].pc = "off"
                         /\ cam'[c].pc = "off" => cam[c].pc = "off"
  PROVE  ControlInv'
<1>1. \A v \in 1..born : v \in Recs
  BY Known
<1>2. NoError' /\ Draining'
  BY DEF ControlInv, NoError, Draining, Same
<1>3. Active'
  BY DEF ControlInv, Active, Making, Same
<1>4. Registered'
  <2>1. /\ mpc \in {"restart", "switchOff"} => mv \in Recs
        /\ \A t \in Workers : Making(t) => mk[t].kid \in Recs
    BY Known
  <2>2. QED
    BY <1>1, <2>1 DEF ControlInv, Registered, Making, Same
<1>5. Reader'
  <2>1. mpc \in {"restart", "switchOff"} => mv \in Recs
    BY Known
  <2>2. stops = 0 => HasReader'
    BY DEF ControlInv, Reader, HasReader, Same
  <2>3. QED
    BY <2>1, <2>2 DEF ControlInv, Reader, Making, Same
<1>6. OneCamera => Heirs'
  BY <1>1 DEF ControlInv, Heirs, Heir, Making, Same
<1>7. QED
  BY <1>2, <1>3, <1>4, <1>5, <1>6 DEF ControlInv, OneCamera

\* The turns of a camera thread, and a press of "record".
LEMMA ControlCamera ==
  ASSUME IInv, ControlInv, NEW c \in Cams, Turns(c) \/ PressRecord(c)
  PROVE  ControlInv'
<1>1. CASE Turns(c)
  <2>1. /\ UNCHANGED <<inst, born, slot, mk, mpc, mv, stops>>
        /\ \A d \in Cams : d # c => cam'[d] = cam[d]
        /\ cam'[c].own = cam[c].own
        /\ cam'[c].pc = "off" => cam[c].pc = "off"
    BY <1>1, Turned DEF mainvars
  <2>2. QED
    BY <2>1, ControlQuiet DEF Same
<1>2. CASE PressRecord(c)
  <2>1. /\ cam[c].pc = "off" /\ mpc' = mpc
        /\ UNCHANGED <<inst, born, slot, mk, stops>>
    BY <1>2 DEF PressRecord, MainStep
  <2>2. /\ \A d \in Cams : d # c => cam'[d] = cam[d]
        /\ cam'[c].own = 0 /\ cam'[c].pc # "off"
    <3>1. PICK found \in BOOLEAN :
            cam' = [cam EXCEPT ![c] = [NewCamera EXCEPT
              !.pc = IF found THEN "loop" ELSE "ended",
              !.flag = 1, !.registered = TRUE, !.util = TRUE]]
      BY <1>2 DEF PressRecord
    <3>2. cam \in [Cams -> Cameras]
      BY Known
    <3>3. QED
      BY <3>1, <3>2 DEF NewCamera
  <2>3. mpc = "idle"
    BY <1>2 DEF PressRecord, MainStep
  <2>4. QED
    BY <2>1, <2>2, <2>3, ControlQuiet DEF Same
<1>3. QED
  BY <1>1, <1>2

\* The constructor: it turns off the only one that can be on.
LEMMA ControlConstruct ==
  ASSUME IInv, CalmInv, ControlInv, NEW t \in Workers, NEW lsnr \in BOOLEAN,
         Construct(t, lsnr), UNCHANGED <<cam, stops, mv>>,
         \A u \in Workers : ~Making(u),
         \/ /\ t = Main /\ mpc = "restart" /\ mpc' = "switchOff"
            /\ inst[mv].flag = 0
         \/ t \in Cams /\ cam[t].own = 0 /\ cam[t].pc = "added"
            /\ mpc = "idle" /\ mpc' = "idle"
  PROVE  ControlInv'
<1> DEFINE n == born + 1
<1>1. /\ mk'[t].pc = "slot" /\ mk'[t].kid = n
      /\ \A u \in Workers : u # t => mk'[u] = mk[u]
      /\ born' = n /\ n \in Recs /\ n \notin 1..born
      /\ inst'[n].pc = "new" /\ inst'[n].mode = "loop" /\ inst'[n].switcher = 0
      /\ inst'[n].flag = 0 /\ inst'[n].registered
      /\ slot' = slot
  BY Constructed
<1>2. ASSUME NEW v \in Recs, v # n
      PROVE  /\ inst'[v].pc = inst[v].pc /\ inst'[v].mode = inst[v].mode
             /\ inst'[v].flag = inst[v].flag
             /\ inst'[v].registered = inst[v].registered
             /\ inst'[v].switcher = 0
  <2>1. inst[v] \in Instances
    BY Known
  <2>2. inst'[v] = IF v = slot THEN [inst[v] EXCEPT !.switcher = 0] ELSE inst[v]
    BY <1>2, Constructed
  <2>3. inst[v].switcher = 0 \/ v = slot
    BY <2>1 DEF ControlInv, Active, Instances
  <2>4. QED
    BY <2>1, <2>2, <2>3, OffFields
<1>3. \A v \in Recs : inst'[v].switcher = 0
  BY <1>1, <1>2
<1>4. born \in Nat /\ \A v \in 1..n : v = n \/ v \in 1..born
  BY Known
<1>5. \A v \in 1..born : v \in Recs /\ v # n
  BY <1>1, Known
<1>6. mpc \in {"restart", "switchOff"} => mv \in Recs /\ mv \in 1..born /\ mv # n
  BY <1>5, Known
<1> HIDE DEF n
<1>7. NoError'
  BY <1>1, <1>2 DEF ControlInv, NoError
<1>8. Active'
  <2>1. \A u \in Workers : mk'[u].pc \notin {"listen", "start"}
    BY <1>1 DEF Making
  <2>2. QED
    BY <1>3, <2>1 DEF Active
<1>9. Registered'
  <2>1. \A u \in Workers : Making(u)' => u = t
    BY <1>1 DEF Making
  <2>2. mpc' \in {"restart", "switchOff"} => inst'[mv].registered
    BY <1>2, <1>6 DEF ControlInv, Registered
  <2>3. \A v \in (1..born)' : inst'[v].switcher = 0
    BY <1>1, <1>3, <1>4, <1>5
  <2>4. QED
    BY <1>1, <2>1, <2>2, <2>3 DEF Registered
<1>10. Draining'
  BY <1>1, <1>2, <1>3 DEF ControlInv, Draining
<1>11. Reader'
  <2>1. HasReader'
    <3>1. n # 0
      BY <1>1, Sets DEF Recs
    <3>2. QED
      BY <1>1, <3>1 DEF HasReader
  <2>2. mpc' = "switchOff" => t = Main /\ mpc = "restart"
    OBVIOUS
  <2>3. mpc' \notin {"mark", "stop"}
    OBVIOUS
  <2>4. QED
    BY <1>1, <1>2, <1>3, <1>6, <2>1, <2>2, <2>3, Sets DEF ControlInv, Reader, Making
<1>12. OneCamera => Heirs'
  <2> HAVE OneCamera
  <2>1. Heirs
    BY DEF ControlInv
  <2>2. CASE t = Main /\ mpc = "restart" /\ mpc' = "switchOff" /\ inst[mv].flag = 0
    <3>1. Heir(mv) /\ mv \in 1..born
      BY <1>6, <2>2 DEF ControlInv, Registered, Heir
    <3>2. mv = slot /\ born # 0
      BY <1>4, <2>1, <2>2, <3>1 DEF Heirs
    <3>3. \A c \in Cams : cam[c].pc # "off" /\ cam[c].own # 0
      BY <2>1, <3>2, Sets DEF Heirs
    <3>4. \A v \in 1..born : Heir(v)' => v = mv
      BY <1>2, <1>5, <2>1, <2>2, <3>2 DEF Heirs, Heir
    <3>5. \A v \in (1..born)' : Heir(v)' => v = mv \/ v = n
      BY <1>1, <1>4, <3>4
    <3>6. Making(t)' /\ mk'[t].kid = n
      BY <1>1 DEF Making
    <3>7. QED
      BY <2>2, <3>3, <3>5, <3>6 DEF Heirs
  <2>3. CASE t \in Cams /\ cam[t].own = 0 /\ cam[t].pc = "added"
    <3>1. born = 0
      BY <2>1, <2>3 DEF Heirs
    <3>2. \A v \in (1..born)' : v = n
      BY <1>1, <1>4, <3>1
    <3>3. Making(t)' /\ mk'[t].kid = n
      BY <1>1 DEF Making
    <3>4. \A c \in Cams : c = t
      BY <2>3 DEF OneCamera
    <3>5. QED
      BY <2>3, <3>2, <3>3, <3>4 DEF Heirs
  <2>4. QED
    BY <2>2, <2>3
<1>13. QED
  BY <1>7, <1>8, <1>9, <1>10, <1>11, <1>12 DEF ControlInv, OneCamera

\* Its callers: the handler of an exception is not among them.
LEMMA ControlCreates ==
  ASSUME IInv, CalmInv, ControlInv,
         (\E c \in Cams : CameraCreates(c)) \/ Restart \/ (\E v \in Recs : Respawn(v))
  PROVE  ControlInv'
<1>1. ASSUME NEW v \in Recs PROVE ~Respawn(v)
  BY DEF Respawn, ControlInv, NoError
<1>2. CASE Restart
  <2>1. /\ mpc = "restart" /\ mpc' = "switchOff" /\ UNCHANGED <<cam, stops, mv>>
        /\ Construct(Main, inst[mv].listener) /\ inst[mv].flag = 0
    BY <1>2 DEF Restart, MainStep
  <2>2. ASSUME NEW u \in Workers, Making(u) PROVE FALSE
    <3>1. u \in Cams \/ u \in Recs \/ u = Main
      BY DEF Workers
    <3>2. QED
      BY <2>1, <2>2, <3>1, MakersStart, Known DEF CalmInv, Undisturbed, Makers,
        ControlInv, NoError
  <2>3. inst[mv].listener \in BOOLEAN
    BY <2>1, Known DEF Instances
  <2>4. QED
    BY <2>1, <2>2, <2>3, ControlConstruct, Sets
<1>3. ASSUME NEW c \in Cams, CameraCreates(c) PROVE ControlInv'
  <2>1. /\ cam[c].pc = "added" /\ cam[c].own = 0 /\ Construct(c, FALSE)
        /\ UNCHANGED <<cam, mpc, mv, stops>>
    BY <1>3 DEF CameraCreates, mainvars
  <2>2. Starting(c) /\ mpc = "idle"
    BY <2>1 DEF Starting, CalmInv, Undisturbed
  <2>3. ~Making(c)
    BY <2>1 DEF Construct, Making
  <2>4. ASSUME NEW u \in Workers, Making(u) PROVE FALSE
    <3>1. u \in Cams \/ u \in Recs \/ u = Main
      BY DEF Workers
    <3>2. u \in Cams => u = c
      BY <2>2, <2>4, MakersStart DEF CalmInv, Undisturbed
    <3>3. QED
      BY <2>2, <2>3, <2>4, <3>1, <3>2, Known DEF CalmInv, Makers, ControlInv, NoError
  <2>5. QED
    BY <2>1, <2>2, <2>4, ControlConstruct, Sets
<1>4. QED
  BY <1>1, <1>2, <1>3

\* From the constructor to the start: what is started is in the slot.
LEMMA ControlMake ==
  ASSUME IInv, CalmInv, ControlInv, NEW t \in Workers,
         TakeSlot(t) \/ Start(t) \/ (t \in Cams /\ SetListener(t))
  PROVE  ControlInv'
<1> DEFINE k == mk[t].kid
<1>1. /\ Making(t) /\ k \in 1..born /\ k \in Recs /\ inst[k].pc = "new" /\ k # 0
      /\ inst[k] \in Instances
  BY Known DEF TakeSlot, Start, SetListener, Making
<1>2. /\ \A u \in Workers : Making(u) => u = t
      /\ t \notin Recs
  BY <1>1, OneMaker DEF ControlInv
<1>3. \A v \in Recs : inst[v].switcher = 0
  BY <1>1, Known DEF ControlInv, Active, Instances
<1>4. UNCHANGED <<born, mpc, mv, stops>> /\ Main \in Workers
  BY Sets DEF TakeSlot, Start, SetListener, mainvars
<1>5. \A v \in 1..born : v \in Recs
  BY Known
<1>6. mpc = "switchOff" => mv \in Recs
  BY Known
<1>7. CASE TakeSlot(t)
  <2>1. /\ mk[t].pc = "slot" /\ UNCHANGED <<inst, cam>> /\ slot' = k
        /\ mk' = [mk EXCEPT ![t].pc = IF t \in Cams THEN "listen" ELSE "start"]
    BY <1>7 DEF TakeSlot
  <2>2. /\ \A u \in Workers : u # t => mk'[u] = mk[u]
        /\ mk'[t].kid = k /\ mk'[t].pc \in {"listen", "start"}
    BY <2>1, Known
  <2>3. \A u \in Workers : Making(u)' <=> Making(u)
    BY <1>1, <2>2 DEF Making
  <2>4. \A u \in Workers : Making(u) => mk'[u].kid = mk[u].kid
    BY <2>2
  <2> HIDE DEF k
  <2>5. NoError' /\ Draining'
    BY <2>1 DEF ControlInv, NoError, Draining
  <2>6. Active'
    <3>1. \A u \in Workers : mk'[u].pc \in {"listen", "start"} => u = t
      BY <1>2, <2>2 DEF Making
    <3>2. QED
      BY <1>3, <2>1, <2>2, <3>1 DEF Active
  <2>7. Registered'
    BY <1>4, <2>1, <2>3, <2>4 DEF ControlInv, Registered
  <2>8. Reader'
    <3>1. HasReader'
      BY <1>1, <2>2 DEF HasReader
    <3>2. QED
      BY <1>4, <2>1, <2>3, <2>4, <3>1 DEF ControlInv, Reader
  <2>9. OneCamera => Heirs'
    <3> HAVE OneCamera
    <3>1. \A v \in 1..born : Heir(v) =>
            \/ mpc = "switchOff" /\ v = mv
            \/ \E u \in Workers : Making(u) /\ v = mk[u].kid
      BY <1>1 DEF ControlInv, Heirs
    <3>2. \A v \in 1..born : Heir(v)' => Heir(v)
      BY <2>1 DEF Heir
    <3>3. \A c \in Cams : Making(c)' <=> Making(c)
      BY <2>3, Sets
    <3>4. \A c \in Cams : cam[c].pc = "off" \/ (cam[c].own = 0 /\ ~Making(c)) => born = 0
      BY DEF ControlInv, Heirs
    <3>5. QED
      BY <1>4, <2>1, <2>3, <2>4, <3>1, <3>2, <3>3, <3>4 DEF Heirs
  <2>10. QED
    BY <2>5, <2>6, <2>7, <2>8, <2>9 DEF ControlInv, OneCamera
<1>8. CASE t \in Cams /\ SetListener(t)
  <2>1. /\ mk[t].pc = "listen" /\ UNCHANGED <<cam, slot>>
        /\ inst' = [inst EXCEPT ![k].listener = TRUE]
        /\ mk' = [mk EXCEPT ![t].pc = "start"]
    BY <1>8 DEF SetListener
  <2>2. /\ \A u \in Workers : u # t => mk'[u] = mk[u]
        /\ mk'[t].kid = k /\ mk'[t].pc = "start"
    BY <2>1, Known
  <2>3. \A v \in Recs : Same(v) /\ inst'[v].pc = inst[v].pc /\ inst'[v].mode = inst[v].mode
    BY <1>1, <2>1, Known DEF Same, Instances
  <2>4. \A u \in Workers : Making(u)' <=> Making(u)
    BY <1>1, <2>2 DEF Making
  <2>5. \A u \in Workers : mk'[u].kid = mk[u].kid
    BY <2>2
  <2>6. k = slot
    BY <2>1 DEF ControlInv, Active
  <2> HIDE DEF k
  <2>7. NoError' /\ Draining'
    BY <2>3 DEF ControlInv, NoError, Draining, Same
  <2>8. Active'
    <3>1. \A u \in Workers : mk'[u].pc \in {"listen", "start"} => u = t
      BY <1>2, <2>2 DEF Making
    <3>2. QED
      BY <1>3, <2>1, <2>2, <2>3, <2>6, <3>1 DEF Active, Same
  <2>9. Registered'
    <3>1. /\ mpc \in {"restart", "switchOff"} => mv \in Recs
          /\ \A u \in Workers : Making(u) => mk[u].kid \in Recs
      BY Known
    <3>2. QED
      BY <1>4, <1>5, <2>3, <2>4, <2>5, <3>1 DEF ControlInv, Registered, Same
  <2>10. Reader'
    <3>1. HasReader'
      BY <1>1, <2>2 DEF HasReader
    <3>2. QED
      BY <1>4, <1>6, <2>3, <2>4, <2>5, <3>1 DEF ControlInv, Reader, Same
  <2>11. OneCamera => Heirs'
    <3>1. \A v \in 1..born : Heir(v)' => Heir(v)
      BY <1>5, <2>3 DEF Heir, Same
    <3>2. \A c \in Cams : Making(c)' <=> Making(c)
      BY <2>4, Sets
    <3>3. QED
      BY <1>4, <2>1, <2>4, <2>5, <3>1, <3>2 DEF ControlInv, Heirs
  <2>12. QED
    BY <2>7, <2>8, <2>9, <2>10, <2>11 DEF ControlInv, OneCamera
<1>9. CASE Start(t)
  <2>1. /\ mk[t].pc = "start" /\ slot' = slot
        /\ inst' = [v \in Recs |->
             IF v = k THEN [inst[v] EXCEPT !.switcher = 1, !.pc = "starting"]
             ELSE IF v = t THEN [inst[v] EXCEPT !.pc = "done"] ELSE inst[v]]
        /\ mk' = [mk EXCEPT ![t] = [pc |-> "none", kid |-> 0]]
        /\ cam' = IF t \in Cams
                  THEN [cam EXCEPT ![t] = [@ EXCEPT !.own = k, !.pc = "loop"]] ELSE cam
    BY <1>9 DEF Start
  <2>2. \A u \in Workers : ~Making(u)'
    BY <1>2, <2>1, Known DEF Making
  <2>3. /\ \A v \in Recs : v # k => inst'[v] = inst[v]
        /\ inst'[k].switcher = 1 /\ inst'[k].pc = "starting"
        /\ inst'[k].mode = inst[k].mode /\ inst'[k].flag = inst[k].flag
        /\ inst'[k].registered = inst[k].registered
    BY <1>1, <1>2, <2>1, Known DEF Instances
  <2>4. \A c \in Cams : /\ c # t => cam'[c] = cam[c]
                        /\ c = t => cam'[c].own # 0 /\ cam'[c].pc # "off"
    BY <1>1, <2>1, Known DEF Cameras
  <2>5. k = slot
    BY <2>1 DEF ControlInv, Active
  <2>6. inst[k].registered
    BY <1>1 DEF ControlInv, Registered
  <2> HIDE DEF k
  <2>7. NoError' /\ Draining'
    BY <1>1, <2>3 DEF ControlInv, NoError, Draining
  <2>8. Active'
    <3>1. \A v \in Recs : inst'[v].switcher = 1 => v = slot'
      <4>1. slot' = k
        BY <2>1, <2>5
      <4>2. ASSUME NEW v \in Recs, inst'[v].switcher = 1, v # k PROVE FALSE
        <5>1. inst'[v] = inst[v]
          BY <2>3, <4>2
        <5>2. inst[v].switcher = 0
          BY <1>3
        <5>3. QED
          BY <4>2, <5>1, <5>2
      <4>3. QED
        BY <4>1, <4>2
    <3>2. \A u \in Workers : mk'[u].pc = "none"
      BY <2>2 DEF Making
    <3>3. QED
      BY <2>2, <3>1, <3>2 DEF Active
  <2>9. Registered'
    <3>1. mpc \in {"restart", "switchOff"} => mv \in Recs
      BY Known
    <3>2. QED
      BY <1>4, <1>5, <2>2, <2>3, <2>6, <3>1 DEF ControlInv, Registered
  <2>10. Reader'
    <3>1. HasReader'
      BY <1>1, <2>3 DEF HasReader
    <3>2. mpc = "switchOff" /\ stops = 0 => mv # k
      <4>1. CASE t = Main
        BY <1>1, <4>1 DEF ControlInv, Reader, k
      <4>2. CASE t \in Cams
        BY <1>1, <4>2, MakersStart DEF CalmInv, Undisturbed
      <4>3. QED
        BY <1>2, <4>1, <4>2 DEF Workers
    <3>3. mpc = "switchOff" => mv \in Recs
      BY Known
    <3>4. stops = 0 => /\ \A v \in Recs : inst[v].flag = 0
                       /\ mpc \notin {"mark", "stop"}
                       /\ mpc = "switchOff" => inst[mv].switcher = 0
      BY DEF ControlInv, Reader
    <3>5. QED
      BY <1>1, <1>4, <2>2, <2>3, <3>1, <3>2, <3>3, <3>4 DEF Reader
  <2>11. OneCamera => Heirs'
    <3> HAVE OneCamera
    <3>1. \A v \in 1..born : Heir(v)' => Heir(v)
      BY <1>5, <2>3 DEF Heir
    <3>2. \A v \in 1..born : Heir(v) => (mpc = "switchOff" /\ v = mv) \/ v = k
      BY <1>1, <1>2 DEF ControlInv, Heirs, k
    <3>3. \A c \in Cams : cam[c].pc = "off" \/ (cam[c].own = 0 /\ ~Making(c)) => born = 0
      BY DEF ControlInv, Heirs
    <3>4. \A c \in Cams : c # t => ~Making(c)
      BY <1>2, Sets
    <3>5. QED
      BY <1>4, <2>1, <2>2, <2>4, <2>5, <3>1, <3>2, <3>3, <3>4, Sets DEF Heirs
  <2>12. QED
    BY <2>7, <2>8, <2>9, <2>10, <2>11 DEF ControlInv, OneCamera
<1>10. QED
  BY <1>7, <1>8, <1>9

\* The work of a recorder thread: it turns itself off when it is off already.
LEMMA ControlWork ==
  ASSUME IInv, CalmInv, ControlInv, faults' = 0, NEW v \in Recs, Works(v)
  PROVE  ControlInv'
<1>1. /\ \A w \in Recs : w # v => inst'[w] = inst[w]
      /\ inst'[v].flag = inst[v].flag /\ inst'[v].registered = inst[v].registered
      /\ inst[v].pc # "new" /\ inst'[v].pc # "new"
      /\ UNCHANGED <<born, slot, mk, cam, mpc, mv, stops>>
  BY Worked DEF mainvars
<1>2. ~Fault
  <2>1. faults \in 0..MaxFaults /\ MaxFaults \in Nat
    BY RecorderAssumption DEF IInv, TypeOK
  <2>2. QED
    BY <2>1 DEF Fault
<1>3. inst \in [Recs -> Instances] /\ inst[v] \in Instances
      /\ inst[v].mode \in {"loop", "drain"} /\ inst[v].switcher \in {0, 1}
  BY Known DEF Instances
<1>4. inst[v].pc \notin {"error", "respawn"}
  BY DEF ControlInv, NoError
<1>5. /\ inst[v].pc \in {"drain", "drainSize", "stop"} => inst[v].switcher = 0
      /\ inst[v].mode = "drain" => inst[v].switcher = 0
  BY DEF ControlInv, Draining
<1> DEFINE Well ==
      /\ inst'[v].pc \notin {"error", "respawn"}
      /\ inst'[v].switcher = inst[v].switcher
      /\ inst'[v].pc \in {"drain", "drainSize", "stop"} \/ inst'[v].mode = "drain"
           => inst'[v].switcher = 0
<1>6. Well
  <2>1. CASE StartFile(v)
    BY <1>3, <1>5, <2>1 DEF StartFile, RecStep, At, Instances
  <2>2. CASE SwitcherTest(v)
    BY <1>3, <1>5, <2>2 DEF SwitcherTest, RecStep, At, Instances
  <2>3. CASE GetFrame(v)
    BY <1>3, <1>5, <2>3 DEF GetFrame, RecStep, At, Instances
  <2>4. CASE CountDown(v)
    BY <1>3, <1>5, <2>4 DEF CountDown, RecStep, At, Instances
  <2>5. CASE RecordFrame(v)
    BY <1>3, <1>5, <2>5 DEF RecordFrame, RecStep, At, Instances
  <2>6. CASE RecordFails(v)
    BY <1>3, <1>5, <2>6 DEF RecordFails, RecStep, At, Instances
  <2>7. CASE DrainTest(v)
    BY <1>3, <1>5, <2>7 DEF DrainTest, RecStep, At, Instances
  <2>8. CASE DrainSize(v)
    BY <1>3, <1>5, <2>8 DEF DrainSize, RecStep, At, Instances
  <2>9. CASE StopFile(v)
    BY <1>3, <1>5, <2>9 DEF StopFile, RecStep, At, Instances
  <2>10. CASE RenameFile(v)
    BY <1>3, <1>5, <2>10 DEF RenameFile, RecStep, At, Instances
  <2>11. ~StartFails(v) /\ ~StopFails(v) /\ ~CleanUp(v) /\ ~NoRespawn(v)
    BY <1>2, <1>4 DEF StartFails, StopFails, CleanUp, NoRespawn, RecStep
  <2>12. QED
    BY <2>1, <2>2, <2>3, <2>4, <2>5, <2>6, <2>7, <2>8, <2>9, <2>10, <2>11 DEF Works
<1>7. \A w \in Recs : Same(w)
  BY <1>1, <1>6 DEF Same
<1>8. NoError' /\ Draining'
  BY <1>1, <1>6 DEF ControlInv, NoError, Draining
<1>9. Active'
  BY <1>1, <1>7 DEF ControlInv, Active, Making, Same
<1>10. \A w \in 1..born : w \in Recs
  BY Known
<1>11. /\ mpc \in {"restart", "switchOff"} => mv \in Recs
       /\ \A t \in Workers : Making(t) => mk[t].kid \in Recs
  BY Known
<1>12. Registered'
  BY <1>1, <1>7, <1>10, <1>11 DEF ControlInv, Registered, Making, Same
<1>13. Reader'
  <2>1. stops = 0 => HasReader'
    BY <1>1, <1>7 DEF ControlInv, Reader, HasReader, Same
  <2>2. QED
    BY <1>1, <1>7, <1>11, <2>1 DEF ControlInv, Reader, Making, Same
<1>14. OneCamera => Heirs'
  BY <1>1, <1>7, <1>10 DEF ControlInv, Heirs, Heir, Making, Same
<1>15. QED
  BY <1>8, <1>9, <1>12, <1>13, <1>14 DEF ControlInv, OneCamera

\* The main thread.
LEMMA ControlMain ==
  ASSUME IInv, CalmInv, ControlInv, Calm, MainWorks
  PROVE  ControlInv'
<1>1. /\ UNCHANGED <<born, slot, mk>>
      /\ \A c \in Cams : cam'[c].pc = cam[c].pc /\ cam'[c].own = cam[c].own
      /\ \A v \in Recs : /\ inst'[v].pc = inst[v].pc /\ inst'[v].mode = inst[v].mode
                         /\ inst'[v].switcher \in {inst[v].switcher, 0}
      /\ mpc = "switchOff" => mk[Main].pc = "none"
  BY MainWorked
<1>2. inst \in [Recs -> Instances] /\ stops \in Nat
  BY Known, RecorderAssumption DEF IInv, TypeOK
<1>3. \A w \in 1..born : w \in Recs
  BY Known
<1>4. /\ mpc \in {"restart", "switchOff"} => mv \in Recs /\ mv \in 1..born
      /\ \A t \in Workers : Making(t) => mk[t].kid \in Recs
  BY Known
<1>5. NoError' /\ Draining'
  BY <1>1 DEF ControlInv, NoError, Draining
<1>6. Active'
  BY <1>1 DEF ControlInv, Active, Making
<1>7. \A c \in Cams : cam'[c].own # 0 => cam[c].own # 0
  BY <1>1
<1>8. \A c \in Cams : /\ cam'[c].pc = "off" \/ (cam'[c].own = 0 /\ ~Making(c)')
                           => cam[c].pc = "off" \/ (cam[c].own = 0 /\ ~Making(c))
  BY <1>1 DEF Making
<1>9. CASE Drop \/ CloseCamera \/ (\E c \in Cams : DeliverStop(c)) \/ SendFileSwitch
           \/ (\E v \in Recs : DeliverSwitch(v) /\ ~inst[v].registered)
  <2>1. /\ UNCHANGED <<inst, stops>> /\ mpc' \in {"idle", "sleep"}
        /\ mpc \in {"idle", "sleep"}
    BY <1>9 DEF Drop, CloseCamera, DeliverStop, SendFileSwitch, DeliverSwitch, MainStep
  <2>2. Registered'
    BY <1>1, <2>1 DEF ControlInv, Registered, Making
  <2>3. Reader'
    BY <1>1, <1>7, <2>1 DEF ControlInv, Reader, HasReader, Making
  <2>4. OneCamera => Heirs'
    BY <1>1, <1>8, <2>1 DEF ControlInv, Heirs, Heir, Making
  <2>5. QED
    BY <1>5, <1>6, <2>2, <2>3, <2>4 DEF ControlInv, OneCamera
<1>10. CASE \E v \in Recs : DeliverSwitch(v) /\ inst[v].registered
  <2>1. /\ UNCHANGED <<inst, stops, cam>> /\ mpc' = "restart" /\ mpc = "idle"
        /\ inst[mv'].registered
    BY <1>10 DEF DeliverSwitch, MainStep
  <2>2. Registered'
    BY <1>1, <2>1 DEF ControlInv, Registered, Making
  <2>3. Reader'
    BY <1>1, <2>1 DEF ControlInv, Reader, HasReader, Making
  <2>4. OneCamera => Heirs'
    BY <1>1, <1>8, <2>1 DEF ControlInv, Heirs, Heir, Making
  <2>5. QED
    BY <1>5, <1>6, <2>2, <2>3, <2>4 DEF ControlInv, OneCamera
<1>11. CASE PressStop
  <2>1. /\ UNCHANGED <<inst, cam>> /\ mpc' \in {"idle", "mark"} /\ mpc = "idle"
        /\ stops' # 0
    BY <1>2, <1>11 DEF PressStop, MainStep
  <2>2. Registered'
    BY <1>1, <2>1 DEF ControlInv, Registered, Making
  <2>3. Reader'
    BY <2>1 DEF Reader
  <2>4. OneCamera => Heirs'
    BY <1>1, <1>8, <2>1 DEF ControlInv, Heirs, Heir, Making
  <2>5. QED
    BY <1>5, <1>6, <2>2, <2>3, <2>4 DEF ControlInv, OneCamera
<1>12. CASE NoRestart
  <2>1. /\ UNCHANGED <<inst, cam, stops>> /\ mpc' = "switchOff" /\ mpc = "restart"
        /\ mv' = mv /\ inst[mv].flag = 1
    BY <1>12 DEF NoRestart, MainStep
  <2>2. Registered'
    BY <1>1, <2>1 DEF ControlInv, Registered, Making
  <2>3. Reader'
    BY <1>4, <2>1 DEF ControlInv, Reader
  <2>4. OneCamera => Heirs'
    BY <1>1, <1>8, <2>1 DEF ControlInv, Heirs, Heir, Making
  <2>5. QED
    BY <1>5, <1>6, <2>2, <2>3, <2>4 DEF ControlInv, OneCamera
<1>13. CASE MarkStop \/ StopSlot
  <2>1. /\ mpc \in {"mark", "stop"} /\ UNCHANGED <<cam, stops>>
        /\ mpc' \in {"idle", "stop"} /\ slot \in Recs
    BY <1>13, Known DEF MarkStop, StopSlot, MainStep
  <2>2. \A v \in Recs : /\ inst'[v].registered = inst[v].registered
                        /\ inst'[v].flag = 0 => inst[v].flag = 0
    <3>1. CASE MarkStop
      BY <1>2, <2>1, <3>1 DEF MarkStop, Instances
    <3>2. CASE StopSlot
      BY <1>2, <2>1, <3>2 DEF StopSlot, Instances
    <3>3. QED
      BY <1>13, <3>1, <3>2
  <2>3. Registered'
    BY <1>1, <1>3, <1>4, <2>1, <2>2 DEF ControlInv, Registered, Making
  <2>4. Reader'
    BY <2>1 DEF ControlInv, Reader
  <2>5. OneCamera => Heirs'
    BY <1>1, <1>3, <1>8, <2>1, <2>2 DEF ControlInv, Heirs, Heir, Making
  <2>6. QED
    BY <1>5, <1>6, <2>3, <2>4, <2>5 DEF ControlInv, OneCamera
<1>14. CASE SwitchOff
  <2>1. /\ mpc = "switchOff" /\ mpc' = "idle" /\ UNCHANGED <<cam, stops>>
        /\ inst' = [inst EXCEPT ![mv] = [@ EXCEPT !.switcher = 0, !.registered = FALSE]]
    BY <1>14 DEF SwitchOff, MainStep
  <2>2. /\ \A v \in Recs : v # mv => inst'[v] = inst[v]
        /\ inst'[mv].switcher = 0 /\ ~inst'[mv].registered
        /\ inst'[mv].flag = inst[mv].flag
    BY <1>2, <1>4, <2>1 DEF Instances
  <2>3. \A t \in Workers : ~Making(t)
    <3>1. ASSUME NEW t \in Workers, Making(t) PROVE FALSE
      <4>1. t \in Cams \/ t \in Recs \/ t = Main
        BY DEF Workers
      <4>2. QED
        BY <1>1, <2>1, <3>1, <4>1, MakersStart, Known
           DEF CalmInv, Undisturbed, ControlInv, NoError, Making
    <3>2. QED
      BY <3>1
  <2>4. Registered'
    BY <1>1, <1>3, <2>1, <2>2, <2>3 DEF ControlInv, Registered, Making
  <2>5. Reader'
    <3>1. stops = 0 => HasReader'
      BY <1>1, <1>2, <1>4, <2>1, <2>2 DEF ControlInv, Reader, HasReader
    <3>2. stops = 0 => \A v \in Recs : inst'[v].flag = 0
      BY <1>4, <2>1, <2>2 DEF ControlInv, Reader
    <3>3. QED
      BY <2>1, <3>1, <3>2 DEF Reader
  <2>6. OneCamera => Heirs'
    <3>1. \A v \in 1..born : Heir(v)' => Heir(v) /\ v # mv
      BY <1>3, <1>4, <2>1, <2>2 DEF Heir
    <3>2. QED
      BY <1>1, <1>8, <2>1, <2>3, <3>1 DEF ControlInv, Heirs, Making
  <2>7. QED
    BY <1>5, <1>6, <2>4, <2>5, <2>6 DEF ControlInv, OneCamera
<1>15. QED
  BY <1>9, <1>10, <1>11, <1>12, <1>13, <1>14 DEF MainWorks

\* The number of exceptions does not go down.
LEMMA FaultsGrow ==
  ASSUME IInv, [Next]_vars
  PROVE  faults' = 0 => faults = 0
<1>1. faults \in 0..MaxFaults /\ MaxFaults \in Nat
  BY RecorderAssumption DEF IInv, TypeOK
<1>2. CASE UNCHANGED vars
  BY <1>2 DEF vars
<1>3. ASSUME NEW v \in Recs, Works(v) PROVE faults' = faults \/ faults' = faults + 1
  BY <1>3 DEF Works, StartFile, StartFails, SwitcherTest, GetFrame, CountDown,
    RecordFrame, RecordFails, DrainTest, DrainSize, StopFile, StopFails, RenameFile,
    CleanUp, NoRespawn, Fault, NoFault
<1>4. /\ \A c \in Cams : Turns(c) => faults' = faults
      /\ MainWorks => faults' = faults
  BY Turned, MainWorked
<1>5. /\ \A c \in Cams : CameraCreates(c) \/ PressRecord(c) => faults' = faults
      /\ \A t \in Workers : TakeSlot(t) \/ Start(t) \/ SetListener(t) => faults' = faults
      /\ \A v \in Recs : Respawn(v) => faults' = faults
      /\ Restart => faults' = faults
  BY DEF CameraCreates, PressRecord, TakeSlot, Start, SetListener, Respawn, Restart,
    Construct, MainStep
<1>6. CASE Next
  BY <1>1, <1>3, <1>4, <1>5, <1>6, Steps
<1>7. QED
  BY <1>2, <1>6

\* Every step keeps the invariant, until an exception.
LEMMA ControlNext ==
  ASSUME IInv, CalmInv, ControlInv, Calm, faults' = 0, [Next]_vars
  PROVE  ControlInv'
<1>1. CASE UNCHANGED vars
  <2>1. /\ UNCHANGED <<inst, born, slot, mk, cam, mpc, mv, stops>>
    BY <1>1 DEF vars, mainvars
  <2>2. QED
    BY <2>1, ControlQuiet DEF Same
<1>2. CASE Next
  BY <1>2, Steps, ControlCamera, ControlCreates, ControlMake, ControlWork, ControlMain
<1>3. QED
  BY <1>1, <1>2

\* It holds at the start.
LEMMA ControlInit == Init => ControlInv
<1> HAVE Init
<1>1. /\ inst = [v \in Recs |-> NewInstance] /\ born = 0 /\ mpc = "idle"
      /\ mk = [t \in Workers |-> [pc |-> "none", kid |-> 0]]
      /\ cam = [c \in Cams |-> NewCamera]
  BY DEF Init
<1>2. \A v \in 1..born : FALSE
  BY <1>1
<1>3. NoError /\ Draining
  BY <1>1 DEF NoError, Draining, NewInstance
<1>4. Active
  BY <1>1 DEF Active, NewInstance
<1>5. Registered
  BY <1>1, <1>2 DEF Registered, Making
<1>6. Reader
  BY <1>1 DEF Reader, HasReader, NewInstance, NewCamera
<1>7. OneCamera => Heirs
  BY <1>1, <1>2 DEF Heirs
<1>8. QED
  BY <1>3, <1>4, <1>5, <1>6, <1>7 DEF ControlInv

\* The invariant of every behaviour until FFmpeg throws something.
FirstFault == faults = 0 => ControlInv

\* It holds throughout.
LEMMA ControlCorrect ==
  ASSUME Calm
  PROVE  Spec => [](IInv /\ CalmInv /\ FirstFault)
<1>1. IInv /\ CalmInv /\ [Next]_vars => CalmInv'
  BY CalmNext
<1>2. IInv /\ CalmInv /\ FirstFault /\ [Next]_vars => FirstFault'
  BY ControlNext, FaultsGrow DEF FirstFault
<1>3. Init => FirstFault
  BY ControlInit DEF FirstFault
<1>4. QED
  BY <1>1, <1>2, <1>3, CalmInit, InvCorrect, PTL DEF Spec

\* If nothing is asked of the program while a camera thread is about to start
\* its first recorder (Calm), then until the first exception never are two
\* recorders told to record, however many camera threads share the slot.  A
\* switch or a press of "record" in that window makes two.
THEOREM UniqueActiveAlways ==
  ASSUME Calm PROVE Spec => []UniqueActive
<1>1. FirstFault => UniqueActive
  BY DEF FirstFault, ControlInv, Active, UniqueActive
<1>2. QED
  BY <1>1, ControlCorrect, PTL

\* Under Calm, before the first stop and the first exception, a file switch
\* leaves a recorder at work or in the making.
THEOREM KeepsReaderAlways ==
  ASSUME Calm PROVE Spec => []SwitchKeepsReader
<1>1. FirstFault => SwitchKeepsReader
  BY DEF FirstFault, ControlInv, Reader, HasReader, SwitchKeepsReader
<1>2. QED
  BY <1>1, ControlCorrect, PTL

\* Under Calm, and until the first exception, "stop" turns off every recorder
\* there is: the one in the slot was the only one at work.  A stop in the
\* window before a first recorder starts, or a recorder thread that replaces
\* itself, escapes it.
THEOREM StopReachesAllAlways ==
  ASSUME Calm PROVE Spec => StopReachesAll
<1> DEFINE Stopped == faults = 0 /\ mpc = "stop" /\ mpc' = "idle" =>
                        \A v \in Recs : inst'[v].switcher = 0
<1>1. ASSUME IInv, ControlInv, [Next]_vars, mpc = "stop", mpc' = "idle"
      PROVE  \A v \in Recs : inst'[v].switcher = 0
  <2>1. Next
    BY <1>1 DEF vars, mainvars
  <2>2. StopSlot
    <3>1. \/ \E c \in Cams : Turns(c) \/ CameraCreates(c)
          \/ \E t \in Workers : TakeSlot(t) \/ Start(t) \/ (t \in Cams /\ SetListener(t))
          \/ \E v \in Recs : Works(v) \/ Respawn(v)
          \/ Restart \/ MainWorks
          \/ \E c \in Cams : PressRecord(c)
      BY <2>1, Steps
    <3>2. \A c \in Cams : Turns(c) => mpc' = mpc
      BY <1>1, Turned DEF mainvars
    <3>3. \A v \in Recs : Works(v) => mpc' = mpc
      BY <1>1, Worked DEF mainvars
    <3>4. /\ \A c \in Cams : CameraCreates(c) => mpc' = mpc
          /\ \A t \in Workers : TakeSlot(t) \/ Start(t) \/ SetListener(t) => mpc' = mpc
          /\ \A v \in Recs : Respawn(v) => mpc' = mpc
      BY DEF CameraCreates, TakeSlot, Start, SetListener, Respawn, mainvars
    <3>5. ~Restart /\ \A c \in Cams : ~PressRecord(c)
      BY <1>1 DEF Restart, PressRecord, MainStep
    <3>6. MainWorks
      BY <1>1, <3>1, <3>2, <3>3, <3>4, <3>5
    <3>7. QED
      BY <1>1, <3>6 DEF MainWorks, MarkStop, Drop, NoRestart, SwitchOff,
        CloseCamera, DeliverSwitch, DeliverStop, PressStop, SendFileSwitch, MainStep
  <2>3. inst' = [inst EXCEPT ![slot].switcher = 0] /\ slot \in Recs
    BY <1>1, <2>2, Known DEF StopSlot
  <2>4. ASSUME NEW v \in Recs PROVE inst'[v].switcher = 0
    <3>1. inst \in [Recs -> Instances] /\ inst[v] \in Instances
      BY <1>1, Known
    <3>2. v # slot => inst[v].switcher = 0
      BY <1>1, <3>1 DEF ControlInv, Active, Instances
    <3>3. QED
      BY <2>3, <3>1, <3>2 DEF Instances
  <2>5. QED
    BY <2>4
<1>2. IInv /\ FirstFault /\ [Next]_vars => [Stopped]_vars
  BY <1>1 DEF FirstFault
<1>3. Spec => [][Stopped]_vars
  BY <1>2, ControlCorrect, PTL DEF Spec
<1>4. QED
  BY <1>3, PTL DEF StopReachesAll

\* Under Calm, until the first exception, and with one camera thread (a second
\* press of "record" makes another one), a file switch makes one recorder out
\* of one.  A recorder that died of an exception stays registered and makes a
\* second.
THEOREM OneHeirAlways ==
  ASSUME Calm, OneCamera PROVE Spec => []OneHeir
<1>1. FirstFault => OneHeir
  <2> SUFFICES ASSUME FirstFault, faults = 0 PROVE OneHeir
    BY DEF OneHeir
  <2>1. Heirs
    BY DEF FirstFault, ControlInv
  <2>2. QED
    BY <2>1 DEF Heirs, Heir, Making, OneHeir
<1>2. QED
  BY <1>1, ControlCorrect, PTL

\* A step that takes a recorder from the test of the counter to the end of
\* its file is that test, and the counter was 0.
LEMMA DrainStep ==
  ASSUME IInv, Next, NEW v \in Recs,
         inst[v].pc = "drainSize", inst'[v].pc = "stop"
  PROVE  size = 0
<1>1. \/ \E c \in Cams : Turns(c) \/ CameraCreates(c)
      \/ \E t \in Workers : TakeSlot(t) \/ Start(t) \/ (t \in Cams /\ SetListener(t))
      \/ \E w \in Recs : Works(w) \/ Respawn(w)
      \/ Restart \/ MainWorks
      \/ \E c \in Cams : PressRecord(c)
  BY Steps
<1>2. inst \in [Recs -> Instances] /\ inst[v] \in Instances
  BY Known
<1>3. ASSUME NEW t \in Workers, NEW lsnr \in BOOLEAN, Construct(t, lsnr) PROVE FALSE
  <2>1. /\ inst'[born + 1].pc = "new"
        /\ v # born + 1 =>
             inst'[v] = IF v = slot THEN [inst[v] EXCEPT !.switcher = 0] ELSE inst[v]
    BY <1>3, Constructed
  <2>2. v # born + 1 => inst'[v].pc = inst[v].pc
    BY <1>2, <2>1, OffFields
  <2>3. QED
    BY <2>1, <2>2
<1>4. /\ \A c \in Cams : ~CameraCreates(c)
      /\ \A w \in Recs : ~Respawn(w)
  <2>1. \A w \in Recs : inst[w].listener \in BOOLEAN
    BY Known DEF Instances
  <2>2. QED
    BY <1>3, <2>1, Sets DEF CameraCreates, Respawn
<1>5. ~Restart
  <2>1. mpc = "restart" => inst[mv].listener \in BOOLEAN
    BY Known DEF Instances
  <2>2. QED
    BY <1>3, <2>1, Sets DEF Restart, MainStep
<1>6. ~MainWorks
  BY MainWorked
<1>7. /\ \A c \in Cams : ~Turns(c) /\ ~PressRecord(c)
  BY Turned DEF PressRecord
<1>8. ASSUME NEW t \in Workers, TakeSlot(t) \/ Start(t) \/ SetListener(t) PROVE FALSE
  <2>1. /\ Making(t) /\ mk[t].kid \in Recs /\ inst[mk[t].kid].pc = "new"
        /\ inst[mk[t].kid] \in Instances
    BY <1>8, Known DEF TakeSlot, Start, SetListener, Making
  <2>2. inst'[v] = inst[v] \/ Start(t)
    BY <1>2, <1>8, <2>1 DEF TakeSlot, SetListener
  <2>3. Start(t)
    BY <2>2
  <2>4. inst' = [w \in Recs |->
          IF w = mk[t].kid THEN [inst[w] EXCEPT !.switcher = 1, !.pc = "starting"]
          ELSE IF w = t THEN [inst[w] EXCEPT !.pc = "done"] ELSE inst[w]]
    BY <2>3 DEF Start
  <2>5. inst'[v].pc \in {"starting", "done", inst[v].pc}
    BY <1>2, <2>4 DEF Instances
  <2>6. QED
    BY <2>5
<1>9. PICK w \in Recs : Works(w)
  BY <1>1, <1>4, <1>5, <1>6, <1>7, <1>8
<1>10. w = v
  BY <1>9, Worked
<1>11. DrainSize(v) \/ DrainTest(v)
  BY <1>2, <1>9, <1>10 DEF Works, StartFile, StartFails, SwitcherTest, GetFrame,
    CountDown, RecordFrame, RecordFails, StopFile, StopFails, RenameFile, CleanUp,
    NoRespawn, RecStep
<1>12. DrainSize(v)
  BY <1>11 DEF DrainTest, RecStep
<1>13. QED
  BY <1>2, <1>12 DEF DrainSize, RecStep, At, Instances

\* A recorder that drains after a stop leaves no more frames behind than are
\* put and not counted yet and than updates of the counter have been lost.
THEOREM DrainAlways == Spec => DrainLeavesFew
<1> DEFINE Few == \A v \in Recs : inst[v].pc = "drainSize" /\ inst'[v].pc = "stop" =>
                    Len(holders) <= Cardinality(Queue!Uncounted) + lost
<1>1. ASSUME Queue!QTypeOK, Queue!SizeIsLength, size = 0
      PROVE  Len(holders) <= Cardinality(Queue!Uncounted) + lost
  <2>1. Len(holders) \in Nat /\ lost \in Nat
    BY <1>1 DEF Queue!QTypeOK
  <2>2. /\ Cardinality(Queue!Uncounted) \in Nat
        /\ Cardinality(Queue!Overcounted) \in Nat
    <3>1. IsFiniteSet(Cams \cup Recs)
      <4>1. IsFiniteSet(Recs)
        BY FS_Interval, Sets DEF Recs
      <4>2. QED
        BY <4>1, FS_Union, RecorderAssumption
    <3>2. /\ Queue!Uncounted \subseteq Cams \cup Recs
          /\ Queue!Overcounted \subseteq Cams \cup Recs
      BY DEF Queue!Uncounted, Queue!Overcounted, Queue!Threads
    <3>3. QED
      BY <3>1, <3>2, FS_Subset, FS_CardinalityType
  <2>3. Queue!Counted = Len(holders) - Cardinality(Queue!Uncounted)
                                     + Cardinality(Queue!Overcounted)
    BY DEF Queue!Counted, Queue!Cardinality, Cardinality
  <2>4. Queue!Counted <= lost
    BY <1>1, <2>1, <2>2, <2>3 DEF Queue!SizeIsLength, Queue!Distance
  <2>5. QED
    BY <2>1, <2>2, <2>3, <2>4
<1>2. IInv /\ Queue!QTypeOK /\ Queue!SizeIsLength /\ [Next]_vars => [Few]_vars
  BY <1>1, DrainStep
<1>3. Spec => [][Few]_vars
  BY <1>2, InvCorrect, BufferInProgram, PTL DEF Spec
<1>4. QED
  BY <1>3, PTL DEF DrainLeavesFew

-----------------------------------------------------------------------------

\* A camera thread makes its first recorder only, and the one a file switch
\* makes answers the next one from its constructor on; none is made by a
\* recorder thread before the first exception.
Made ==
  /\ \A c \in Cams : Making(c) => cam[c].pc = "added" /\ cam[c].own = 0
  /\ \A c \in Cams : cam[c].pc = "off" => cam[c].own = 0
  /\ Making(Main) => mpc = "switchOff" /\ inst[mk[Main].kid].registered

StrandedInv == Made /\ (faults = 0 => NoError) /\ StrandedIsFirst

\* Turning instances off strands none.
LEMMA StrandedQuiet ==
  ASSUME IInv, StrandedIsFirst, faults' = 0 => faults = 0,
         UNCHANGED born,
         \A c \in Cams : cam'[c].own = cam[c].own,
         \A v \in Recs :
           inst'[v].switcher = 1 => /\ inst[v].switcher = 1
                                    /\ inst'[v].registered = inst[v].registered
  PROVE  StrandedIsFirst'
<1>1. \A v \in 1..born : v \in Recs
  BY Known
<1>2. QED
  BY <1>1 DEF StrandedIsFirst

\* The constructor, whoever calls it, registers the new instance.
LEMMA StrandedConstruct ==
  ASSUME IInv, StrandedInv, NEW t \in Workers, NEW lsnr \in BOOLEAN, Construct(t, lsnr),
         UNCHANGED cam,
         t \in Cams => cam[t].pc = "added" /\ cam[t].own = 0,
         t = Main \/ Making(Main) => mpc' = "switchOff"
  PROVE  StrandedInv'
<1>1. /\ mk'[t].kid = born + 1 /\ \A u \in Workers : u # t => mk'[u] = mk[u]
      /\ born' = born + 1 /\ born + 1 \in Recs
      /\ inst'[born + 1].registered = TRUE /\ inst'[born + 1].pc = "new"
      /\ \A v \in Recs : v # born + 1 =>
           inst'[v] = IF v = slot THEN [inst[v] EXCEPT !.switcher = 0] ELSE inst[v]
      /\ faults' = faults
  BY Constructed
<1>2. ASSUME NEW v \in Recs, v # born + 1
      PROVE  /\ inst'[v].pc = inst[v].pc /\ inst'[v].registered = inst[v].registered
             /\ inst'[v].switcher \in {inst[v].switcher, 0}
  <2>1. inst[v] \in Instances
    BY Known
  <2>2. inst'[v] = IF v = slot THEN [inst[v] EXCEPT !.switcher = 0] ELSE inst[v]
    BY <1>1, <1>2
  <2>3. QED
    BY <2>1, <2>2, OffFields
<1>3. born \in Nat /\ Cams \subseteq Workers /\ Main \in Workers
      /\ \A v \in 1..born : v \in Recs /\ v # born + 1
  BY Known, Sets
<1>4. Made'
  <2>1. \A c \in Cams : Making(c)' => (cam[c].pc = "added" /\ cam[c].own = 0)'
    BY <1>1, <1>3 DEF StrandedInv, Made, Making
  <2>2. \A c \in Cams : cam'[c].pc = "off" => cam'[c].own = 0
    BY DEF StrandedInv, Made
  <2>3. Making(Main)' => mpc' = "switchOff"
    BY <1>1, <1>3 DEF Making
  <2>4. ASSUME Making(Main)' PROVE inst'[mk'[Main].kid].registered
    <3>1. CASE t = Main
      BY <1>1, <3>1
    <3>2. CASE t # Main
      <4>1. Making(Main) /\ mk'[Main] = mk[Main]
        BY <1>1, <1>3, <2>4, <3>2 DEF Making
      <4>2. mk[Main].kid \in 1..born
        BY <1>3, <4>1, Known
      <4>3. inst[mk[Main].kid].registered
        BY <4>1 DEF StrandedInv, Made
      <4>4. QED
        BY <1>2, <1>3, <4>1, <4>2, <4>3
    <3>3. QED
      BY <3>1, <3>2
  <2>5. QED
    BY <2>1, <2>2, <2>3, <2>4 DEF Made
<1>5. faults' = 0 => NoError'
  BY <1>1, <1>2 DEF StrandedInv, NoError
<1>6. StrandedIsFirst'
  <2> SUFFICES ASSUME faults' = 0, NEW v \in 1..born', ~inst'[v].registered,
                      inst'[v].switcher = 1
               PROVE  \E c \in Cams : cam'[c].own = v
    BY DEF StrandedIsFirst
  <2>1. v \in 1..born
    BY <1>1, <1>3
  <2>2. ~inst[v].registered /\ inst[v].switcher = 1
    BY <1>2, <1>3, <2>1
  <2>3. QED
    BY <1>1, <2>1, <2>2 DEF StrandedInv, StrandedIsFirst
<1>7. QED
  BY <1>4, <1>5, <1>6 DEF StrandedInv

\* The steps from the constructor to the start: the camera thread keeps the
\* one it starts, and the one the main thread starts is registered.
LEMMA StrandedMake ==
  ASSUME IInv, StrandedInv, NEW t \in Workers,
         TakeSlot(t) \/ Start(t) \/ (t \in Cams /\ SetListener(t))
  PROVE  StrandedInv'
<1> DEFINE k == mk[t].kid
<1>1. /\ Making(t) /\ k \in 1..born /\ k \in Recs /\ inst[k].pc = "new" /\ k # 0
      /\ inst[k] \in Instances
  BY Known DEF TakeSlot, Start, SetListener, Making
<1>2. Cams \subseteq Workers /\ Main \in Workers /\ Main \notin Cams
  BY Sets
<1>3. UNCHANGED <<born, mpc, faults>>
  BY DEF TakeSlot, Start, SetListener, mainvars
<1>4. ASSUME UNCHANGED cam,
             \A v \in Recs : /\ inst'[v].pc = inst[v].pc
                             /\ inst'[v].registered = inst[v].registered
                             /\ inst'[v].switcher = inst[v].switcher,
             \A u \in Workers : mk'[u].kid = mk[u].kid /\ (Making(u)' <=> Making(u))
      PROVE  StrandedInv'
  <2>1. Made'
    <3>1. Making(Main) => mk[Main].kid \in Recs
      BY <1>2, Known
    <3>2. QED
      BY <1>2, <1>3, <1>4, <3>1 DEF StrandedInv, Made
  <2>2. faults' = 0 => NoError'
    BY <1>3, <1>4 DEF StrandedInv, NoError
  <2>3. QED
    BY <1>3, <1>4, <2>1, <2>2, StrandedQuiet DEF StrandedInv
<1>5. CASE TakeSlot(t)
  <2>1. /\ mk[t].pc = "slot" /\ UNCHANGED <<inst, cam>>
        /\ mk' = [mk EXCEPT ![t].pc = IF t \in Cams THEN "listen" ELSE "start"]
    BY <1>5 DEF TakeSlot
  <2>2. \A u \in Workers : mk'[u].kid = mk[u].kid /\ (Making(u)' <=> Making(u))
    BY <2>1, Known DEF Making
  <2>3. QED
    BY <1>4, <2>1, <2>2
<1>6. CASE t \in Cams /\ SetListener(t)
  <2>1. /\ mk[t].pc = "listen" /\ UNCHANGED cam
        /\ inst' = [inst EXCEPT ![k].listener = TRUE]
        /\ mk' = [mk EXCEPT ![t].pc = "start"]
    BY <1>6 DEF SetListener
  <2>2. \A u \in Workers : mk'[u].kid = mk[u].kid /\ (Making(u)' <=> Making(u))
    BY <2>1, Known DEF Making
  <2>3. \A v \in Recs : /\ inst'[v].pc = inst[v].pc
                        /\ inst'[v].registered = inst[v].registered
                        /\ inst'[v].switcher = inst[v].switcher
    BY <1>1, <2>1, Known DEF Instances
  <2>4. QED
    BY <1>4, <2>1, <2>2, <2>3
<1>7. CASE Start(t)
  <2>1. /\ inst' = [v \in Recs |->
             IF v = k THEN [inst[v] EXCEPT !.switcher = 1, !.pc = "starting"]
             ELSE IF v = t THEN [inst[v] EXCEPT !.pc = "done"] ELSE inst[v]]
        /\ mk' = [mk EXCEPT ![t] = [pc |-> "none", kid |-> 0]]
        /\ cam' = IF t \in Cams
                  THEN [cam EXCEPT ![t] = [@ EXCEPT !.own = k, !.pc = "loop"]] ELSE cam
    BY <1>7 DEF Start
  <2>2. /\ \A u \in Workers : u # t => mk'[u] = mk[u]
        /\ mk'[t].kid = 0 /\ mk'[t].pc = "none"
    BY <2>1, Known
  <2>3. /\ \A v \in Recs : inst'[v].registered = inst[v].registered
        /\ \A v \in Recs : v # k => inst'[v].switcher = inst[v].switcher
        /\ \A v \in Recs : inst'[v].pc \in {inst[v].pc, "starting", "done"}
    BY <1>1, <2>1, Known DEF Instances
  <2>4. \A c \in Cams : /\ c # t => cam'[c] = cam[c]
                        /\ c = t => cam'[c].own = k /\ cam'[c].pc = "loop"
    <3>1. ASSUME NEW c \in Cams, c # t PROVE cam'[c] = cam[c]
      BY <2>1, <3>1, Known
    <3>2. ASSUME t \in Cams PROVE cam'[t].own = k /\ cam'[t].pc = "loop"
      <4>1. cam[t] \in Cameras /\ cam \in [Cams -> Cameras]
        BY <3>2, Known
      <4>2. cam'[t] = [cam[t] EXCEPT !.own = k, !.pc = "loop"]
        BY <2>1, <3>2, <4>1
      <4>3. QED
        BY <4>1, <4>2 DEF Cameras
    <3>3. QED
      BY <3>1, <3>2
  <2>5. /\ t \in Cams => cam[t].own = 0
        /\ t = Main => inst[k].registered
        /\ faults = 0 => t \notin Recs
    BY <1>1, Known DEF StrandedInv, Made, NoError
  <2>6. t \in Cams \/ t = Main \/ t \in Recs
    BY DEF Workers
  <2> HIDE DEF k
  <2>7. Made'
    <3>1. Making(Main) => mk[Main].kid \in Recs
      BY <1>2, Known
    <3>2. QED
      BY <1>2, <1>3, <2>2, <2>3, <2>4, <3>1 DEF StrandedInv, Made, Making
  <2>8. faults' = 0 => NoError'
    BY <1>3, <2>3 DEF StrandedInv, NoError
  <2>9. StrandedIsFirst'
    <3> SUFFICES ASSUME faults' = 0, NEW v \in 1..born', ~inst'[v].registered,
                        inst'[v].switcher = 1
                 PROVE  \E c \in Cams : cam'[c].own = v
      BY DEF StrandedIsFirst
    <3>1. v \in 1..born /\ v \in Recs /\ v # 0 /\ ~inst[v].registered
      BY <1>3, <2>3, Known
    <3>2. CASE v = k
      BY <1>3, <2>4, <2>5, <2>6, <3>1, <3>2
    <3>3. CASE v # k
      <4>1. PICK c \in Cams : cam[c].own = v
        BY <1>3, <2>3, <3>1, <3>3 DEF StrandedInv, StrandedIsFirst
      <4>2. c # t
        BY <2>5, <3>1, <4>1
      <4>3. QED
        BY <2>4, <4>1, <4>2
    <3>4. QED
      BY <3>2, <3>3
  <2>10. QED
    BY <2>7, <2>8, <2>9 DEF StrandedInv
<1>8. QED
  BY <1>5, <1>6, <1>7

\* The work of a recorder thread: it comes to the handler of exceptions by an
\* exception only.
LEMMA StrandedWork ==
  ASSUME IInv, StrandedInv, NEW v \in Recs, Works(v)
  PROVE  StrandedInv'
<1>1. /\ \A w \in Recs : w # v => inst'[w] = inst[w]
      /\ inst'[v].registered = inst[v].registered
      /\ inst'[v].switcher \in {inst[v].switcher, 0}
      /\ UNCHANGED <<born, mk, cam, mpc>>
  BY Worked DEF mainvars
<1>2. faults \in Nat /\ inst[v] \in Instances /\ inst \in [Recs -> Instances]
  <2>1. faults \in 0..MaxFaults /\ MaxFaults \in Nat
    BY RecorderAssumption DEF IInv, TypeOK
  <2>2. QED
    BY <2>1, Known
<1>3. faults' = faults \/ faults' = faults + 1
  BY DEF Works, StartFile, StartFails, SwitcherTest, GetFrame, CountDown, RecordFrame,
    RecordFails, DrainTest, DrainSize, StopFile, StopFails, RenameFile, CleanUp,
    NoRespawn, Fault, NoFault
<1>4. faults' = 0 => faults = 0
  BY <1>2, <1>3
<1>5. Made'
  <2>1. Making(Main) => mk[Main].kid \in Recs
    BY Known, Sets
  <2>2. QED
    BY <1>1, <2>1 DEF StrandedInv, Made, Making
<1>6. ASSUME faults' = 0 PROVE NoError'
  <2>1. ~Fault /\ NoError /\ inst[v].pc \notin {"error", "respawn"}
    BY <1>2, <1>4, <1>6 DEF Fault, StrandedInv, NoError
  <2>2. inst[v].mode \in {"loop", "drain"}
    BY <1>2 DEF Instances
  <2>3. inst'[v].pc \notin {"error", "respawn"}
    <3>1. CASE StartFile(v)
      BY <1>2, <3>1 DEF StartFile, RecStep, At, Instances
    <3>2. CASE SwitcherTest(v)
      BY <1>2, <3>2 DEF SwitcherTest, RecStep, At, Instances
    <3>3. CASE GetFrame(v)
      BY <1>2, <3>3 DEF GetFrame, RecStep, At, Instances
    <3>4. CASE CountDown(v)
      BY <1>2, <3>4 DEF CountDown, RecStep, At, Instances
    <3>5. CASE RecordFrame(v)
      BY <1>2, <2>2, <3>5 DEF RecordFrame, RecStep, At, Instances
    <3>6. CASE RecordFails(v)
      BY <1>2, <2>2, <3>6 DEF RecordFails, RecStep, At, Instances
    <3>7. CASE DrainTest(v)
      BY <1>2, <3>7 DEF DrainTest, RecStep, At, Instances
    <3>8. CASE DrainSize(v)
      BY <1>2, <3>8 DEF DrainSize, RecStep, At, Instances
    <3>9. CASE StopFile(v)
      BY <1>2, <3>9 DEF StopFile, RecStep, At, Instances
    <3>10. CASE RenameFile(v)
      BY <1>2, <3>10 DEF RenameFile, RecStep, At, Instances
    <3>11. ~StartFails(v) /\ ~StopFails(v) /\ ~CleanUp(v) /\ ~NoRespawn(v)
      BY <2>1 DEF StartFails, StopFails, CleanUp, NoRespawn, RecStep
    <3>12. QED
      BY <3>1, <3>2, <3>3, <3>4, <3>5, <3>6, <3>7, <3>8, <3>9, <3>10, <3>11 DEF Works
  <2>4. QED
    BY <1>1, <2>1, <2>3 DEF NoError
<1>7. StrandedIsFirst'
  BY <1>1, <1>4, StrandedQuiet DEF StrandedInv
<1>8. QED
  BY <1>5, <1>6, <1>7 DEF StrandedInv

\* The commands and the broadcasts: whoever is unregistered is turned off.
LEMMA StrandedMain ==
  ASSUME IInv, StrandedInv, MainWorks
  PROVE  StrandedInv'
<1>1. /\ UNCHANGED <<born, mk, faults>>
      /\ \A c \in Cams : cam'[c].pc = cam[c].pc /\ cam'[c].own = cam[c].own
      /\ \A v \in Recs : inst'[v].pc = inst[v].pc
      /\ mpc = "switchOff" => mk[Main].pc = "none"
  BY MainWorked
<1>2. \/ UNCHANGED inst
      \/ inst' = [inst EXCEPT ![slot].flag = 1]
      \/ inst' = [inst EXCEPT ![slot].switcher = 0]
      \/ inst' = [inst EXCEPT ![mv] = [@ EXCEPT !.switcher = 0, !.registered = FALSE]]
  BY DEF MainWorks, MarkStop, StopSlot, Drop, NoRestart, SwitchOff, CloseCamera,
    DeliverSwitch, DeliverStop, PressStop, SendFileSwitch
<1>3. ASSUME NEW v \in Recs, inst'[v].switcher = 1
      PROVE  inst[v].switcher = 1 /\ inst'[v].registered = inst[v].registered
  <2>1. inst[v] \in Instances /\ inst \in [Recs -> Instances]
    BY Known
  <2>2. inst'[v] \in {inst[v], [inst[v] EXCEPT !.flag = 1],
                      [inst[v] EXCEPT !.switcher = 0],
                      [inst[v] EXCEPT !.switcher = 0, !.registered = FALSE]}
    BY <1>2, <2>1
  <2>3. CASE inst'[v] = inst[v]
    BY <1>3, <2>3
  <2>4. CASE inst'[v] = [inst[v] EXCEPT !.flag = 1]
    BY <1>3, <2>1, <2>4 DEF Instances
  <2>5. CASE \/ inst'[v] = [inst[v] EXCEPT !.switcher = 0]
             \/ inst'[v] = [inst[v] EXCEPT !.switcher = 0, !.registered = FALSE]
    <3>1. inst'[v].switcher = 0
      BY <2>1, <2>5 DEF Instances
    <3>2. QED
      BY <1>3, <3>1
  <2>6. QED
    BY <2>2, <2>3, <2>4, <2>5
<1>4. Made'
  <2>1. ~Making(Main)
    BY <1>1 DEF StrandedInv, Made, Making
  <2>2. QED
    BY <1>1, <2>1 DEF StrandedInv, Made, Making
<1>5. faults' = 0 => NoError'
  BY <1>1 DEF StrandedInv, NoError
<1>6. StrandedIsFirst'
  BY <1>1, <1>3, StrandedQuiet DEF StrandedInv
<1>7. QED
  BY <1>4, <1>5, <1>6 DEF StrandedInv

\* The turns of a camera thread, and its start.
LEMMA StrandedTurn ==
  ASSUME IInv, StrandedInv, NEW c \in Cams, Turns(c) \/ PressRecord(c)
  PROVE  StrandedInv'
<1>1. /\ UNCHANGED <<inst, born, mk, mpc, faults>>
      /\ \A d \in Cams : d # c => cam'[d] = cam[d]
      /\ cam'[c].own = cam[c].own
      /\ Making(c) => cam'[c] = cam[c]
      /\ cam'[c].pc = "off" => cam[c].pc = "off"
  <2>1. CASE Turns(c)
    BY <2>1, Turned DEF mainvars, StrandedInv, Made
  <2>2. CASE PressRecord(c)
    <3>1. /\ cam[c].pc = "off" /\ mpc = "idle" /\ mpc' = "idle"
          /\ UNCHANGED <<inst, born, mk, faults>>
      BY <2>2 DEF PressRecord, MainStep
    <3>2. PICK found \in BOOLEAN : cam' = [cam EXCEPT ![c] = [NewCamera EXCEPT
            !.pc = IF found THEN "loop" ELSE "ended",
            !.flag = 1, !.registered = TRUE, !.util = TRUE]]
      BY <2>2 DEF PressRecord
    <3>3. /\ \A d \in Cams : d # c => cam'[d] = cam[d]
          /\ cam'[c].own = 0 /\ cam'[c].pc # "off"
      BY <3>2, Known DEF NewCamera
    <3>4. cam[c].own = 0 /\ ~Making(c)
      BY <3>1 DEF StrandedInv, Made
    <3>5. QED
      BY <3>1, <3>3, <3>4
  <2>3. QED
    BY <2>1, <2>2
<1>2. Made'
  BY <1>1 DEF StrandedInv, Made, Making
<1>3. (faults' = 0 => NoError') /\ StrandedIsFirst'
  BY <1>1 DEF StrandedInv, NoError, StrandedIsFirst
<1>4. QED
  BY <1>2, <1>3 DEF StrandedInv

\* Every step keeps the invariant.
LEMMA StrandedNext ==
  ASSUME IInv, StrandedInv, [Next]_vars
  PROVE  StrandedInv'
<1>1. CASE UNCHANGED vars
  BY <1>1 DEF vars, mainvars, StrandedInv, Made, Making, NoError, StrandedIsFirst
<1>2. ASSUME NEW c \in Cams, CameraCreates(c) PROVE StrandedInv'
  <2>1. /\ Construct(c, FALSE) /\ cam[c].pc = "added" /\ cam[c].own = 0
        /\ UNCHANGED <<cam, mpc>>
    BY <1>2 DEF CameraCreates, mainvars
  <2>2. c \in Workers /\ c # Main
    BY Sets
  <2>3. Making(Main) => mpc' = "switchOff"
    BY <2>1 DEF StrandedInv, Made
  <2>4. QED
    BY <2>1, <2>2, <2>3, StrandedConstruct
<1>3. CASE Restart
  <2>1. /\ mpc = "restart" /\ mpc' = "switchOff" /\ UNCHANGED cam
        /\ Construct(Main, inst[mv].listener)
    BY <1>3 DEF Restart, MainStep
  <2>2. inst[mv].listener \in BOOLEAN
    BY <2>1, Known DEF Instances
  <2>3. QED
    BY <2>1, <2>2, StrandedConstruct, Sets
<1>4. ASSUME NEW v \in Recs, Respawn(v) PROVE StrandedInv'
  <2>1. Construct(v, inst[v].listener) /\ UNCHANGED <<cam, mpc>>
    BY <1>4 DEF Respawn, mainvars
  <2>2. inst[v].listener \in BOOLEAN
    BY Known DEF Instances
  <2>3. v \in Workers /\ v # Main /\ v \notin Cams
    BY Sets
  <2>4. Making(Main) => mpc' = "switchOff"
    BY <2>1 DEF StrandedInv, Made
  <2>5. QED
    BY <2>1, <2>2, <2>3, <2>4, StrandedConstruct
<1>5. CASE Next
  BY <1>2, <1>3, <1>4, <1>5, Steps, StrandedMake, StrandedWork, StrandedMain, StrandedTurn
<1>6. QED
  BY <1>1, <1>5

\* Whatever is asked of the program and when: until the first exception, a
\* recorder that no file switch reaches any more and that still records is
\* the first one of a camera thread.
THEOREM StrandedAlways == Spec => []StrandedIsFirst
<1>1. Init => StrandedInv
  BY Sets DEF Init, StrandedInv, Made, Making, NoError, StrandedIsFirst, NewCamera,
    NewInstance
<1>2. IInv /\ StrandedInv /\ [Next]_vars => StrandedInv'
  BY StrandedNext
<1>3. StrandedInv => StrandedIsFirst
  BY DEF StrandedInv
<1>4. QED
  BY <1>1, <1>2, <1>3, InvCorrect, PTL DEF Spec
=============================================================================
