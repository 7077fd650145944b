------------------------------ MODULE Recorder ------------------------------
(***************************************************************************)
(* Recording on one camera channel: the camera threads (UsbCameraData)     *)
(* that fill the channel's frame buffer, the recorder instances            *)
(* (VideoCapture) that empty it into video files and replace one another   *)
(* at every file switch, and the main thread, which runs the user's        *)
(* commands and delivers broadcasts one at a time.  The buffer is an       *)
(* instance of FrameQueue.  The threads interleave at every access to what *)
(* they share: VariableKeeper.videoCaptures[x] (slot), the switcher and    *)
(* video_record_flag of an instance, the buffer and its counter.           *)
(***************************************************************************)
EXTENDS Integers, Sequences, FiniteSets

CONSTANTS
  Cams,             \* UsbCameraData threads: one for each press of "record"
  Main,             \* the Android main thread
  BitMapHolderMax,  \* VariableKeeper.APP_CONSTANT.BitMapHolderMax
  MaxFrames,        \* bound: frames grabbed
  MaxRec,           \* bound: VideoCapture instances constructed
  MaxSwitches,      \* bound: file-switch broadcasts sent
  MaxStops,         \* bound: presses of "stop"
  MaxFaults,        \* bound: exceptions thrown by the FFmpeg recorder
  NameSteps,        \* {1}: no two instances are constructed in one second
                    \* {0, 1}: they may be, and then get the same file name
  Calm              \* TRUE: the user asks for nothing, and no broadcast is
                    \* left to deliver, while a camera thread has yet to
                    \* start its first recorder

Recs == 1..MaxRec
Workers == Cams \cup Recs \cup {Main}
Frames == 1..MaxFrames

ASSUME RecorderAssumption ==
  /\ IsFiniteSet(Cams)
  /\ Cams \cap Recs = {}
  /\ Main \notin Cams \cup Recs
  /\ {BitMapHolderMax, MaxFrames, MaxRec, MaxSwitches, MaxStops, MaxFaults}
       \subseteq Nat
  /\ NameSteps \subseteq {0, 1}
  /\ Calm \in BOOLEAN

VARIABLES
  holders, size, op, hand, reg, grabbed, lost,  \* the buffer: FrameQueue
  inst,      \* the VideoCapture instances
  born,      \* how many of them have been constructed
  slot,      \* VariableKeeper.videoCaptures[x], 0 for null
  mk,        \* the instance each thread is constructing, and the next step
  cam,       \* the camera threads
  mpc, mv,   \* step of the main thread, and the receiver it is in
  looper,    \* broadcasts sent and not yet delivered
  switches, stops, faults,
  raw,       \* writers of the file of each name that has no end time yet
  kept,      \* writers of the files renamed to start==end.mp4
  logged     \* history: the instance that wrote each frame, 0 for none

qvars == <<holders, size, op, hand, reg, grabbed, lost>>
mainvars == <<mpc, mv, looper, switches, stops>>
filevars == <<raw, kept, logged>>
vars == <<qvars, inst, born, slot, mk, cam, mainvars, faults, filevars>>

Queue == INSTANCE FrameQueue WITH Producers <- Cams, Consumers <- Recs

\* The fields of VideoCapture other threads or later steps depend on.
NewInstance ==
  [pc |-> "new",         \* step its thread is at
   mode |-> "loop",      \* loop the thread is in: recording or draining
   switcher |-> 0,       \* 1 while the thread is to go on recording
   flag |-> 0,           \* video_record_flag: 0 file switch, 1 stop
   registered |-> FALSE, \* its FILE_SWITCH receiver is registered
   listener |-> FALSE,   \* its recordListener is not null
   name |-> 0,           \* second in its file name
   opened |-> FALSE]     \* its FFmpeg recorder has the file open

\* The fields of UsbCameraData.
NewCamera ==
  [pc |-> "off",
   flag |-> 0,           \* thread_flag
   registered |-> FALSE, \* its stop receiver is registered
   util |-> FALSE,       \* its camera is open
   own |-> 0]            \* videoCaptures[x] and videoCapture_Lock[x]

Init ==
  /\ Queue!Init
  /\ inst = [v \in Recs |-> NewInstance]
  /\ born = 0
  /\ slot = 0
  /\ mk = [t \in Workers |-> [pc |-> "none", kid |-> 0]]
  /\ cam = [c \in Cams |-> NewCamera]
  /\ mpc = "idle" /\ mv = 0 /\ looper = <<>>
  /\ switches = 0 /\ stops = 0 /\ faults = 0
  /\ raw = [n \in Recs |-> {}]
  /\ kept = {}
  /\ logged = [f \in Frames |-> 0]

-----------------------------------------------------------------------------
\* new VideoCapture(...) and start(), by thread t: a camera thread, the main
\* thread or a recorder thread.

\* The second of the file name: the clock of the last one, or a later one.
Seconds == IF born = 0 THEN {1} ELSE {inst[born].name + d : d \in NameSteps}

\* Mutant of Construct: the old instance is not stopped.
ConstructBeside(t, lsnr) ==
  /\ mk[t].pc = "none" /\ born < MaxRec
  /\ born' = born + 1
  /\ \E s \in Seconds :
       inst' = [inst EXCEPT ![born + 1] = [NewInstance EXCEPT
                  !.registered = TRUE, !.listener = lsnr, !.name = s]]
  /\ mk' = [mk EXCEPT ![t] = [pc |-> "slot", kid |-> born + 1]]
  /\ UNCHANGED <<qvars, slot, filevars, faults>>

\* Register the receiver, name the file by the current second, and stop the
\* instance that is in the slot.
Construct(t, lsnr) ==
  /\ mk[t].pc = "none"
  /\ born < MaxRec
  /\ born' = born + 1
  /\ \E s \in Seconds :
       inst' = [v \in Recs |->
         CASE v = born + 1 -> [NewInstance EXCEPT
                !.registered = TRUE, !.listener = lsnr, !.name = s]
           [] v = slot -> [inst[v] EXCEPT !.switcher = 0]
           [] OTHER -> inst[v]]
  /\ mk' = [mk EXCEPT ![t] = [pc |-> "slot", kid |-> born + 1]]
  /\ UNCHANGED <<qvars, slot, filevars, faults>>

\* Mutant of TakeSlot: the slot keeps its first instance.
TakeFreeSlot(t) ==
  /\ mk[t].pc = "slot"
  /\ slot' = IF slot = 0 THEN mk[t].kid ELSE slot
  /\ mk' = [mk EXCEPT ![t].pc = IF t \in Cams THEN "listen" ELSE "start"]
  /\ UNCHANGED <<qvars, inst, born, cam, mainvars, faults, filevars>>

\* Put the new instance in the slot.  Only the camera thread sets a listener
\* afterwards; a restart has handed its own one to the constructor.
TakeSlot(t) ==
  /\ mk[t].pc = "slot"
  /\ slot' = mk[t].kid
  /\ mk' = [mk EXCEPT ![t].pc = IF t \in Cams THEN "listen" ELSE "start"]
  /\ UNCHANGED <<qvars, inst, born, cam, mainvars, faults, filevars>>

SetListener(c) ==
  /\ mk[c].pc = "listen"
  /\ inst' = [inst EXCEPT ![mk[c].kid].listener = TRUE]
  /\ mk' = [mk EXCEPT ![c].pc = "start"]
  /\ UNCHANGED <<qvars, born, slot, cam, mainvars, faults, filevars>>

\* start(): start_flag is never set, so nothing keeps it from starting.
Start(t) ==
  /\ mk[t].pc = "start"
  /\ inst' = [v \in Recs |->
       IF v = mk[t].kid THEN [inst[v] EXCEPT !.switcher = 1, !.pc = "starting"]
       ELSE IF v = t THEN [inst[v] EXCEPT !.pc = "done"]  \* after a respawn
       ELSE inst[v]]
  /\ mk' = [mk EXCEPT ![t] = [pc |-> "none", kid |-> 0]]
  /\ cam' = IF t \in Cams
            THEN [cam EXCEPT ![t] = [@ EXCEPT !.own = mk[t].kid, !.pc = "loop"]]
            ELSE cam
  /\ UNCHANGED <<qvars, born, slot, mainvars, faults, filevars>>

-----------------------------------------------------------------------------
\* The camera thread, UsbCameraData.run.

CamStep(c, from, to) ==
  /\ cam[c].pc = from
  /\ cam' = [cam EXCEPT ![c].pc = to]
  /\ UNCHANGED <<inst, born, slot, mk, mainvars, faults, filevars>>

LoopTest(c) ==
  /\ CamStep(c, "loop", IF cam[c].flag = 1 THEN "grab" ELSE "ended")
  /\ UNCHANGED qvars

\* A picture from the driver and the call of add().  A picture that cannot
\* be split is a turn without effect.
Grab(c) ==
  /\ cam[c].util
  /\ CamStep(c, "grab", "added")
  /\ Queue!AddDrops(c) \/ Queue!AddAccepts(c)

QueueStep(c) ==
  /\ Queue!Put(c) \/ Queue!IncLoad(c) \/ Queue!IncStore(c)
  /\ UNCHANGED <<inst, born, slot, mk, cam, mainvars, faults, filevars>>

\* The first frame starts the channel's recorder.
CameraCreates(c) ==
  /\ cam[c].pc = "added" /\ op[c] = "idle" /\ cam[c].own = 0
  /\ Construct(c, FALSE)
  /\ UNCHANGED <<cam, mainvars>>

\* The preview is served (or the bitmaps recycled) and the turn ends.
NextTurn(c) ==
  /\ op[c] = "idle" /\ cam[c].own # 0 /\ cam[c].util
  /\ CamStep(c, "added", "loop")
  /\ UNCHANGED qvars

\* The stop receiver has nulled cameraUtil and the frame arrays meanwhile.
CameraCrashes(c) ==
  /\ ~cam[c].util /\ op[c] = "idle"
  /\ \/ CamStep(c, "grab", "crashed")
     \/ CamStep(c, "added", "crashed") /\ cam[c].own # 0
  /\ UNCHANGED qvars

-----------------------------------------------------------------------------
\* The recorder thread, VideoCapture.start.

\* Step of thread v that touches only its own instance.
RecStep(v, from, to) ==
  /\ inst[v].pc = from
  /\ inst' = [inst EXCEPT ![v] = to]
  /\ UNCHANGED <<born, slot, mk, cam, mainvars>>

At(v, pc) == [inst[v] EXCEPT !.pc = pc]
NoFault == UNCHANGED faults
Fault == faults < MaxFaults /\ faults' = faults + 1

\* onStopRecord: give the file its final name, if it is still there.
Finalise(v) ==
  /\ kept' = kept \cup raw[inst[v].name]
  /\ raw' = [raw EXCEPT ![inst[v].name] = {}]
  /\ UNCHANGED logged

StartFile(v) ==
  /\ RecStep(v, "starting", [At(v, "loop") EXCEPT !.opened = TRUE])
  /\ raw' = [raw EXCEPT ![inst[v].name] = @ \cup {v}]
  /\ UNCHANGED <<qvars, kept, logged>> /\ NoFault

\* An exception of recorder.start() is logged and the thread goes on.
StartFails(v) ==
  RecStep(v, "starting", At(v, "loop")) /\ Fault /\ UNCHANGED <<qvars, filevars>>

SwitcherTest(v) ==
  /\ RecStep(v, "loop", IF inst[v].switcher # 0 THEN At(v, "take")
                        ELSE [At(v, "drain") EXCEPT !.mode = "drain"])
  /\ UNCHANGED <<qvars, filevars>> /\ NoFault

GetFrame(v) ==
  /\ RecStep(v, "take", At(v, "taking"))
  /\ Queue!Take(v)
  /\ UNCHANGED filevars /\ NoFault

CountDown(v) ==
  /\ \/ RecStep(v, "taking", At(v, "taking")) /\ Queue!DecLoad(v)
     \/ RecStep(v, "taking", At(v, "record")) /\ Queue!DecStore(v)
  /\ UNCHANGED filevars /\ NoFault

RecordFrame(v) ==
  /\ inst[v].opened
  /\ RecStep(v, "record", At(v, inst[v].mode))
  /\ logged' = [logged EXCEPT ![hand[v]] = v]
  /\ UNCHANGED <<qvars, raw, kept>> /\ NoFault

\* Mutant of RecordFails: the frame is tried again.
RecordRetries(v) ==
  /\ RecStep(v, "record", At(v, "record"))
  /\ IF inst[v].opened THEN Fault ELSE NoFault
  /\ UNCHANGED <<qvars, filevars>>

\* An exception of recorder.record() gives the file its final name and the
\* thread goes on; with no listener it dies of a NullPointerException.
RecordFails(v) ==
  /\ RecStep(v, "record",
       IF inst[v].listener THEN At(v, inst[v].mode)
                           ELSE [At(v, "crashed") EXCEPT !.opened = FALSE])
  /\ IF inst[v].opened THEN Fault ELSE NoFault
  /\ IF inst[v].listener THEN Finalise(v) ELSE UNCHANGED filevars
  /\ UNCHANGED qvars

\* Was it a stop?  Then frames are taken until the counter says there are
\* none.
DrainTest(v) ==
  /\ RecStep(v, "drain", At(v, IF inst[v].flag = 1 THEN "drainSize" ELSE "stop"))
  /\ UNCHANGED <<qvars, filevars>> /\ NoFault

\* Mutant of DrainSize: the last frame is left.
DrainButOne(v) ==
  /\ RecStep(v, "drainSize", At(v, IF size <= 1 THEN "stop" ELSE "take"))
  /\ UNCHANGED <<qvars, filevars>> /\ NoFault

DrainSize(v) ==
  /\ RecStep(v, "drainSize", At(v, IF size = 0 THEN "stop" ELSE "take"))
  /\ UNCHANGED <<qvars, filevars>> /\ NoFault

StopFile(v) ==
  /\ RecStep(v, "stop", [At(v, "rename") EXCEPT !.switcher = 0, !.opened = FALSE])
  /\ UNCHANGED <<qvars, filevars>> /\ NoFault

StopFails(v) ==
  /\ RecStep(v, "stop", [At(v, "error") EXCEPT !.switcher = 0]) /\ Fault
  /\ UNCHANGED <<qvars, filevars>>

RenameFile(v) ==
  /\ RecStep(v, "rename", At(v, IF inst[v].listener THEN "done" ELSE "crashed"))
  /\ IF inst[v].listener THEN Finalise(v) ELSE UNCHANGED filevars
  /\ UNCHANGED qvars /\ NoFault

\* Mutant of CleanUp: the file is forgotten.
ForgetFile(v) ==
  /\ RecStep(v, "error", [At(v, "respawn") EXCEPT !.opened = FALSE])
  /\ UNCHANGED <<qvars, filevars>> /\ NoFault

\* The handler of the exception stops the recorder once more (whether it can
\* or not), gives the file its name, and calls Stop() and then
\* recorderThreadRestart().
CleanUp(v) ==
  /\ RecStep(v, "error",
       [At(v, IF inst[v].listener THEN "respawn" ELSE "crashed") EXCEPT
         !.opened = FALSE, !.switcher = 0])
  /\ IF inst[v].listener THEN Finalise(v) ELSE UNCHANGED filevars
  /\ UNCHANGED qvars /\ NoFault

Respawn(v) ==
  /\ inst[v].pc = "respawn" /\ inst[v].flag = 0
  /\ Construct(v, inst[v].listener)
  /\ UNCHANGED <<cam, mainvars>>

NoRespawn(v) ==
  /\ mk[v].pc = "none" /\ inst[v].flag = 1
  /\ RecStep(v, "respawn", At(v, "done"))
  /\ UNCHANGED <<qvars, filevars>> /\ NoFault

-----------------------------------------------------------------------------
\* The main thread: commands of the user, and broadcasts in the order they
\* were sent, each delivered to the receivers registered when it was sent
\* that still are registered.

MainStep(from, to, receiver) ==
  /\ mpc = from
  /\ mpc' = to
  /\ mv' = receiver
  /\ UNCHANGED <<qvars, filevars, faults>>

Starting(c) == cam[c].pc \in {"loop", "grab", "added"} /\ cam[c].own = 0
MayAsk == Calm => \A c \in Cams : ~Starting(c)
Broadcast(k, receivers) == looper' = Append(looper, [kind |-> k, to |-> receivers])

\* "record": a new UsbCameraData registers its stop receiver and starts; its
\* thread ends at once when no camera could be opened.
PressRecord(c) ==
  /\ cam[c].pc = "off"
  /\ MayAsk /\ (Calm => looper = <<>>)
  /\ MainStep("idle", "idle", 0)
  /\ \E found \in BOOLEAN :
       cam' = [cam EXCEPT ![c] = [NewCamera EXCEPT
         !.pc = IF found THEN "loop" ELSE "ended",
         !.flag = 1, !.registered = TRUE, !.util = TRUE]]
  /\ UNCHANGED <<inst, born, slot, mk, looper, switches, stops>>

\* Mutant of PressStop: the slot is not tested for null.
StopAnyway ==
  /\ stops < MaxStops /\ MayAsk
  /\ stops' = stops + 1
  /\ Broadcast("stop", {c \in Cams : cam[c].registered})
  /\ MainStep("idle", "mark", 0)
  /\ UNCHANGED <<inst, born, slot, mk, cam, switches>>

\* "stop", and the same code on a low battery: broadcast CAMERA.ALL.STOP,
\* then mark and stop the instance in the slot.
PressStop ==
  /\ stops < MaxStops /\ MayAsk
  /\ stops' = stops + 1
  /\ Broadcast("stop", {c \in Cams : cam[c].registered})
  /\ MainStep("idle", IF slot = 0 THEN "idle" ELSE "mark", 0)
  /\ UNCHANGED <<inst, born, slot, mk, cam, switches>>

MarkStop ==
  /\ MainStep("mark", "stop", 0)
  /\ inst' = [inst EXCEPT ![slot].flag = 1]
  /\ UNCHANGED <<born, slot, mk, cam, looper, switches, stops>>

StopSlot ==
  /\ MainStep("stop", "idle", 0)
  /\ inst' = [inst EXCEPT ![slot].switcher = 0]
  /\ UNCHANGED <<born, slot, mk, cam, looper, switches, stops>>

\* FILE_SWITCH, sent by the timer every 20 minutes and by the user.
SendFileSwitch ==
  /\ switches < MaxSwitches /\ MayAsk
  /\ switches' = switches + 1
  /\ Broadcast("switch", {v \in Recs : inst[v].registered})
  /\ MainStep("idle", "idle", 0)
  /\ UNCHANGED <<inst, born, slot, mk, cam, stops>>

\* The oldest broadcast goes to one more receiver, or is done with.
Deliver(k, x) ==
  /\ looper # <<>>
  /\ Head(looper).kind = k
  /\ x \in Head(looper).to
  /\ looper' = [looper EXCEPT ![1].to = @ \ {x}]

Drop ==
  /\ looper # <<>>
  /\ Head(looper).to = {}
  /\ looper' = Tail(looper)
  /\ MainStep("idle", "idle", 0)
  /\ UNCHANGED <<inst, born, slot, mk, cam, switches, stops>>

DeliverSwitch(v) ==
  /\ Deliver("switch", v)
  /\ IF inst[v].registered THEN MainStep("idle", "restart", v)
                           ELSE MainStep("idle", "idle", 0)
  /\ UNCHANGED <<inst, born, slot, mk, cam, switches, stops>>

\* recorderThreadRestart() on the main thread.
Restart ==
  /\ MainStep("restart", "switchOff", mv)
  /\ inst[mv].flag = 0
  /\ Construct(Main, inst[mv].listener)
  /\ UNCHANGED <<cam, looper, switches, stops>>

\* Mutant of NoRestart: an instance may switch files without an heir.
NoHeir ==
  /\ MainStep("restart", "switchOff", mv)
  /\ UNCHANGED <<inst, born, slot, mk, cam, looper, switches, stops>>

NoRestart ==
  /\ MainStep("restart", "switchOff", mv)
  /\ inst[mv].flag = 1
  /\ UNCHANGED <<inst, born, slot, mk, cam, looper, switches, stops>>

\* Mutants of SwitchOff: the receiver stays registered; it is the one in the
\* slot, by now the successor, that is unregistered.
StayRegistered ==
  /\ mk[Main].pc = "none"
  /\ MainStep("switchOff", "idle", 0)
  /\ inst' = [inst EXCEPT ![mv].switcher = 0]
  /\ UNCHANGED <<born, slot, mk, cam, looper, switches, stops>>

UnregisterSlot ==
  /\ mk[Main].pc = "none"
  /\ MainStep("switchOff", "idle", 0)
  /\ inst' = [inst EXCEPT ![mv].switcher = 0, ![slot].registered = FALSE]
  /\ UNCHANGED <<born, slot, mk, cam, looper, switches, stops>>

\* Stop() and unregisterReceiver.
SwitchOff ==
  /\ mk[Main].pc = "none"
  /\ MainStep("switchOff", "idle", 0)
  /\ inst' = [inst EXCEPT ![mv] = [@ EXCEPT !.switcher = 0,
                                          !.registered = FALSE]]
  /\ UNCHANGED <<born, slot, mk, cam, looper, switches, stops>>

\* The stop receiver of a camera: clear the flag, sleep one second, close the
\* camera.
DeliverStop(c) ==
  /\ Deliver("stop", c)
  /\ IF cam[c].registered
     THEN /\ cam' = [cam EXCEPT ![c].flag = 0]
          /\ MainStep("idle", "sleep", c)
     ELSE MainStep("idle", "idle", 0) /\ UNCHANGED cam
  /\ UNCHANGED <<inst, born, slot, mk, switches, stops>>

CloseCamera ==
  /\ MainStep("sleep", "idle", 0)
  /\ cam' = [cam EXCEPT ![mv] = [@ EXCEPT !.util = FALSE, !.registered = FALSE]]
  /\ UNCHANGED <<inst, born, slot, mk, looper, switches, stops>>

-----------------------------------------------------------------------------

CameraGoesOn(c) ==
  \/ LoopTest(c) \/ QueueStep(c) \/ CameraCreates(c)
  \/ TakeSlot(c) \/ SetListener(c) \/ Start(c) \/ NextTurn(c)
  \/ CameraCrashes(c)

RecorderNext(v) ==
  \/ StartFile(v) \/ StartFails(v) \/ SwitcherTest(v) \/ GetFrame(v)
  \/ CountDown(v) \/ RecordFrame(v) \/ RecordFails(v) \/ DrainTest(v)
  \/ DrainSize(v) \/ StopFile(v) \/ StopFails(v) \/ RenameFile(v)
  \/ CleanUp(v) \/ Respawn(v) \/ NoRespawn(v) \/ TakeSlot(v) \/ Start(v)

\* What the main thread does once something has been asked of it.
MainBusy ==
  \/ MarkStop \/ StopSlot \/ Drop \/ Restart \/ NoRestart \/ SwitchOff
  \/ CloseCamera \/ TakeSlot(Main) \/ Start(Main)
  \/ \E v \in Recs : DeliverSwitch(v)
  \/ \E c \in Cams : DeliverStop(c)

MainAsked ==
  PressStop \/ SendFileSwitch \/ \E c \in Cams : PressRecord(c)

Next ==
  \/ \E c \in Cams : Grab(c) \/ CameraGoesOn(c)
  \/ \E v \in Recs : RecorderNext(v)
  \/ MainBusy
  \/ MainAsked

Spec == Init /\ [][Next]_vars

\* Threads that can run do run: the kernel starves none of them.  Nobody owes
\* the program a command, a picture or an exception.
Fairness ==
  /\ WF_vars(MainBusy)
  /\ \A c \in Cams : WF_vars(CameraGoesOn(c))
  /\ \A v \in Recs : WF_vars(RecorderNext(v))

FairSpec == Spec /\ Fairness

-----------------------------------------------------------------------------

RecPcs == {"new", "starting", "loop", "take", "taking", "record", "drain",
           "drainSize", "stop", "rename", "error", "respawn", "done", "crashed"}

Instances ==
  [pc : RecPcs, mode : {"loop", "drain"}, switcher : {0, 1}, flag : {0, 1},
   registered : BOOLEAN, listener : BOOLEAN, name : 0..MaxRec,
   opened : BOOLEAN]

Cameras ==
  [pc : {"off", "loop", "grab", "added", "ended", "crashed"}, flag : {0, 1},
   registered : BOOLEAN, util : BOOLEAN, own : 0..MaxRec]

Broadcasts ==
  [kind : {"stop"}, to : SUBSET Cams] \cup [kind : {"switch"}, to : SUBSET Recs]

\* The type invariant.
TypeOK ==
  /\ Queue!QTypeOK
  /\ inst \in [Recs -> Instances]
  /\ born \in 0..MaxRec
  /\ \A v \in 1..born : inst[v].name \in 1..v
  /\ slot \in 0..born
  /\ mk \in [Workers -> [pc : {"none", "slot", "listen", "start"},
                         kid : 0..MaxRec]]
  /\ \A t \in Workers : mk[t].pc # "none" => mk[t].kid \in 1..born
  /\ cam \in [Cams -> Cameras]
  /\ mpc \in {"idle", "mark", "stop", "restart", "switchOff", "sleep"}
  /\ mpc \in {"mark", "stop"} => slot # 0
  /\ mpc \in {"restart", "switchOff"} => mv \in 1..born
  /\ mpc = "sleep" => mv \in Cams
  /\ looper \in Seq(Broadcasts)
  /\ switches \in 0..MaxSwitches
  /\ stops \in 0..MaxStops
  /\ faults \in 0..MaxFaults
  /\ raw \in [Recs -> SUBSET Recs]
  /\ kept \in SUBSET Recs
  /\ logged \in [Frames -> 0..MaxRec]

\* Every frame is written to at most one file, and those of one file in the
\* order of the camera, although recorders overlap on the buffer at every
\* file switch (VideoCapture.java:120-145).  Two camera threads on one
\* channel may reorder frames.
Promise == INSTANCE FrameLog
  WITH Files <- Recs, Ordered <- Cardinality(Cams) = 1, produced <- grabbed
FramesOnceInOrder == Promise!Spec

\* At most one recorder of the channel is told to record at a time: whoever
\* constructs an instance stops the one before (VideoCapture.java:83-86).
\* This one and the next three hold under Calm only, and end with the first
\* exception.
UniqueActive ==
  faults = 0 =>
    \A v, w \in Recs : inst[v].switcher = 1 /\ inst[w].switcher = 1 => v = w

\* The next FILE_SWITCH makes one recorder out of one: no two instances are
\* there to answer it with a respawn (VideoCapture.java:70-76, 89-95).
OneHeir ==
  faults = 0 /\ mpc = "idle" /\ (\A t \in Workers : mk[t].pc = "none") =>
    \A v, w \in 1..born :
      /\ inst[v].registered /\ inst[v].flag = 0
      /\ inst[w].registered /\ inst[w].flag = 0
      => v = w

\* Between two files no frame waits for a reader that will never come: until
\* a stop there is a recorder at work, or one is being constructed
\* (VideoCapture.java:134: the frames left over at a file switch are safe,
\* the thread after it goes on with them).
SwitchKeepsReader ==
  faults = 0 /\ stops = 0 /\ (\E c \in Cams : cam[c].own # 0) =>
    \/ \E v \in Recs : inst[v].switcher = 1
    \/ \E t \in Workers : mk[t].kid # 0

\* Once "stop" has been handled no recorder is left recording: the one in the
\* slot was the only one (FeaturesFragment.java:91-97).
StopReachesAll ==
  [][faults = 0 /\ mpc = "stop" /\ mpc' = "idle" =>
       \A v \in Recs : inst'[v].switcher = 0]_vars

\* A recorder that goes on after its receiver has handled a file switch, and
\* that no later switch reaches, is the first one of a camera thread, which
\* starts it late; those that file switches make are off for good
\* (VideoCapture.java:71-75, UsbCameraData.java:106-110).  Restarts after an
\* exception are made by recorder threads and may be late as well.
StrandedIsFirst ==
  faults = 0 =>
    \A v \in 1..born : ~inst[v].registered /\ inst[v].switcher = 1 =>
      \E c \in Cams : cam[c].own = v

\* When a recorder thread is at its end, however it got there, no file it
\* wrote is left without its end time (VideoRecordStopListener.onStopRecord).
FileFinalised ==
  \A v \in Recs : inst[v].pc \in {"done", "crashed"} =>
    \A n \in Recs : v \notin raw[n]

\* A stop is to consume what is in the buffer (VideoCapture.java:135), but
\* the drain loop ends by the counter: at that moment the buffer has a frame
\* at most for each camera thread that has put one it has not counted and for
\* each update of the counter that has been overwritten.
DrainLeavesFew ==
  [][\A v \in Recs : inst[v].pc = "drainSize" /\ inst'[v].pc = "stop" =>
       Len(holders) <= Cardinality(Queue!Uncounted) + lost]_vars

\* Recorder threads end up finished, or waiting at an empty buffer: nothing
\* else can hold one up, and none leaves a frame lying while it waits.
Quiesce ==
  <>[](\A v \in Recs : \/ inst[v].pc \in {"new", "done", "crashed"}
                       \/ inst[v].pc = "take" /\ holders = <<>>)

\* VideoCapture.java:203: Stop() lets the working thread exit safely.  (The
\* antecedent leaves out the behaviours cut short by the bound on frames.)
StopLetsThreadExit ==
  [](grabbed < MaxFrames) =>
    \A v \in Recs : inst[v].flag = 1 ~> inst[v].pc \in {"done", "crashed"}
=============================================================================
