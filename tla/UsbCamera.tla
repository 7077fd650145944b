----------------------------- MODULE UsbCamera ------------------------------
(***************************************************************************)
(* The cameras of the recorder: libmycamera (mycamera.c), which opens,     *)
(* maps, starts and stops every camera and keeps its state in static       *)
(* arrays, and the UsbCameraData objects that use it.  The user's "record" *)
(* makes a UsbCameraData, whose constructor prepares the cameras on the    *)
(* main thread and whose thread then takes one image after the other; the  *)
(* "stop" broadcast runs a receiver of every registered UsbCameraData on   *)
(* the main thread, which waits a second for that thread and stops the     *)
(* cameras.  The descriptor, the buffers and the frame memory of a camera  *)
(* carry the number of the UsbCameraData whose prepareCamera made them.    *)
(***************************************************************************)
EXTENDS Integers, Sequences, SequencesExt, V4l2

CONSTANTS
  CAMERANUM,    \* cameras libmycamera knows
  BufferCount,  \* buffers the driver grants on VIDIOC_REQBUFS
  Failures,     \* steps of prepareCamera the device or the system may fail
  MaxRecords,   \* bound: presses of "record"
  MaxStops      \* bound: stop broadcasts

Cameras == 0..(CAMERANUM - 1)
Objects == 1..MaxRecords
Steps == {"stat", "open", "init", "count", "calloc", "mmap", "start"}

ASSUME CameraAssumption ==
  /\ CAMERANUM \in Nat \ {0}
  /\ BufferCount \in Nat \ {0, 1}
  /\ Failures \subseteq Steps
  /\ MaxRecords \in Nat /\ MaxStops \in Nat

VARIABLES
  card,      \* state of each camera
  obj,       \* the UsbCameraData objects and their threads
  born,      \* how many of them have been constructed
  mpc,       \* what the main thread is doing,
  mobj,      \* for which object
  mcam,      \* and for which camera
  looper,    \* stop broadcasts sent: the objects whose receivers are to run
  stops,     \* stop broadcasts sent
  undefined, \* history: undefined behaviour the library has run into
  strayed    \* history: how the use has strayed from the intended one

mainvars == <<mpc, mobj, mcam, looper, stops>>
history == <<undefined, strayed>>
vars == <<card, obj, born, mainvars, history>>

\* "overlap": "record" was pressed while a UsbCameraData was registered.
\* "lost": prepareCamera failed for a camera it had prepared before.
\* "half": prepareCamera failed for a camera after allocating its buffers.
\* "late": a thread was still in the same turn when its second was over.
Strayings == {"overlap", "lost", "half", "late"}

\* The static variables of mycamera.c for one camera, its device node and
\* the memory the library has allocated and not freed.
NewCard ==
  [fd |-> None, buffers |-> None, n |-> 0, rgb |-> None,
   node |-> NewNode,
   heap |-> {}]

NewObject ==
  [pc |-> "none",        \* step its thread is at
   flag |-> 1,           \* thread_flag
   exists |-> FALSE,     \* cameraUtil.cameraExists, the same for all four
   registered |-> FALSE, \* its stop receiver is registered
   util |-> TRUE,        \* cameraUtil is not null
   bitmap |-> TRUE,      \* its bitmap is not recycled
   image |-> None,       \* the frame memory takeImage is copying
   tested |-> TRUE]      \* history: it has tested thread_flag since its stop

Init ==
  /\ card = [i \in Cameras |-> NewCard]
  /\ obj = [s \in Objects |-> NewObject]
  /\ born = 0
  /\ mpc = "idle" /\ mobj = None /\ mcam = 0
  /\ looper = <<>> /\ stops = 0
  /\ undefined = {} /\ strayed = {}

-----------------------------------------------------------------------------
\* mycamera.c: what a call for one camera may return, and the state it
\* leaves.

Result(c, ok) == [card |-> c, ok |-> ok]
Fail(c, step) == {Result(c, FALSE) : x \in {step} \cap Failures}

\* A node that is missing leaves the old descriptor where it is; a failed
\* open() overwrites it.
opendevice(c, s) ==
  Fail(c, "stat") \cup Fail([c EXCEPT !.fd = None], "open")
  \cup {Result([c EXCEPT !.fd = s, !.node = Open(c.node, s)], TRUE)}

initmmap(c, s) ==
  LET r == [c EXCEPT !.node = Request(c.node, c.fd)]
      Mapped(n) == [r EXCEPT !.buffers = s, !.n = n,
                             !.heap = @ \cup {<<"buffers", s>>},
                             !.node = Mmap(r.node, c.fd, n)]
  IN  Fail(r, "count")
      \cup Fail([r EXCEPT !.buffers = None], "calloc")
      \cup (UNION {Fail(Mapped(n), "mmap") : n \in 0..(BufferCount - 1)})
      \cup {Result(Mapped(BufferCount), TRUE)}

initdevice(c, s) ==
  Fail(c, "init")
  \cup IF MayRequest(c.node, c.fd) THEN initmmap(c, s)
                                   ELSE {Result(c, FALSE)}

\* Mutant of startcapturing: one buffer more is queued.
startPast(c) ==
  {Result([c EXCEPT !.node = StreamOn(Queue(c.node, 0..c.n))], TRUE)}

startcapturing(c) ==
  LET q(n) == [c EXCEPT !.node = Queue(c.node, 0..(n - 1))]
  IN  (UNION {Fail(q(n), "start") : n \in 0..c.n})
      \cup {Result([q(c.n) EXCEPT !.node = StreamOn(q(c.n).node)], TRUE)}

\* Mutant of tried: the result of startcapturing is dropped.
triedStart(c, s) ==
  LET inited == UNION {IF r.ok THEN initdevice(r.card, s) ELSE {r}
                         : r \in opendevice(c, s)}
  IN  UNION {IF r.ok THEN {Result(x.card, TRUE) : x \in startcapturing(r.card)}
                     ELSE {r} : r \in inited}

\* Each call is made when the one before has succeeded.
tried(c, s) ==
  LET opened == opendevice(c, s)
      inited == UNION {IF r.ok THEN initdevice(r.card, s) ELSE {r}
                         : r \in opened}
  IN  UNION {IF r.ok THEN startcapturing(r.card) ELSE {r} : r \in inited}

\* Mutant of prepared: the descriptor of a failed camera is kept.
preparedKept(c, s) ==
  {IF r.ok
     THEN Result([r.card EXCEPT !.rgb = s, !.heap = @ \cup {<<"rgb", s>>}], TRUE)
     ELSE r : r \in tried(c, s)}

\* prepareCamera for one camera.
prepared(c, s) ==
  {IF r.ok
     THEN Result([r.card EXCEPT !.rgb = s, !.heap = @ \cup {<<"rgb", s>>}], TRUE)
   ELSE IF r.card.fd # None
     THEN Result([r.card EXCEPT !.fd = None,
                                !.node = Close(r.card.node, r.card.fd)], FALSE)
   ELSE r
   : r \in tried(c, s)}

\* munmap of every buffer and free(buffers[i]).
uninitdevice(c) ==
  [c EXCEPT !.node = Munmap(c.node, c.buffers, c.n),
            !.heap = @ \ {<<"buffers", c.buffers>>}]

\* Mutant of closed: the buffers stay mapped.
closedMapped(c) ==
  IF c.fd = None THEN c
  ELSE LET off == [c EXCEPT !.node = StreamOff(c.node, c.fd)]
       IN  [off EXCEPT !.fd = None, !.node = Close(off.node, c.fd)]

\* stopcapturing, uninitdevice and closedevice.
closed(c) ==
  IF c.fd = None THEN c
  ELSE LET off == uninitdevice([c EXCEPT !.node = StreamOff(c.node, c.fd)])
       IN  [off EXCEPT !.fd = None, !.node = Close(off.node, c.fd)]

\* stopCamera for one camera: the frame memory is freed, and the pointer to
\* it kept.
stopped(c) ==
  LET d == closed(c) IN [d EXCEPT !.heap = @ \ {<<"rgb", c.rgb>>}]

\* What is undefined in stopCamera for a camera in state c.
Misuse(c) ==
  (IF c.fd = None \/ Buffers(c.buffers, c.n) \subseteq c.node.maps
     THEN {} ELSE {"munmap"})
  \cup (IF c.fd = None \/ <<"buffers", c.buffers>> \in c.heap
          THEN {} ELSE {"free buffers"})
  \cup (IF c.rgb = None \/ <<"rgb", c.rgb>> \in c.heap
          THEN {} ELSE {"free rgb"})

-----------------------------------------------------------------------------
\* The main thread.

\* A press of "record": new UsbCameraData, new CameraUtil, prepareCamera(0).
PressRecord ==
  /\ mpc = "idle" /\ born < MaxRecords
  /\ born' = born + 1
  /\ mpc' = "prepare" /\ mobj' = born + 1 /\ mcam' = 0
  /\ strayed' = strayed \cup
       IF \E s \in Objects : obj[s].registered THEN {"overlap"} ELSE {}
  /\ UNCHANGED <<card, obj, looper, stops, undefined>>

\* One turn of the loop of prepareCamera.  CameraUtil reads all four
\* cameraExists from the bit of camera 0.  After the last camera the stop
\* receiver is registered and the thread started.
PrepareCamera ==
  /\ mpc = "prepare"
  /\ \E r \in prepared(card[mcam], mobj) :
       /\ card' = [card EXCEPT ![mcam] = r.card]
       /\ strayed' = strayed
            \cup (IF ~r.ok /\ card[mcam].rgb # None THEN {"lost"} ELSE {})
            \cup (IF ~r.ok /\ <<"buffers", mobj>> \in r.card.heap THEN {"half"} ELSE {})
       /\ obj' = [obj EXCEPT ![mobj].exists = IF mcam = 0 THEN r.ok ELSE @,
                    ![mobj].registered = (mcam = CAMERANUM - 1),
                    ![mobj].pc = IF mcam = CAMERANUM - 1 THEN "loop" ELSE @]
  /\ IF mcam = CAMERANUM - 1
       THEN mpc' = "idle" /\ mobj' = None /\ mcam' = 0
       ELSE mcam' = mcam + 1 /\ UNCHANGED <<mpc, mobj>>
  /\ UNCHANGED <<born, looper, stops, undefined>>

\* The receivers that are registered, in the order they were.
Registered ==
  LET R == {s \in Objects : obj[s].registered}
  IN  {q \in [1..Cardinality(R) -> R] : \A i, j \in DOMAIN q : i < j => q[i] < q[j]}

\* A stop broadcast, from the user or from a low battery.
SendStop ==
  /\ mpc = "idle" /\ stops < MaxStops
  /\ stops' = stops + 1
  /\ \E q \in Registered : looper' = looper \o q
  /\ UNCHANGED <<card, obj, born, mpc, mobj, mcam, history>>

\* The receiver of object s is the next to run.
NextReceiver(s) == mpc = "idle" /\ looper # <<>> /\ Head(looper) = s

\* A receiver that has been unregistered meanwhile is skipped.
SkipStop(s) ==
  /\ NextReceiver(s) /\ ~obj[s].registered
  /\ looper' = Tail(looper)
  /\ UNCHANGED <<card, obj, born, mpc, mobj, mcam, stops, history>>

\* Mutant of ReceiveStop: it does not wait for the thread.
ReceiveStopAtOnce(s) ==
  /\ NextReceiver(s) /\ obj[s].registered
  /\ looper' = Tail(looper)
  /\ obj' = [obj EXCEPT ![s].flag = 0, ![s].bitmap = FALSE]
  /\ mpc' = "stop" /\ mobj' = s /\ mcam' = 0
  /\ UNCHANGED <<card, born, stops, history>>

ReceiveStop(s) ==
  /\ NextReceiver(s) /\ obj[s].registered
  /\ looper' = Tail(looper)
  /\ obj' = [obj EXCEPT ![s].flag = 0, ![s].tested = FALSE]
  /\ mpc' = "wait" /\ mobj' = s
  /\ UNCHANGED <<card, born, mcam, stops, history>>

Late(s) == obj[s].pc \in {"loop", "take", "copy", "turn"} /\ ~obj[s].tested

\* The second is over, and the bitmap is recycled.
WaitOver ==
  /\ mpc = "wait"
  /\ strayed' = strayed \cup IF Late(mobj) THEN {"late"} ELSE {}
  /\ obj' = [obj EXCEPT ![mobj].bitmap = FALSE]
  /\ mpc' = "stop" /\ mcam' = 0
  /\ UNCHANGED <<card, born, mobj, looper, stops, undefined>>

\* Mutant of StopCamera: the receiver stays registered.
StopKept ==
  /\ mpc = "stop"
  /\ undefined' = undefined \cup Misuse(card[mcam])
  /\ card' = [card EXCEPT ![mcam] = stopped(card[mcam])]
  /\ IF mcam = CAMERANUM - 1
       THEN mpc' = "idle" /\ mobj' = None /\ mcam' = 0
       ELSE mcam' = mcam + 1 /\ UNCHANGED <<mpc, mobj>>
  /\ UNCHANGED <<obj, born, looper, stops, strayed>>

\* One turn of the loop of stopCamera; after the last one the receiver is
\* unregistered and onStopCamera clears cameraUtil.
StopCamera ==
  /\ mpc = "stop"
  /\ undefined' = undefined \cup Misuse(card[mcam])
  /\ card' = [card EXCEPT ![mcam] = stopped(card[mcam])]
  /\ IF mcam = CAMERANUM - 1
       THEN /\ obj' = [obj EXCEPT ![mobj].registered = FALSE, ![mobj].util = FALSE]
            /\ mpc' = "idle" /\ mobj' = None /\ mcam' = 0
       ELSE mcam' = mcam + 1 /\ UNCHANGED <<obj, mpc, mobj>>
  /\ UNCHANGED <<born, looper, stops, strayed>>

Receivers == \E s \in Objects : SkipStop(s) \/ ReceiveStop(s)

Main == PressRecord \/ PrepareCamera \/ SendStop \/ Receivers \/ WaitOver
          \/ StopCamera

-----------------------------------------------------------------------------
\* The thread of object s, UsbCameraData.run.

ThreadStep(s, from, to) ==
  /\ obj[s].pc = from
  /\ obj' = [obj EXCEPT ![s].pc = to]
  /\ UNCHANGED <<card, born, mainvars, strayed>>

LoopStep(s, on) ==
  /\ obj[s].pc = "loop"
  /\ obj' = [obj EXCEPT ![s].pc = IF on THEN "take" ELSE "ended",
                        ![s].tested = TRUE]
  /\ UNCHANGED <<card, born, mainvars, history>>

\* Mutant of LoopTest: thread_flag is not tested.
LoopExists(s) == LoopStep(s, obj[s].exists)

LoopTest(s) == LoopStep(s, obj[s].flag = 1 /\ obj[s].exists)

\* takeImage(bitmap, null, ...): camera 0 only, since bitmap2 is null.  The
\* failure of AndroidBitmap_lockPixels is logged, and pixels is used.
TakeImage(s) ==
  /\ obj[s].pc = "take" /\ obj[s].util
  /\ obj' = [obj EXCEPT ![s].image = card[0].rgb,
               ![s].pc = IF card[0].rgb = None THEN "turn" ELSE "copy"]
  /\ undefined' = undefined \cup
       IF card[0].rgb = None \/ obj[s].bitmap THEN {} ELSE {"wild pixels"}
  /\ UNCHANGED <<card, born, mainvars, strayed>>

\* The loop over the pixels ends: was the memory it read alive so long?
CopyImage(s) ==
  /\ ThreadStep(s, "copy", "turn")
  /\ undefined' = undefined \cup
       IF <<"rgb", obj[s].image>> \in card[0].heap THEN {} ELSE {"freed image"}

\* The image is split, queued for the recorders and shown.
EndTurn(s) ==
  /\ obj[s].util
  /\ ThreadStep(s, "turn", "loop")
  /\ UNCHANGED undefined

\* A NullPointerException: onStopCamera has cleared cameraUtil.
Crash(s) ==
  /\ ~obj[s].util
  /\ ThreadStep(s, "take", "crashed") \/ ThreadStep(s, "turn", "crashed")
  /\ UNCHANGED undefined

Thread(s) == LoopTest(s) \/ TakeImage(s) \/ CopyImage(s) \/ EndTurn(s) \/ Crash(s)

Next == Main \/ \E s \in Objects : Thread(s)

Spec == Init /\ [][Next]_vars

\* The handlers of the main thread go on, and so do the threads; nothing
\* makes the user press a button.
FairSpec ==
  /\ Spec
  /\ WF_vars(PrepareCamera) /\ WF_vars(Receivers)
  /\ WF_vars(WaitOver) /\ WF_vars(StopCamera)
  /\ \A s \in Objects : WF_vars(Thread(s))
-----------------------------------------------------------------------------

Handles == {None} \cup Objects
Indexes == 0..(BufferCount - 1)

Nodes ==
  [fds : SUBSET Objects, maps : SUBSET (Objects \X Indexes), owner : Handles,
   on : BOOLEAN, queued : SUBSET Indexes]

Cards ==
  [fd : Handles, buffers : Handles, n : 0..BufferCount, rgb : Handles,
   node : Nodes, heap : SUBSET ({"rgb", "buffers"} \X Objects)]

ObjectStates ==
  [pc : {"none", "loop", "take", "copy", "turn", "ended", "crashed"},
   flag : {0, 1}, exists : BOOLEAN, registered : BOOLEAN, util : BOOLEAN,
   bitmap : BOOLEAN, image : Handles, tested : BOOLEAN]

TypeOK ==
  /\ card \in [Cameras -> Cards]
  /\ obj \in [Objects -> ObjectStates]
  /\ born \in 0..MaxRecords
  /\ mpc \in {"idle", "prepare", "wait", "stop"}
  /\ mobj \in Handles /\ (mpc # "idle" => mobj \in Objects)
  /\ mcam \in Cameras
  /\ looper \in Seq(Objects) /\ stops \in 0..MaxStops
  /\ undefined \subseteq {"munmap", "free buffers", "free rgb", "freed image",
                          "wild pixels"}
  /\ strayed \subseteq Strayings

\* Whatever fails and whatever is pressed, stopCamera unmaps only buffers
\* that are mapped and frees a buffer array once (uninitdevice runs on the
\* static n_buffers and buffers, which outlive the descriptor).
UnmapsOnce == undefined \cap {"munmap", "free buffers"} = {}

\* stopCamera frees a frame memory once, as long as "record" is pressed only
\* after "stop" and a camera that has been prepared does not fail later
\* (stopCamera does not clear the pointer).
FreedOnce == strayed \cap {"overlap", "lost"} = {} => "free rgb" \notin undefined

\* takeImage reads live frame memory into a live bitmap, if moreover the
\* threads finish a turn within the second the receiver waits.
LiveImage ==
  strayed = {} => undefined \cap {"freed image", "wild pixels"} = {}

Resting == mpc = "idle" /\ \A s \in Objects : ~obj[s].registered

\* When everything is stopped, no file of a camera is open and no memory is
\* held for it, if "record" was pressed only after "stop", and prepareCamera
\* failed for no camera that had its buffers or had been prepared before.  (A
\* camera that cannot be started is closed, but keeps its buffers and their
\* mappings: prepareCamera calls no uninitdevice, and stopCamera calls it for
\* a camera with a descriptor only.)
StopReleases ==
  Resting /\ strayed \subseteq {"late"} =>
    \A i \in Cameras : Files(card[i].node) = {} /\ card[i].heap = {}

\* As long as "record" is pressed only after "stop": a thread that takes
\* images takes those of a camera that was prepared for it, and every camera
\* that was prepared for an object is open and streaming for it until the
\* object is stopped, whatever failed then and before.  (A second "record"
\* overwrites the descriptor of the first.)
ThreadHasCamera ==
  "overlap" \notin strayed =>
    \A s \in Objects : obj[s].registered /\ mpc # "stop" =>
      /\ obj[s].exists => card[0].rgb = s
      /\ \A i \in Cameras : card[i].rgb = s =>
           card[i].fd = s /\ card[i].node.owner = s /\ card[i].node.on

\* stopCamera closes the camera: when everything is stopped, no file of a
\* camera is open.
StopClosesCard == Resting => \A i \in Cameras : Files(card[i].node) = {}

\* The thread of an object that has been stopped leaves its loop, and is not
\* killed by an exception, if a turn takes less than the second the receiver
\* waits.
StopEndsThread ==
  \A s \in Objects :
    obj[s].flag = 0 ~> obj[s].pc = "ended" \/ "late" \in strayed
=============================================================================
