---------------------------- MODULE SingleCamera ----------------------------
(***************************************************************************)
(* The preview of one camera: SingleCameraPreview, whose surface the main  *)
(* thread creates and destroys, its thread, which takes a frame, copies it *)
(* and draws it, and libsinglecamera (singlecamera.c), which both use      *)
(* without a lock.  The main thread asks the thread to stop by setting     *)
(* shouldStop, and waits until the thread has cleared it.  The descriptor, *)
(* the buffers and the frame memory carry the number of the surface whose  *)
(* prepareCamera made them; rgb stands for rgb and ybuf, which are         *)
(* allocated and freed together.                                           *)
(***************************************************************************)
EXTENDS Integers, V4l2

CONSTANTS
  BufferCount,  \* buffers the driver grants on VIDIOC_REQBUFS
  Failures,     \* steps of prepareCamera the device or the system may fail
  MaxSurfaces,  \* bound: surfaces created
  Unpluggable   \* the camera may be unplugged

Surfaces == 1..MaxSurfaces
Indexes == 0..(BufferCount - 1)
Steps == {"stat", "open", "init", "count", "calloc", "mmap", "start"}

ASSUME SingleAssumption ==
  /\ BufferCount \in Nat \ {0, 1}
  /\ Failures \subseteq Steps
  /\ MaxSurfaces \in Nat
  /\ Unpluggable \in BOOLEAN

VARIABLES
  card,         \* the static variables of the library, the device, the heap
  plugged,      \* the camera is there
  mpc,          \* what the main thread is doing
  made,         \* how many surfaces have been created
  surface,      \* there is a surface
  cameraExists,
  shouldStop,
  tpc,          \* step each surface's thread is at
  buf,          \* the buffer a thread has dequeued
  undefined,    \* history: undefined behaviour the library has run into
  strayed       \* history: failures the library is not prepared for

mainvars == <<mpc, made, surface, cameraExists>>
vars == <<card, plugged, mainvars, shouldStop, tpc, buf, undefined, strayed>>

NewCard ==
  [fd |-> None, buffers |-> None, n |-> 0, rgb |-> None,
   node |-> NewNode,
   heap |-> {}]

Init ==
  /\ card = NewCard /\ plugged = TRUE
  /\ mpc = "idle" /\ made = 0 /\ surface = FALSE
  /\ cameraExists = FALSE /\ shouldStop = FALSE
  /\ tpc = [k \in Surfaces |-> "none"]
  /\ buf = [k \in Surfaces |-> 0]
  /\ undefined = {} /\ strayed = {}

-----------------------------------------------------------------------------
\* singlecamera.c.

Result(c, ok) == [card |-> c, ok |-> ok]
Fail(c, step) == {Result(c, FALSE) : x \in {step} \cap Failures}

opendevice(c, s) ==
  Fail(c, "stat") \cup Fail([c EXCEPT !.fd = None], "open")
  \cup {Result([c EXCEPT !.fd = s, !.node = Open(c.node, s)], TRUE)}

initmmap(c, s) ==
  LET r == [c EXCEPT !.node = Request(c.node, c.fd)]
      Mapped(n) == [r EXCEPT !.buffers = s, !.n = n,
                             !.heap = @ \cup {<<"buffers", s>>},
                             !.node = Mmap(r.node, c.fd, n)]
  IN  Fail(r, "count")
      \cup Fail([r EXCEPT !.buffers = None], "calloc")
      \cup (UNION {Fail(Mapped(n), "mmap") : n \in 0..(BufferCount - 1)})
      \cup {Result(Mapped(BufferCount), TRUE)}

initdevice(c, s) ==
  Fail(c, "init")
  \cup IF MayRequest(c.node, c.fd) THEN initmmap(c, s)
                                   ELSE {Result(c, FALSE)}

stopcapturing(c) ==
  IF c.fd = None THEN c ELSE [c EXCEPT !.node = StreamOff(c.node, c.fd)]

\* Mutant of uninitdevice: the buffers stay mapped.
uninitFrees(c) == [c EXCEPT !.heap = @ \ {<<"buffers", c.buffers>>}]

\* munmap of every buffer, and free(buffers).
uninitdevice(c) ==
  [c EXCEPT !.node = Munmap(c.node, c.buffers, c.n),
            !.heap = @ \ {<<"buffers", c.buffers>>}]

closedevice(c) == [c EXCEPT !.node = Close(c.node, c.fd), !.fd = None]

\* Mutant of startcapturing: one buffer more is queued.
startPast(c) ==
  {Result([c EXCEPT !.node = StreamOn(Queue(c.node, 0..c.n))], TRUE)}

\* A camera that cannot be started is reset.
startcapturing(c) ==
  LET q(n) == [c EXCEPT !.node = Queue(c.node, 0..(n - 1))]
      Reset(d) == closedevice(uninitdevice(stopcapturing(d)))
  IN  (UNION {Fail(Reset(q(n)), "start") : n \in 0..c.n})
      \cup {Result([q(c.n) EXCEPT !.node = StreamOn(q(c.n).node)], TRUE)}

\* prepareCamera; without a camera there is no node to open.
prepared(c, s) ==
  LET opened == IF plugged THEN opendevice(c, s) ELSE {Result(c, FALSE)}
      inited == UNION {IF r.ok THEN initdevice(r.card, s) ELSE {r} : r \in opened}
      started == UNION {IF r.ok THEN startcapturing(r.card) ELSE {r} : r \in inited}
  IN  {IF r.ok
         THEN Result([r.card EXCEPT !.rgb = s, !.heap = @ \cup {<<"rgb", s>>}], TRUE)
         ELSE r : r \in started}

\* stopCamera does not ask whether the camera was prepared, and keeps the
\* pointers it has freed.
stopped(c) ==
  LET d == closedevice(uninitdevice(stopcapturing(c)))
  IN  [d EXCEPT !.heap = @ \ {<<"rgb", c.rgb>>}]

\* What is undefined in stopCamera.
Misuse(c) ==
  (IF Buffers(c.buffers, c.n) \subseteq c.node.maps THEN {} ELSE {"munmap"})
  \cup (IF c.buffers = None \/ <<"buffers", c.buffers>> \in c.heap
          THEN {} ELSE {"free buffers"})
  \cup (IF c.buffers = None /\ c.n > 0 THEN {"null buffers"} ELSE {})
  \cup (IF c.rgb = None \/ <<"rgb", c.rgb>> \in c.heap THEN {} ELSE {"free rgb"})

-----------------------------------------------------------------------------
\* The main thread.

\* prepareCameraWithBase, and the thread.  A camera that fails "again", when
\* the library has freed the memory of an earlier surface, or cannot be
\* started, is more than the library is prepared for.
SurfaceCreated ==
  /\ mpc = "idle" /\ ~surface /\ made < MaxSurfaces
  /\ made' = made + 1 /\ surface' = TRUE
  /\ \E r \in prepared(card, made + 1) :
       /\ card' = r.card
       /\ cameraExists' = (cameraExists \/ r.ok)
       /\ strayed' = strayed
            \cup (IF ~r.ok /\ card.buffers # None THEN {"again"} ELSE {})
            \cup (IF ~r.ok /\ r.card.buffers = made + 1 /\ r.card.fd = None
                    THEN {"start"} ELSE {})
  /\ tpc' = [tpc EXCEPT ![made + 1] = IF cameraExists' THEN "select" ELSE @]
  /\ UNCHANGED <<plugged, mpc, shouldStop, buf, undefined>>

\* Mutant of SurfaceDestroyed: it does not wait.
DestroyedAtOnce ==
  /\ mpc = "idle" /\ surface
  /\ shouldStop' = cameraExists
  /\ mpc' = "stop"
  /\ UNCHANGED <<card, plugged, made, surface, cameraExists, tpc, buf,
                 undefined, strayed>>

SurfaceDestroyed ==
  /\ mpc = "idle" /\ surface
  /\ IF cameraExists THEN shouldStop' = TRUE /\ mpc' = "wait"
                     ELSE mpc' = "stop" /\ UNCHANGED shouldStop
  /\ UNCHANGED <<card, plugged, made, surface, cameraExists, tpc, buf,
                 undefined, strayed>>

\* The main thread sees that shouldStop has been cleared.
Waited ==
  /\ mpc = "wait" /\ ~shouldStop
  /\ mpc' = "stop"
  /\ UNCHANGED <<card, plugged, made, surface, cameraExists, shouldStop, tpc,
                 buf, undefined, strayed>>

StopCamera ==
  /\ mpc = "stop"
  /\ mpc' = "idle" /\ surface' = FALSE
  /\ undefined' = undefined \cup Misuse(card)
  /\ card' = stopped(card)
  /\ UNCHANGED <<plugged, made, cameraExists, shouldStop, tpc, buf, strayed>>

Main == SurfaceCreated \/ SurfaceDestroyed \/ Waited \/ StopCamera

-----------------------------------------------------------------------------
\* The thread of surface k: SingleCameraPreview.run.

ThreadStep(k, from, to) ==
  /\ tpc[k] = from
  /\ tpc' = [tpc EXCEPT ![k] = to]
  /\ UNCHANGED <<plugged, mainvars, strayed>>

\* The descriptor the library has is the one whose queue is streaming.
Streaming == card.node.on /\ card.node.owner = card.fd

\* readframeonce: select() waits for a frame, for two seconds.  Without a
\* descriptor it writes out of bounds and has nothing to wait for.
SelectTimeout(k) ==
  /\ ThreadStep(k, "select", "copy")
  /\ card.fd = None \/ (plugged /\ Streaming /\ card.node.queued # {})
  /\ undefined' = undefined \cup IF card.fd = None THEN {"wild fd"} ELSE {}
  /\ UNCHANGED <<card, shouldStop, buf>>

\* There is a frame, or select() does not wait: it says that a descriptor is
\* ready when the camera is gone, its queue is not streaming, or there is
\* nothing in the queue.
SelectReady(k) ==
  /\ ThreadStep(k, "select", "dequeue")
  /\ card.fd # None
  /\ UNCHANGED <<card, shouldStop, buf, undefined>>

\* readframe takes a buffer, and asserts that it knows it.
Dequeue(k) ==
  /\ ThreadStep(k, "dequeue", "convert")
  /\ plugged /\ Streaming
  /\ \E b \in card.node.queued :
       /\ buf' = [buf EXCEPT ![k] = b]
       /\ card' = [card EXCEPT !.node.queued = @ \ {b}]
       /\ undefined' = undefined \cup IF b < card.n THEN {} ELSE {"assert"}
  /\ UNCHANGED shouldStop

\* The driver may refuse at any time (EAGAIN, EIO), and does when the queue is
\* not streaming (EINVAL): readframeonce calls select() again.
DequeueFails(k) ==
  /\ ThreadStep(k, "dequeue", "select")
  /\ UNCHANGED <<card, shouldStop, buf, undefined>>

\* processimage, and the buffer is queued again; the failure of that is one
\* more reason for readframeonce to go on.
Convert(k) ==
  /\ ThreadStep(k, "convert", IF plugged THEN "copy" ELSE "select")
  /\ card' = IF plugged THEN [card EXCEPT !.node = Queue(@, {buf[k]})] ELSE card
  /\ undefined' = undefined
       \cup (IF <<card.buffers, buf[k]>> \in card.node.maps
                  /\ <<"buffers", card.buffers>> \in card.heap
               THEN {} ELSE {"unmapped"})
       \cup (IF <<"rgb", card.rgb>> \in card.heap THEN {} ELSE {"freed rgb"})
  /\ UNCHANGED <<shouldStop, buf>>

\* pixeltobmp.
Copy(k) ==
  /\ ThreadStep(k, "copy", "test")
  /\ undefined' = undefined \cup
       IF card.rgb = None \/ <<"rgb", card.rgb>> \in card.heap
         THEN {} ELSE {"freed rgb"}
  /\ UNCHANGED <<card, shouldStop, buf>>

\* Mutant of Test: shouldStop is not cleared.
TestKeeps(k) ==
  /\ ThreadStep(k, "test", IF shouldStop THEN "ended" ELSE "select")
  /\ UNCHANGED <<card, shouldStop, buf, undefined>>

Test(k) ==
  /\ ThreadStep(k, "test", IF shouldStop THEN "ended" ELSE "select")
  /\ shouldStop' = FALSE
  /\ UNCHANGED <<card, buf, undefined>>

Thread(k) ==
  \/ SelectTimeout(k) \/ SelectReady(k) \/ Dequeue(k) \/ DequeueFails(k)
  \/ Convert(k) \/ Copy(k) \/ Test(k)

Unplug ==
  /\ Unpluggable /\ plugged
  /\ plugged' = FALSE
  /\ UNCHANGED <<card, mainvars, shouldStop, tpc, buf, undefined, strayed>>

Next == Main \/ Unplug \/ \E k \in Surfaces : Thread(k)

Spec == Init /\ [][Next]_vars

\* The main thread goes on once it has been asked to destroy a surface, and
\* so do the threads; nothing makes the user open or leave the screen.  A
\* driver that is streaming does not refuse every frame for ever.
FairSpec ==
  /\ Spec
  /\ WF_vars(Waited) /\ WF_vars(StopCamera)
  /\ \A k \in Surfaces : WF_vars(Thread(k)) /\ SF_vars(Dequeue(k))
-----------------------------------------------------------------------------

Handles == {None} \cup Surfaces
Undefined == {"munmap", "free buffers", "null buffers", "free rgb", "wild fd",
              "assert", "unmapped", "freed rgb"}

Nodes ==
  [fds : SUBSET Surfaces, maps : SUBSET (Surfaces \X Indexes),
   owner : Handles, on : BOOLEAN, queued : SUBSET Indexes]
Cards ==
  [fd : Handles, buffers : Handles, n : 0..BufferCount, rgb : Handles,
   node : Nodes, heap : SUBSET ({"rgb", "buffers"} \X Surfaces)]

TypeOK ==
  /\ card \in Cards
  /\ plugged \in BOOLEAN /\ surface \in BOOLEAN /\ cameraExists \in BOOLEAN
  /\ shouldStop \in BOOLEAN
  /\ mpc \in {"idle", "wait", "stop"} /\ made \in 0..MaxSurfaces
  /\ tpc \in [Surfaces -> {"none", "select", "dequeue", "convert", "copy",
                           "test", "ended"}]
  /\ buf \in [Surfaces -> Indexes]
  /\ undefined \subseteq Undefined /\ strayed \subseteq {"again", "start"}

InLoop(k) == tpc[k] \in {"select", "dequeue", "convert", "copy", "test"}

\* The main thread prepares and stops the camera only when no thread is
\* using it (shouldStop is cleared by the thread that leaves its loop, and by
\* no other).
AloneWithCamera ==
  mpc = "stop" \/ (mpc = "idle" /\ ~surface) => \A k \in Surfaces : ~InLoop(k)

\* Neither thread touches memory that is freed or unmapped, and the assertion
\* of readframe holds, as long as the camera can be started once it has been
\* opened, and a camera that has been prepared can be prepared again.
MemorySafe == strayed = {} => undefined = {}

\* A surface that is gone leaves no file of the device open and no memory
\* allocated, whatever failed: prepareCamera leaves the descriptor and the
\* buffers of a camera it could not initialise to stopCamera.
DestroyReleases ==
  mpc = "idle" /\ ~surface => Files(card.node) = {} /\ card.heap = {}

\* surfaceDestroyed waits for the thread only as long as a turn takes, even if
\* the camera sends no frames or the driver refuses some: while the camera is
\* there, and its queue is streaming or it could not be opened at all.  (A
\* camera that is gone, and one that is open and could not be started, make
\* readframeonce go round for ever, and surfaceDestroyed wait with it.)
StopAnswered ==
  mpc = "wait" /\ (Streaming \/ card.fd = None) ~> mpc # "wait" \/ ~plugged
=============================================================================
