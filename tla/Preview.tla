------------------------------ MODULE Preview -------------------------------
(***************************************************************************)
(* The preview of the recorder (ui/VideoPreview/CameraPreview.java) and    *)
(* the camera thread that feeds it (data/UsbCameraData.java, run).  The    *)
(* camera thread hands each picture to the view that has registered        *)
(* itself, or recycles the picture at once; the view recycles a picture    *)
(* when it has drawn the next one.  Views come and go on the main thread.  *)
(*                                                                         *)
(* The pictures of one turn (four channels, handled alike in loops) are    *)
(* one bitmap here, numbered by its turn.  A view draws its display        *)
(* modules: the first one, which is also the one that shows a single       *)
(* channel, and the others, which are alike.  A module is "fed" when it    *)
(* holds the camera thread's own VideoFrame, whose bitmap changes from     *)
(* turn to turn, and the first one is "own" when it holds the view's       *)
(* VideoFrame.  The test picture of a channel without a picture is never   *)
(* recycled here.                                                          *)
(***************************************************************************)
EXTENDS Naturals, FiniteSets

CONSTANTS
  MaxTurns,   \* bound on the pictures taken
  MaxViews,   \* bound on the previews opened
  MaxReturns, \* bound on the returns from another app
  MaxChanges  \* bound on the changes of the channel

ASSUME PreviewAssumption ==
  {MaxTurns, MaxViews, MaxReturns, MaxChanges} \subseteq Nat

Turns == 1..MaxTurns
Views == 1..MaxViews
None == 0
TestPicture == MaxTurns + 1

VARIABLES
  listener,  \* VariableKeeper.videoFrameListener
  view,      \* the CameraPreview of each activity
  frame,     \* the bitmap in the camera thread's videoFrames
  recycled,  \* bitmaps that have been recycled
  turn,      \* pictures taken
  cpc,       \* the camera thread
  cview,     \* the view it has called
  mpc,       \* the main thread
  mview,     \* the view it works on
  returns, changes,
  stale,     \* who has drawn a bitmap that is recycled, or is not there
  strayed    \* what the user has done at a bad moment

cvars == <<frame, turn, cpc, cview>>
bounds == <<returns, changes>>
vars == <<listener, view, recycled, cvars, mpc, mview, bounds, stale, strayed>>

NewView ==
  [act |-> "none", surface |-> FALSE, callback |-> TRUE, channel |-> "four",
   modules |-> "null", first |-> "fresh", own |-> None,
   lock |-> "free", previous |-> None]

Init ==
  /\ listener = None
  /\ view = [v \in Views |-> NewView]
  /\ frame = None /\ turn = 0
  /\ cpc = "grab" /\ cview = None
  /\ mpc = "idle" /\ mview = None
  /\ returns = 0 /\ changes = 0
  /\ recycled = {} /\ stale = {} /\ strayed = {}

-----------------------------------------------------------------------------
\* showVideoFrame of view v, by thread t: lock, draw on the canvas (there is
\* none without a surface), unlock, and recycle what was shown before.

\* The bitmap in a module.
Picture(v, module) ==
  CASE module = "fed" -> frame
    [] module = "own" -> view[v].own
    [] module = "test" -> TestPicture
    [] OTHER -> None

\* Is there a bitmap?  A module without one gets the test picture.
LookFour(v, t) ==
  LET empty == Picture(v, view[v].first) = None
  IN view' = [view EXCEPT ![v].lock = t,
       ![v].first = IF empty THEN "own" ELSE @,
       ![v].own = IF empty THEN TestPicture ELSE @,
       ![v].modules = IF Picture(v, @) = None THEN "test" ELSE @]

\* What a single channel shows is stored in the view's own VideoFrame.
LookOne(v, t) ==
  LET module == IF view[v].channel = "zero" THEN view[v].first ELSE view[v].modules
      picture == Picture(v, module)
  IN view' = [view EXCEPT ![v].lock = t,
       ![v].own = IF picture = None THEN TestPicture ELSE picture]

\* There is nothing to draw in an array that is being filled.
Blank(v) == ~view[v].surface \/ view[v].modules = "part"

\* The first canvas initialises the view, for four channels.
Looked(v, t) ==
  /\ view[v].lock = "free"
  /\ CASE Blank(v) -> UNCHANGED view
       [] ~Blank(v) /\ view[v].channel = "four" -> LookFour(v, t)
       [] OTHER -> LookOne(v, t)

AfterLook(v) ==
  CASE Blank(v) -> "recycle"
    [] ~Blank(v) /\ view[v].channel = "four" -> "draw"
    [] OTHER -> "put"

\* The bitmaps are read once more and drawn; a single channel is put into the
\* first module.  An exception is recorded in stale, and the thread goes on.
Drawn(v, t, single) ==
  LET drawn == IF single THEN {view[v].own}
               ELSE {Picture(v, view[v].first), Picture(v, view[v].modules)}
  IN /\ stale' = stale \cup
          IF drawn \cap (recycled \cup {None}) # {} \/ view[v].modules = "part"
            THEN {t} ELSE {}
     /\ view' = [view EXCEPT ![v].lock = "free",
                             ![v].first = IF single THEN "own" ELSE @]

\* Mutant of RecyclePrevious: it is left to the garbage collector.
RecycleNothing(v) == UNCHANGED recycled

RecyclePrevious(v) == recycled' = recycled \cup ({view[v].previous} \ {None})

-----------------------------------------------------------------------------
\* The camera thread.

\* Mutant of Grab: a picture that cannot be split does not end the turn.
GrabOrNot ==
  /\ cpc = "grab" /\ turn < MaxTurns
  /\ \/ turn' = turn + 1 /\ frame' = turn'
     \/ frame # None /\ UNCHANGED <<turn, frame>>
  /\ cpc' = "ask"
  /\ UNCHANGED <<listener, view, recycled, cview, mpc, mview, bounds, stale, strayed>>

\* A new picture in videoFrames.
Grab ==
  /\ cpc = "grab" /\ turn < MaxTurns
  /\ turn' = turn + 1 /\ frame' = turn'
  /\ cpc' = "ask"
  /\ UNCHANGED <<listener, view, recycled, cview, mpc, mview, bounds, stale, strayed>>

CameraEnds ==
  /\ cpc = "grab" /\ cpc' = "ended"
  /\ UNCHANGED <<listener, view, recycled, frame, turn, cview, mpc, mview,
                 bounds, stale, strayed>>

\* Is there a preview?
Ask ==
  /\ cpc = "ask"
  /\ cpc' = IF listener = None THEN "burn" ELSE "call"
  /\ UNCHANGED <<listener, view, recycled, frame, turn, cview, mpc, mview,
                 bounds, stale, strayed>>

\* No: the picture is recycled.
Burn ==
  /\ cpc = "burn" /\ cpc' = "grab"
  /\ recycled' = recycled \cup {frame}
  /\ frame' = IF frame \in recycled THEN frame ELSE None
  /\ UNCHANGED <<listener, view, turn, cview, mpc, mview, bounds, stale, strayed>>

\* Mutant of Call: what it has read is not looked at.
CallAnyway ==
  /\ cpc = "call"
  /\ cview' = listener
  /\ cpc' = "feed"
  /\ UNCHANGED <<listener, view, recycled, frame, turn, mpc, mview, bounds, stale, strayed>>

\* Yes: the listener is read once more, and called.
Call ==
  /\ cpc = "call"
  /\ cview' = listener
  /\ cpc' = IF listener = None THEN "crashed" ELSE "feed"
  /\ strayed' = strayed \cup IF mpc # "idle" THEN {"busy"} ELSE {}
  /\ UNCHANGED <<listener, view, recycled, frame, turn, mpc, mview, bounds, stale>>

\* onVideoFrame: a NullPointerException if the display modules are not there.
Feed ==
  /\ cpc = "feed"
  /\ IF view[cview].modules \in {"null", "part"}
       THEN cpc' = "crashed" /\ UNCHANGED view
       ELSE /\ cpc' = "lock"
            /\ view' = [view EXCEPT ![cview].first = "fed", ![cview].modules = "fed"]
  /\ strayed' = strayed \cup IF mpc # "idle" THEN {"busy"} ELSE {}
  /\ UNCHANGED <<listener, recycled, frame, turn, cview, mpc, mview, bounds, stale>>

CameraLooks ==
  /\ cpc = "lock" /\ cpc' = AfterLook(cview)
  /\ Looked(cview, "camera")
  /\ UNCHANGED <<listener, recycled, frame, turn, cview, mpc, mview, bounds,
                 stale, strayed>>

CameraDraws ==
  /\ cpc \in {"draw", "put"} /\ cpc' = "recycle"
  /\ Drawn(cview, "camera", cpc = "put")
  /\ UNCHANGED <<listener, recycled, frame, turn, cview, mpc, mview, bounds, strayed>>

CameraRecycles ==
  /\ cpc = "recycle" /\ cpc' = "remember"
  /\ RecyclePrevious(cview)
  /\ UNCHANGED <<listener, view, frame, turn, cview, mpc, mview, bounds, stale, strayed>>

\* What is shown now is what is recycled next.
Remember ==
  /\ cpc = "remember" /\ cpc' = "grab"
  /\ view' = [view EXCEPT ![cview].previous = frame]
  /\ cview' = None
  /\ UNCHANGED <<listener, recycled, frame, turn, mpc, mview, bounds, stale, strayed>>

Camera ==
  \/ Grab \/ CameraEnds \/ Ask \/ Burn \/ Call \/ Feed
  \/ CameraLooks \/ CameraDraws \/ CameraRecycles \/ Remember

-----------------------------------------------------------------------------
\* The main thread: the activity, its surface, and what the user does.

MainIdle == mpc = "idle"
Shown(v) == view[v].act = "shown"

\* One preview at a time: the desktop opens it, and is behind it.
OpenPreview(v) ==
  /\ MainIdle /\ view[v].act = "none"
  /\ \A w \in Views : IF w < v THEN view[w].act = "gone" ELSE view[w].act = "none"
  /\ view' = [view EXCEPT ![v].act = "shown"]
  /\ UNCHANGED <<listener, recycled, cvars, mpc, mview, bounds, stale, strayed>>

\* Mutant of SurfaceCreated: it only registers the view.
CreatedBlank(v) ==
  /\ MainIdle /\ Shown(v) /\ ~view[v].surface
  /\ view' = [view EXCEPT ![v].surface = TRUE]
  /\ listener' = IF view[v].callback THEN v ELSE listener
  /\ UNCHANGED <<recycled, cvars, mpc, mview, bounds, stale, strayed>>

\* surfaceCreated registers the view, then shows it for the first time; after
\* removeCallback the view is not told.
SurfaceCreated(v) ==
  /\ MainIdle /\ Shown(v) /\ ~view[v].surface
  /\ view' = [view EXCEPT ![v].surface = TRUE]
  /\ IF view[v].callback
       THEN listener' = v /\ mpc' = "show" /\ mview' = v
       ELSE UNCHANGED <<listener, mpc, mview>>
  /\ UNCHANGED <<recycled, cvars, bounds, stale, strayed>>

\* Another app comes to the front.
Leave(v) ==
  /\ MainIdle /\ Shown(v)
  /\ view' = [view EXCEPT ![v].act = "stopped"]
  /\ UNCHANGED <<listener, recycled, cvars, mpc, mview, bounds, stale, strayed>>

\* Mutant of Return: the view is only shown.
ReturnDeaf(v) ==
  /\ MainIdle /\ view[v].act = "stopped" /\ returns < MaxReturns
  /\ view' = [view EXCEPT ![v].act = "shown"]
  /\ mpc' = "show" /\ mview' = v
  /\ returns' = returns + 1
  /\ UNCHANGED <<listener, recycled, cvars, changes, stale, strayed>>

\* onRestart registers the view again and shows it, whether it has its
\* surface or not.
Return(v) ==
  /\ MainIdle /\ view[v].act = "stopped" /\ returns < MaxReturns
  /\ view' = [view EXCEPT ![v].act = "shown"]
  /\ listener' = v
  /\ mpc' = "show" /\ mview' = v
  /\ returns' = returns + 1
  /\ strayed' = strayed \cup
       (IF view[v].surface THEN {"kept"} ELSE {}) \cup
       (IF view[v].modules = "null" THEN {"blank"} ELSE {})
  /\ UNCHANGED <<recycled, cvars, changes, stale>>

Back(v) ==
  /\ MainIdle /\ Shown(v)
  /\ view' = [view EXCEPT ![v].act = "gone"]
  /\ UNCHANGED <<listener, recycled, cvars, mpc, mview, bounds, stale, strayed>>

\* A view that is not shown loses its surface, once nobody draws on it;
\* surfaceDestroyed removes the listener and the callback, or is not called.
SurfaceDestroyed(v) ==
  /\ MainIdle /\ view[v].act \in {"stopped", "gone"}
  /\ view[v].surface /\ view[v].lock = "free"
  /\ view' = [view EXCEPT ![v].surface = FALSE, ![v].callback = FALSE]
  /\ listener' = IF view[v].callback THEN None ELSE listener
  /\ strayed' = strayed \cup
       (IF view[v].callback /\ cpc = "call" THEN {"left"} ELSE {}) \cup
       (IF view[v].callback /\ listener # v THEN {"late"} ELSE {})
  /\ UNCHANGED <<recycled, cvars, mpc, mview, bounds, stale>>

\* showVideoFrame on the main thread.
MainLooks ==
  /\ mpc = "show" /\ mpc' = AfterLook(mview)
  /\ Looked(mview, "main")
  /\ UNCHANGED <<listener, recycled, cvars, mview, bounds, stale, strayed>>

MainDraws ==
  /\ mpc \in {"draw", "put"} /\ mpc' = "recycle"
  /\ Drawn(mview, "main", mpc = "put")
  /\ UNCHANGED <<listener, recycled, cvars, mview, bounds, strayed>>

MainRecycles ==
  /\ mpc = "recycle" /\ mpc' = "idle" /\ mview' = None
  /\ RecyclePrevious(mview)
  /\ UNCHANGED <<listener, view, cvars, bounds, stale, strayed>>

\* The user chooses one channel: the first module is replaced by one that
\* holds a new VideoFrame of the view, and the others stay as they are.
SwitchToOne(v) ==
  /\ MainIdle /\ Shown(v) /\ view[v].modules # "null" /\ changes < MaxChanges
  /\ \E c \in {"zero", "other"} :
       view' = [view EXCEPT ![v].channel = c, ![v].first = "own", ![v].own = None]
  /\ strayed' = strayed \cup {"single"} \cup
       IF view[v].lock = "camera" THEN {"switch"} ELSE {}
  /\ changes' = changes + 1
  /\ UNCHANGED <<listener, recycled, cvars, mpc, mview, returns, stale>>

\* Or all four: an array of new modules is filled one by one.
SwitchToFour(v) ==
  /\ MainIdle /\ Shown(v) /\ view[v].modules # "null" /\ changes < MaxChanges
  /\ view' = [view EXCEPT ![v].channel = "four", ![v].modules = "part",
                          ![v].first = "fresh", ![v].own = None]
  /\ mpc' = "fill" /\ mview' = v
  /\ strayed' = strayed \cup IF view[v].lock = "camera" THEN {"switch"} ELSE {}
  /\ changes' = changes + 1
  /\ UNCHANGED <<listener, recycled, cvars, returns, stale>>

Fill ==
  /\ mpc = "fill" /\ mpc' = "idle" /\ mview' = None
  /\ view' = [view EXCEPT ![mview].modules = "fresh"]
  /\ UNCHANGED <<listener, recycled, cvars, bounds, stale, strayed>>

User(v) ==
  \/ OpenPreview(v) \/ SurfaceCreated(v) \/ Leave(v) \/ Return(v) \/ Back(v)
  \/ SurfaceDestroyed(v) \/ SwitchToOne(v) \/ SwitchToFour(v)

Main ==
  \/ MainLooks \/ MainDraws \/ MainRecycles \/ Fill
  \/ \E v \in Views : User(v)

Next == Camera \/ Main

Spec == Init /\ [][Next]_vars
-----------------------------------------------------------------------------

ViewStates ==
  [act : {"none", "shown", "stopped", "gone"}, surface : BOOLEAN,
   callback : BOOLEAN, channel : {"four", "zero", "other"},
   modules : {"null", "part", "fresh", "fed", "test"},
   first : {"fresh", "fed", "own"}, own : {None, TestPicture} \cup Turns,
   lock : {"free", "camera", "main"}, previous : {None} \cup Turns]

TypeOK ==
  /\ listener \in {None} \cup Views
  /\ view \in [Views -> ViewStates]
  /\ turn \in 0..MaxTurns /\ frame \in 0..turn
  /\ recycled \subseteq 1..turn
  /\ cpc \in {"grab", "ask", "burn", "call", "feed", "lock", "draw", "put", "recycle",
              "remember", "ended", "crashed"}
  /\ cview \in {None} \cup Views
  /\ cpc \in {"feed", "lock", "draw", "put", "recycle", "remember"} =>
       cview \in Views
  /\ mpc \in {"idle", "show", "draw", "put", "recycle", "fill"}
  /\ mview \in {None} \cup Views /\ (mpc # "idle" <=> mview \in Views)
  /\ returns \in 0..MaxReturns /\ changes \in 0..MaxChanges
  /\ stale \subseteq {"camera", "main"}
  /\ strayed \subseteq {"busy", "left", "kept", "blank", "late", "single", "switch"}

\* A preview that is on the screen gets the pictures, however often it has
\* been left and returned to (CameraPreview.java:203-210), unless the one
\* before it has lost its surface only after the next had registered.
ShownIsFed ==
  "late" \notin strayed => \A v \in Views : Shown(v) /\ view[v].surface => listener = v

\* No bitmap is dropped before it is recycled: only the newest one and, for
\* each view, the one it has shown last are left (CameraPreview.java:163).
NoneDropped ==
  \A b \in 1..turn :
    b \in recycled \/ b = frame \/ \E v \in Views : view[v].previous = b

\* No thread draws a bitmap that has been recycled, or is not there, which is
\* an exception.  The main thread does so only if a view is returned to that
\* has kept its surface; the camera thread does so only then, if a single
\* channel has been chosen, or if the channel is changed while it draws.
DrawsLive ==
  /\ "main" \in stale => "kept" \in strayed
  /\ "camera" \in stale => "switch" \in strayed \/ {"kept", "single"} \subseteq strayed

\* The camera thread, and with it the recording, outlives the previews, if
\* it calls a view neither while the main thread is changing it nor as it
\* loses its surface, and a view is not returned to before it has been shown.
\* (The exceptions of its draws are the matter of DrawsLive.)
OutlivesPreview ==
  cpc = "crashed" => strayed \cap {"busy", "left", "blank"} # {}
=============================================================================
