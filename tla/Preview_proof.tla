--------------------------- MODULE Preview_proof ---------------------------
(***************************************************************************)
(* Theorems about Preview.  The invariant says which view may be the       *)
(* listener and what its display modules hold, and where the newest bitmap *)
(* is: in the camera thread's hand, recycled, or what a view has shown     *)
(* last.                                                                   *)
(***************************************************************************)
EXTENDS Preview, TLAPS

Active(v) == view[v].act \in {"shown", "stopped"}

\* Previews are opened in turn, and a view that has not been is untouched.
Unopened ==
  \A v \in Views : view[v].act = "none" =>
    /\ ~view[v].surface /\ view[v].callback /\ listener # v
    /\ \A w \in Views : v < w => view[w].act = "none"

OneActive == \A v, w \in Views : Active(v) /\ Active(w) => v = w

\* A view that has never had a surface has no display modules, and is to show
\* four channels; the modules are incomplete only while the main thread fills
\* them.
Virgin ==
  \A v \in Views : ~view[v].surface /\ view[v].callback => view[v].modules = "null"
Unset ==
  \A v \in Views :
    view[v].modules = "null" => view[v].channel = "four" /\ view[v].first = "fresh"
Partly == \A v \in Views : view[v].modules = "part" => mpc = "fill" /\ mview = v

\* Who is the listener.
Fed ==
  "late" \notin strayed =>
    \A v \in Views :
      Shown(v) /\ (view[v].surface \/ ~view[v].callback) => listener = v
Prepared ==
  "blank" \notin strayed =>
    \A v \in Views :
      listener = v /\ view[v].modules = "null" =>
        mpc = "show" /\ mview = v /\ view[v].surface

\* The camera thread has read a listener, and calls a view with modules.
Called ==
  /\ cpc = "call" => listener # None \/ "left" \in strayed
  /\ cpc = "feed" /\ strayed \cap {"busy", "blank"} = {} =>
       view[cview].modules # "null"

\* A view that is called, or filled, has display modules from then on.
Filled ==
  /\ cpc \in {"lock", "draw", "put", "recycle", "remember"} =>
       view[cview].modules # "null"
  /\ mpc = "fill" => view[mview].modules = "part"
  /\ mpc = "put" => view[mview].modules # "null"

InHand ==
  {"ask", "burn", "call", "feed", "lock", "draw", "put", "recycle", "remember"}

\* The bitmap of this turn is neither recycled nor what a view recycles next.
Fresh ==
  cpc \in InHand =>
    /\ frame = turn /\ frame # None /\ frame \notin recycled
    /\ \A v \in Views : view[v].previous # frame
Old == \A v \in Views : view[v].previous \in 0..turn

\* What a view has shown last is recycled before it is forgotten, and the
\* bitmap of the last turn before the next one comes.
Kept == cpc = "remember" => view[cview].previous \in recycled \cup {None}
Left ==
  cpc = "grab" =>
    frame \in recycled \cup {None} \/ \E v \in Views : view[v].previous = frame

\* The thread that draws a view has locked it.
Held ==
  /\ mpc \in {"draw", "put"} => view[mview].lock = "main"
  /\ cpc \in {"draw", "put"} => view[cview].lock = "camera"

\* When the main thread draws a view for the first time, the camera thread
\* may feed it but not draw it.
FirstShow ==
  "kept" \notin strayed =>
    /\ mpc = "show" /\ view[mview].surface => view[mview].modules = "null"
    /\ mpc # "put"
    /\ mpc = "draw" =>
         \/ /\ view[mview].modules = "test" /\ view[mview].first = "own"
            /\ view[mview].own = TestPicture
         \/ /\ view[mview].modules = "fed" /\ view[mview].first = "fed"
            /\ cpc = "lock" /\ cview = mview

\* A single channel is shown when the user has chosen one.
Four ==
  "single" \notin strayed => mpc # "put" /\ \A v \in Views : view[v].channel = "four"

\* What the camera thread is going to draw.
Shot(b) == b \in {TestPicture, frame}
OwnShot ==
  cpc = "lock" /\ view[cview].first = "own" =>
    view[cview].own = None \/ Shot(view[cview].own)
FourShot ==
  cpc = "draw" =>
    /\ view[cview].modules \in {"fed", "test"}
    /\ \/ view[cview].first = "fed"
       \/ view[cview].first = "own" /\ Shot(view[cview].own)
OneShot == cpc = "put" => view[cview].modules # "part" /\ Shot(view[cview].own)

Shots ==
  ~({"kept", "single"} \subseteq strayed) =>
    /\ OwnShot
    /\ "switch" \notin strayed => FourShot /\ OneShot

Listening == Unopened /\ OneActive /\ Fed
Modules == Virgin /\ Unset /\ Partly /\ Prepared /\ Filled /\ Called /\ OutlivesPreview
Bitmaps == Fresh /\ Old /\ Kept /\ Left /\ NoneDropped
Drawing == Held /\ FirstShow /\ Four /\ Shots /\ DrawsLive

IInv == TypeOK /\ Listening /\ Modules /\ Bitmaps /\ Drawing

\* The numbers of views are no None.
LEMMA ViewsFacts ==
  None \notin Views /\ Views \subseteq Nat /\ MaxTurns \in Nat /\ MaxReturns \in Nat
BY PreviewAssumption DEF Views, None

\* The invariant holds at the start.
LEMMA IInvInit == Init => IInv
BY ViewsFacts, PreviewAssumption
   DEF Init, NewView, IInv, TypeOK, ViewStates, Turns, Listening, Unopened, OneActive,
       Active, Fed, Shown, Modules, Virgin, Unset, Partly, Prepared, Filled, Called,
       OutlivesPreview, Bitmaps, Fresh, InHand, Old, Kept, Left, NoneDropped,
       Drawing, Held, FirstShow, Four, Shots, OwnShot, FourShot, OneShot, DrawsLive, None
-----------------------------------------------------------------------------
\* Types.

\* One view changes.
Alone(v) ==
  view' \in [Views -> ViewStates] /\ \A w \in Views : w # v => view'[w] = view[w]

\* A change of one view leaves the others alone.
LEMMA OneView ==
  ASSUME view \in [Views -> ViewStates], NEW v \in Views,
         NEW r \in ViewStates, view' = [view EXCEPT ![v] = r]
  PROVE  Alone(v) /\ view'[v] = r
BY DEF Alone

\* The life cycle of an activity.
LEMMA ActSet ==
  ASSUME view \in [Views -> ViewStates], NEW v \in Views,
         NEW a \in {"none", "shown", "stopped", "gone"},
         view' = [view EXCEPT ![v].act = a]
  PROVE  /\ Alone(v) /\ view'[v].act = a /\ view'[v].surface = view[v].surface
         /\ view'[v].callback = view[v].callback
         /\ view'[v].channel = view[v].channel /\ view'[v].modules = view[v].modules
         /\ view'[v].first = view[v].first /\ view'[v].own = view[v].own
         /\ view'[v].lock = view[v].lock /\ view'[v].previous = view[v].previous
<1> DEFINE r == [view[v] EXCEPT !.act = a]
<1>1. view[v] \in ViewStates
  OBVIOUS
<1>2. r \in ViewStates
  BY <1>1 DEF ViewStates
<1>3. /\ r.act = a /\ r.surface = view[v].surface /\ r.callback = view[v].callback
      /\ r.channel = view[v].channel /\ r.modules = view[v].modules
      /\ r.first = view[v].first /\ r.own = view[v].own /\ r.lock = view[v].lock
      /\ r.previous = view[v].previous
  BY <1>1 DEF ViewStates
<1>4. view' = [view EXCEPT ![v] = r]
  OBVIOUS
<1> HIDE DEF r
<1>5. Alone(v) /\ view'[v] = r
  BY <1>2, <1>4, OneView
<1>6. QED
  BY <1>3, <1>5

\* A surface comes, and goes.
LEMMA SurfaceMade ==
  ASSUME view \in [Views -> ViewStates], NEW v \in Views,
         view' = [view EXCEPT ![v].surface = TRUE]
  PROVE  /\ Alone(v) /\ view'[v].act = view[v].act /\ view'[v].surface
         /\ view'[v].callback = view[v].callback
         /\ view'[v].channel = view[v].channel /\ view'[v].modules = view[v].modules
         /\ view'[v].first = view[v].first /\ view'[v].own = view[v].own
         /\ view'[v].lock = view[v].lock /\ view'[v].previous = view[v].previous
<1> DEFINE r == [view[v] EXCEPT !.surface = TRUE]
<1>1. view[v] \in ViewStates
  OBVIOUS
<1>2. r \in ViewStates
  BY <1>1 DEF ViewStates
<1>3. /\ r.act = view[v].act /\ r.surface /\ r.callback = view[v].callback
      /\ r.channel = view[v].channel /\ r.modules = view[v].modules
      /\ r.first = view[v].first /\ r.own = view[v].own /\ r.lock = view[v].lock
      /\ r.previous = view[v].previous
  BY <1>1 DEF ViewStates
<1>4. view' = [view EXCEPT ![v] = r]
  OBVIOUS
<1> HIDE DEF r
<1>5. Alone(v) /\ view'[v] = r
  BY <1>2, <1>4, OneView
<1>6. QED
  BY <1>3, <1>5

\* With a surface its callback goes.
LEMMA SurfaceGone ==
  ASSUME view \in [Views -> ViewStates], NEW v \in Views,
         view' = [view EXCEPT ![v].surface = FALSE, ![v].callback = FALSE]
  PROVE  /\ Alone(v) /\ view'[v].act = view[v].act /\ ~view'[v].surface
         /\ ~view'[v].callback /\ view'[v].channel = view[v].channel
         /\ view'[v].modules = view[v].modules /\ view'[v].first = view[v].first
         /\ view'[v].own = view[v].own /\ view'[v].lock = view[v].lock
         /\ view'[v].previous = view[v].previous
<1> DEFINE r == [view[v] EXCEPT !.surface = FALSE, !.callback = FALSE]
<1>1. view[v] \in ViewStates
  OBVIOUS
<1>2. r \in ViewStates
  BY <1>1 DEF ViewStates
<1>3. /\ r.act = view[v].act /\ ~r.surface /\ ~r.callback
      /\ r.channel = view[v].channel /\ r.modules = view[v].modules
      /\ r.first = view[v].first /\ r.own = view[v].own /\ r.lock = view[v].lock
      /\ r.previous = view[v].previous
  BY <1>1 DEF ViewStates
<1>4. view' = [view EXCEPT ![v] = r]
  OBVIOUS
<1> HIDE DEF r
<1>5. Alone(v) /\ view'[v] = r
  BY <1>2, <1>4, OneView
<1>6. QED
  BY <1>3, <1>5

\* The display modules are fed.
LEMMA FeedSet ==
  ASSUME view \in [Views -> ViewStates], NEW v \in Views,
         view' = [view EXCEPT ![v].first = "fed", ![v].modules = "fed"]
  PROVE  /\ Alone(v) /\ view'[v].act = view[v].act
         /\ view'[v].surface = view[v].surface
         /\ view'[v].callback = view[v].callback
         /\ view'[v].channel = view[v].channel /\ view'[v].modules = "fed"
         /\ view'[v].first = "fed" /\ view'[v].own = view[v].own
         /\ view'[v].lock = view[v].lock /\ view'[v].previous = view[v].previous
<1> DEFINE r == [view[v] EXCEPT !.first = "fed", !.modules = "fed"]
<1>1. view[v] \in ViewStates
  OBVIOUS
<1>2. r \in ViewStates
  BY <1>1 DEF ViewStates
<1>3. /\ r.act = view[v].act /\ r.surface = view[v].surface
      /\ r.callback = view[v].callback /\ r.channel = view[v].channel
      /\ r.modules = "fed" /\ r.first = "fed" /\ r.own = view[v].own
      /\ r.lock = view[v].lock /\ r.previous = view[v].previous
  BY <1>1 DEF ViewStates
<1>4. view' = [view EXCEPT ![v] = r]
  OBVIOUS
<1> HIDE DEF r
<1>5. Alone(v) /\ view'[v] = r
  BY <1>2, <1>4, OneView
<1>6. QED
  BY <1>3, <1>5

\* One channel is chosen.
LEMMA OneSet ==
  ASSUME view \in [Views -> ViewStates], NEW v \in Views,
         NEW c \in {"zero", "other"},
         view' = [view EXCEPT ![v].channel = c, ![v].first = "own", ![v].own = None]
  PROVE  /\ Alone(v) /\ view'[v].act = view[v].act
         /\ view'[v].surface = view[v].surface
         /\ view'[v].callback = view[v].callback /\ view'[v].channel = c
         /\ view'[v].modules = view[v].modules /\ view'[v].first = "own"
         /\ view'[v].own = None /\ view'[v].lock = view[v].lock
         /\ view'[v].previous = view[v].previous
<1> DEFINE r == [view[v] EXCEPT !.channel = c, !.first = "own", !.own = None]
<1>1. view[v] \in ViewStates
  OBVIOUS
<1>2. r \in ViewStates
  BY <1>1 DEF ViewStates
<1>3. /\ r.act = view[v].act /\ r.surface = view[v].surface
      /\ r.callback = view[v].callback /\ r.channel = c
      /\ r.modules = view[v].modules /\ r.first = "own" /\ r.own = None
      /\ r.lock = view[v].lock /\ r.previous = view[v].previous
  BY <1>1 DEF ViewStates
<1>4. view' = [view EXCEPT ![v] = r]
  OBVIOUS
<1> HIDE DEF r
<1>5. Alone(v) /\ view'[v] = r
  BY <1>2, <1>4, OneView
<1>6. QED
  BY <1>3, <1>5

\* Four channels are chosen.
LEMMA FourSet ==
  ASSUME view \in [Views -> ViewStates], NEW v \in Views,
         view' = [view EXCEPT ![v].channel = "four",
                            ![v].modules = "part",
                            ![v].first = "fresh",
                            ![v].own = None]
  PROVE  /\ Alone(v) /\ view'[v].act = view[v].act
         /\ view'[v].surface = view[v].surface
         /\ view'[v].callback = view[v].callback /\ view'[v].channel = "four"
         /\ view'[v].modules = "part" /\ view'[v].first = "fresh"
         /\ view'[v].own = None /\ view'[v].lock = view[v].lock
         /\ view'[v].previous = view[v].previous
<1> DEFINE r == [view[v] EXCEPT !.channel = "four", !.modules = "part", !.first = "fresh", !.own = None]
<1>1. view[v] \in ViewStates
  OBVIOUS
<1>2. r \in ViewStates
  BY <1>1 DEF ViewStates
<1>3. /\ r.act = view[v].act /\ r.surface = view[v].surface
      /\ r.callback = view[v].callback /\ r.channel = "four" /\ r.modules = "part"
      /\ r.first = "fresh" /\ r.own = None /\ r.lock = view[v].lock
      /\ r.previous = view[v].previous
  BY <1>1 DEF ViewStates
<1>4. view' = [view EXCEPT ![v] = r]
  OBVIOUS
<1> HIDE DEF r
<1>5. Alone(v) /\ view'[v] = r
  BY <1>2, <1>4, OneView
<1>6. QED
  BY <1>3, <1>5

\* And their modules made.
LEMMA FillSet ==
  ASSUME view \in [Views -> ViewStates], NEW v \in Views,
         view' = [view EXCEPT ![v].modules = "fresh"]
  PROVE  /\ Alone(v) /\ view'[v].act = view[v].act
         /\ view'[v].surface = view[v].surface
         /\ view'[v].callback = view[v].callback
         /\ view'[v].channel = view[v].channel /\ view'[v].modules = "fresh"
         /\ view'[v].first = view[v].first /\ view'[v].own = view[v].own
         /\ view'[v].lock = view[v].lock /\ view'[v].previous = view[v].previous
<1> DEFINE r == [view[v] EXCEPT !.modules = "fresh"]
<1>1. view[v] \in ViewStates
  OBVIOUS
<1>2. r \in ViewStates
  BY <1>1 DEF ViewStates
<1>3. /\ r.act = view[v].act /\ r.surface = view[v].surface
      /\ r.callback = view[v].callback /\ r.channel = view[v].channel
      /\ r.modules = "fresh" /\ r.first = view[v].first /\ r.own = view[v].own
      /\ r.lock = view[v].lock /\ r.previous = view[v].previous
  BY <1>1 DEF ViewStates
<1>4. view' = [view EXCEPT ![v] = r]
  OBVIOUS
<1> HIDE DEF r
<1>5. Alone(v) /\ view'[v] = r
  BY <1>2, <1>4, OneView
<1>6. QED
  BY <1>3, <1>5

\* A thread that has the lock stores what it shows.
LEMMA LookOneSet ==
  ASSUME view \in [Views -> ViewStates], NEW v \in Views,
         NEW t \in {"free", "camera", "main"},
         NEW o \in {None, TestPicture} \cup Turns,
         view' = [view EXCEPT ![v].lock = t, ![v].own = o]
  PROVE  /\ Alone(v) /\ view'[v].act = view[v].act
         /\ view'[v].surface = view[v].surface
         /\ view'[v].callback = view[v].callback
         /\ view'[v].channel = view[v].channel /\ view'[v].modules = view[v].modules
         /\ view'[v].first = view[v].first /\ view'[v].own = o /\ view'[v].lock = t
         /\ view'[v].previous = view[v].previous
<1> DEFINE r == [view[v] EXCEPT !.lock = t, !.own = o]
<1>1. view[v] \in ViewStates
  OBVIOUS
<1>2. r \in ViewStates
  BY <1>1 DEF ViewStates
<1>3. /\ r.act = view[v].act /\ r.surface = view[v].surface
      /\ r.callback = view[v].callback /\ r.channel = view[v].channel
      /\ r.modules = view[v].modules /\ r.first = view[v].first /\ r.own = o
      /\ r.lock = t /\ r.previous = view[v].previous
  BY <1>1 DEF ViewStates
<1>4. view' = [view EXCEPT ![v] = r]
  OBVIOUS
<1> HIDE DEF r
<1>5. Alone(v) /\ view'[v] = r
  BY <1>2, <1>4, OneView
<1>6. QED
  BY <1>3, <1>5

\* It has drawn, and lets the lock go.
LEMMA DrawSet ==
  ASSUME view \in [Views -> ViewStates], NEW v \in Views,
         NEW f \in {"fresh", "fed", "own"},
         view' = [view EXCEPT ![v].lock = "free", ![v].first = f]
  PROVE  /\ Alone(v) /\ view'[v].act = view[v].act
         /\ view'[v].surface = view[v].surface
         /\ view'[v].callback = view[v].callback
         /\ view'[v].channel = view[v].channel /\ view'[v].modules = view[v].modules
         /\ view'[v].first = f /\ view'[v].own = view[v].own
         /\ view'[v].lock = "free" /\ view'[v].previous = view[v].previous
<1> DEFINE r == [view[v] EXCEPT !.lock = "free", !.first = f]
<1>1. view[v] \in ViewStates
  OBVIOUS
<1>2. r \in ViewStates
  BY <1>1 DEF ViewStates
<1>3. /\ r.act = view[v].act /\ r.surface = view[v].surface
      /\ r.callback = view[v].callback /\ r.channel = view[v].channel
      /\ r.modules = view[v].modules /\ r.first = f /\ r.own = view[v].own
      /\ r.lock = "free" /\ r.previous = view[v].previous
  BY <1>1 DEF ViewStates
<1>4. view' = [view EXCEPT ![v] = r]
  OBVIOUS
<1> HIDE DEF r
<1>5. Alone(v) /\ view'[v] = r
  BY <1>2, <1>4, OneView
<1>6. QED
  BY <1>3, <1>5

\* What has been shown is remembered.
LEMMA PreviousSet ==
  ASSUME view \in [Views -> ViewStates], NEW v \in Views,
         NEW b \in {None} \cup Turns,
         view' = [view EXCEPT ![v].previous = b]
  PROVE  /\ Alone(v) /\ view'[v].act = view[v].act
         /\ view'[v].surface = view[v].surface
         /\ view'[v].callback = view[v].callback
         /\ view'[v].channel = view[v].channel /\ view'[v].modules = view[v].modules
         /\ view'[v].first = view[v].first /\ view'[v].own = view[v].own
         /\ view'[v].lock = view[v].lock /\ view'[v].previous = b
<1> DEFINE r == [view[v] EXCEPT !.previous = b]
<1>1. view[v] \in ViewStates
  OBVIOUS
<1>2. r \in ViewStates
  BY <1>1 DEF ViewStates
<1>3. /\ r.act = view[v].act /\ r.surface = view[v].surface
      /\ r.callback = view[v].callback /\ r.channel = view[v].channel
      /\ r.modules = view[v].modules /\ r.first = view[v].first
      /\ r.own = view[v].own /\ r.lock = view[v].lock /\ r.previous = b
  BY <1>1 DEF ViewStates
<1>4. view' = [view EXCEPT ![v] = r]
  OBVIOUS
<1> HIDE DEF r
<1>5. Alone(v) /\ view'[v] = r
  BY <1>2, <1>4, OneView
<1>6. QED
  BY <1>3, <1>5

\* What a module may hold.
LEMMA PictureTypes ==
  ASSUME TypeOK, NEW v \in Views, NEW m
  PROVE  Picture(v, m) \in {None, TestPicture} \cup Turns
BY ViewsFacts DEF TypeOK, ViewStates, Picture, Turns, None

\* What a thread does to the view it locks.
LEMMA LookedFacts ==
  ASSUME TypeOK, NEW v \in Views, NEW t \in {"camera", "main"}, Looked(v, t)
  PROVE  /\ Alone(v) /\ view[v].lock = "free"
         /\ view'[v].act = view[v].act /\ view'[v].surface = view[v].surface
         /\ view'[v].callback = view[v].callback
         /\ view'[v].previous = view[v].previous
         /\ view'[v].channel = view[v].channel
         /\ Blank(v) => view' = view
         /\ ~Blank(v) => view'[v].lock = t
         /\ ~Blank(v) /\ view[v].channel = "four" =>
              LET empty == Picture(v, view[v].first) = None
              IN /\ view'[v].first = IF empty THEN "own" ELSE view[v].first
                 /\ view'[v].own = IF empty THEN TestPicture ELSE view[v].own
                 /\ view'[v].modules = IF Picture(v, view[v].modules) = None
                                        THEN "test" ELSE view[v].modules
         /\ ~Blank(v) /\ view[v].channel # "four" =>
              /\ view'[v].first = view[v].first /\ view'[v].modules = view[v].modules
              /\ LET picture == Picture(v, IF view[v].channel = "zero"
                                           THEN view[v].first ELSE view[v].modules)
                 IN view'[v].own = IF picture = None THEN TestPicture ELSE picture
<1>1. view \in [Views -> ViewStates] /\ view[v] \in ViewStates
  BY DEF TypeOK
<1>2. CASE Blank(v)
  <2>1. view' = view /\ view[v].lock = "free"
    BY <1>2 DEF Looked
  <2>2. QED
    BY <1>1, <1>2, <2>1 DEF Alone
<1>3. CASE ~Blank(v) /\ view[v].channel = "four"
  <2> DEFINE empty == Picture(v, view[v].first) = None
             f == IF empty THEN "own" ELSE view[v].first
             o == IF empty THEN TestPicture ELSE view[v].own
             m == IF Picture(v, view[v].modules) = None THEN "test" ELSE view[v].modules
  <2>1. view[v].lock = "free" /\ LookFour(v, t)
    BY <1>3 DEF Looked
  <2>2. view' = [view EXCEPT ![v].lock = t, ![v].first = f, ![v].own = o,
                            ![v].modules = m]
    BY <2>1 DEF LookFour
  <2>3. /\ f \in {"fresh", "fed", "own"} /\ o \in {None, TestPicture} \cup Turns
        /\ m \in {"null", "part", "fresh", "fed", "test"}
    BY <1>1 DEF ViewStates
  <2> HIDE DEF empty, f, o, m
  <2> DEFINE r == [view[v] EXCEPT !.lock = t, !.first = f, !.own = o, !.modules = m]
  <2>4. r \in ViewStates
    <3>1. view[v] \in ViewStates /\ t \in {"free", "camera", "main"}
      BY <1>1
    <3>2. QED
      BY <2>3, <3>1 DEF ViewStates
  <2>5. /\ r.act = view[v].act /\ r.surface = view[v].surface
        /\ r.callback = view[v].callback /\ r.channel = view[v].channel
        /\ r.previous = view[v].previous /\ r.lock = t
        /\ r.first = f /\ r.own = o /\ r.modules = m
    BY <1>1 DEF ViewStates
  <2>6. view' = [view EXCEPT ![v] = r]
    BY <2>2
  <2> HIDE DEF r
  <2>7. Alone(v) /\ view'[v] = r
    BY <1>1, <2>4, <2>6, OneView
  <2>8. QED
    BY <1>3, <2>1, <2>5, <2>7 DEF empty, f, o, m
<1>4. CASE ~Blank(v) /\ view[v].channel # "four"
  <2> DEFINE picture == Picture(v, IF view[v].channel = "zero"
                                  THEN view[v].first ELSE view[v].modules)
             o == IF picture = None THEN TestPicture ELSE picture
  <2>1. view[v].lock = "free" /\ LookOne(v, t)
    BY <1>4 DEF Looked
  <2>2. view' = [view EXCEPT ![v].lock = t, ![v].own = o]
    BY <2>1 DEF LookOne
  <2>3. o \in {None, TestPicture} \cup Turns
    BY PictureTypes
  <2> HIDE DEF o
  <2>4. /\ Alone(v) /\ view'[v].act = view[v].act /\ view'[v].surface = view[v].surface
        /\ view'[v].callback = view[v].callback /\ view'[v].channel = view[v].channel
        /\ view'[v].previous = view[v].previous /\ view'[v].lock = t
        /\ view'[v].first = view[v].first /\ view'[v].modules = view[v].modules
        /\ view'[v].own = o
    BY <1>1, <2>2, <2>3, LookOneSet
  <2>5. QED
    BY <1>4, <2>1, <2>4 DEF o
<1>5. QED
  BY <1>2, <1>3, <1>4

\* And when it has drawn.
LEMMA DrawnFacts ==
  ASSUME TypeOK, NEW v \in Views, NEW t \in {"camera", "main"},
         NEW single \in BOOLEAN, Drawn(v, t, single)
  PROVE  /\ Alone(v) /\ view'[v].act = view[v].act /\ view'[v].surface = view[v].surface
         /\ view'[v].callback = view[v].callback
         /\ view'[v].previous = view[v].previous
         /\ view'[v].channel = view[v].channel /\ view'[v].own = view[v].own
         /\ view'[v].modules = view[v].modules /\ view'[v].lock = "free"
         /\ view'[v].first = IF single THEN "own" ELSE view[v].first
<1> DEFINE f == IF single THEN "own" ELSE view[v].first
<1>1. view \in [Views -> ViewStates] /\ f \in {"fresh", "fed", "own"}
  BY DEF TypeOK, ViewStates
<1>2. view' = [view EXCEPT ![v].lock = "free", ![v].first = f]
  BY DEF Drawn
<1> HIDE DEF f
<1>3. view'[v].first = f
  BY <1>1, <1>2, DrawSet
<1>4. QED
  BY <1>1, <1>2, <1>3, DrawSet DEF f
-----------------------------------------------------------------------------
\* What the camera thread leaves alone: who is listening, and where the
\* activities, their surfaces and the main thread are.
LEMMA CameraFrame ==
  ASSUME TypeOK, Camera
  PROVE  /\ view' \in [Views -> ViewStates] /\ strayed \subseteq strayed'
         /\ strayed' \subseteq strayed \cup {"busy"}
         /\ listener' = listener /\ mpc' = mpc /\ mview' = mview /\ bounds' = bounds
         /\ \A v \in Views :
              /\ view'[v].act = view[v].act /\ view'[v].surface = view[v].surface
              /\ view'[v].callback = view[v].callback
              /\ view'[v].channel = view[v].channel
<1>0. view \in [Views -> ViewStates] /\ frame \in {None} \cup Turns
  BY ViewsFacts DEF TypeOK, None, Turns
<1>1. CASE Grab \/ CameraEnds \/ Ask \/ Burn \/ Call \/ CameraRecycles
  BY <1>0, <1>1 DEF Grab, CameraEnds, Ask, Burn, Call, CameraRecycles, bounds
<1>2. CASE Feed
  <2>1. CASE view[cview].modules \in {"null", "part"}
    BY <1>0, <1>2, <2>1 DEF Feed, bounds
  <2>2. CASE view[cview].modules \notin {"null", "part"}
    <3>1. /\ view' = [view EXCEPT ![cview].first = "fed", ![cview].modules = "fed"]
          /\ cview \in Views
      BY <1>2, <2>2 DEF Feed, TypeOK
    <3>2. QED
      BY <1>0, <1>2, <3>1, FeedSet DEF Feed, Alone, bounds
  <2>3. QED
    BY <2>1, <2>2
<1>3. CASE CameraLooks
  <2>1. Looked(cview, "camera") /\ cview \in Views
    BY <1>3 DEF CameraLooks, TypeOK
  <2>2. QED
    BY <1>3, <2>1, LookedFacts DEF CameraLooks, Alone, bounds
<1>4. CASE CameraDraws
  <2>1. Drawn(cview, "camera", cpc = "put") /\ cview \in Views
    BY <1>4 DEF CameraDraws, TypeOK
  <2>2. QED
    BY <1>4, <2>1, DrawnFacts DEF CameraDraws, Alone, bounds
<1>5. CASE Remember
  <2>1. cview \in Views
    BY <1>5 DEF Remember, TypeOK
  <2>2. QED
    BY <1>0, <1>5, <2>1, PreviousSet DEF Remember, Alone, bounds
<1>6. QED
  BY <1>1, <1>2, <1>3, <1>4, <1>5 DEF Camera

\* What the main thread leaves alone when it draws or changes the channel.
LEMMA DrawingFrame ==
  ASSUME TypeOK,
         \/ MainLooks \/ MainDraws \/ MainRecycles \/ Fill
         \/ \E v \in Views : SwitchToOne(v) \/ SwitchToFour(v)
  PROVE  /\ view' \in [Views -> ViewStates]
         /\ listener' = listener /\ returns' = returns /\ strayed \subseteq strayed'
         /\ strayed' \subseteq strayed \cup {"single", "switch"}
         /\ \A v \in Views :
              /\ view'[v].act = view[v].act /\ view'[v].surface = view[v].surface
              /\ view'[v].callback = view[v].callback
              /\ view'[v].previous = view[v].previous
<1>0. view \in [Views -> ViewStates] /\ (mpc # "idle" => mview \in Views)
  BY DEF TypeOK
<1>1. CASE MainLooks
  <2>1. Looked(mview, "main") /\ mview \in Views
    BY <1>0, <1>1 DEF MainLooks
  <2>2. QED
    BY <1>1, <2>1, LookedFacts DEF MainLooks, Alone, bounds
<1>2. CASE MainDraws
  <2>1. Drawn(mview, "main", mpc = "put") /\ mview \in Views
    BY <1>0, <1>2 DEF MainDraws
  <2>2. QED
    BY <1>2, <2>1, DrawnFacts DEF MainDraws, Alone, bounds
<1>3. CASE MainRecycles
  BY <1>0, <1>3 DEF MainRecycles, bounds
<1>4. CASE Fill
  BY <1>0, <1>4, FillSet DEF Fill, Alone, bounds
<1>5. ASSUME NEW v \in Views, SwitchToOne(v)
      PROVE  /\ Alone(v) /\ view'[v].act = view[v].act
             /\ view'[v].surface = view[v].surface
             /\ view'[v].callback = view[v].callback
             /\ view'[v].previous = view[v].previous
  BY <1>0, <1>5, OneSet DEF SwitchToOne
<1>6. ASSUME NEW v \in Views, SwitchToFour(v)
      PROVE  /\ Alone(v) /\ view'[v].act = view[v].act
             /\ view'[v].surface = view[v].surface
             /\ view'[v].callback = view[v].callback
             /\ view'[v].previous = view[v].previous
  BY <1>0, <1>6, FourSet DEF SwitchToFour
<1>7. ASSUME NEW v \in Views, SwitchToOne(v) \/ SwitchToFour(v)
      PROVE  /\ listener' = listener /\ returns' = returns /\ strayed \subseteq strayed'
             /\ strayed' \subseteq strayed \cup {"single", "switch"}
  BY <1>7 DEF SwitchToOne, SwitchToFour
<1>8. QED
  BY <1>1, <1>2, <1>3, <1>4, <1>5, <1>6, <1>7 DEF Alone

\* Every step keeps the types.
LEMMA TypesNext ==
  ASSUME TypeOK, Old, Fresh, Next
  PROVE  TypeOK'
<1> USE ViewsFacts DEF TypeOK, bounds
<1>1. CASE Grab
  BY <1>1 DEF Grab, ViewStates, Turns
<1>2. CASE CameraEnds \/ Ask
  BY <1>2 DEF CameraEnds, Ask
<1>3. CASE Burn
  BY <1>3 DEF Burn, Fresh, InHand, None
<1>4. CASE Call
  BY <1>4 DEF Call, None
<1>5. CASE Feed
  BY <1>5 DEF Feed, ViewStates
<1>6. CASE CameraLooks
  <2>1. view' \in [Views -> ViewStates]
    BY <1>6, CameraFrame DEF Camera
  <2>2. AfterLook(cview) \in {"recycle", "draw", "put"}
    BY DEF AfterLook
  <2>3. QED
    BY <1>6, <2>1, <2>2 DEF CameraLooks
<1>7. CASE CameraDraws
  <2>1. view' \in [Views -> ViewStates]
    BY <1>7, CameraFrame DEF Camera
  <2>2. QED
    BY <1>7, <2>1 DEF CameraDraws, Drawn
<1>8. CASE CameraRecycles
  <2>1. {view[cview].previous} \ {None} \subseteq 1..turn
    BY <1>8 DEF CameraRecycles, Old, None
  <2>2. QED
    BY <1>8, <2>1 DEF CameraRecycles, RecyclePrevious
<1>9. CASE Remember
  BY <1>9 DEF Remember, ViewStates, Turns, None
<1>10. ASSUME NEW v \in Views, OpenPreview(v) \/ Leave(v) \/ Back(v)
       PROVE  TypeOK'
  BY <1>10 DEF OpenPreview, Leave, Back, MainIdle, ViewStates, cvars
<1>11. ASSUME NEW v \in Views, SurfaceCreated(v)
       PROVE  TypeOK'
  <2>1. view' \in [Views -> ViewStates]
    <3>1. view' = [view EXCEPT ![v].surface = TRUE]
      BY <1>11 DEF SurfaceCreated
    <3>2. QED
      BY <3>1, SurfaceMade DEF Alone
  <2>2. QED
    BY <1>11, <2>1 DEF SurfaceCreated, MainIdle, cvars
<1>12. ASSUME NEW v \in Views, SurfaceDestroyed(v)
       PROVE  TypeOK'
  <2>1. view' \in [Views -> ViewStates]
    <3>1. view' = [view EXCEPT ![v].surface = FALSE, ![v].callback = FALSE]
      BY <1>12 DEF SurfaceDestroyed
    <3>2. QED
      BY <3>1, SurfaceGone DEF Alone
  <2>2. listener' \in {None} \cup Views /\ strayed' \subseteq strayed \cup {"left", "late"}
    BY <1>12 DEF SurfaceDestroyed
  <2>3. QED
    BY <1>12, <2>1, <2>2 DEF SurfaceDestroyed, MainIdle, cvars
<1>13. ASSUME NEW v \in Views, Return(v)
       PROVE  TypeOK'
  <2>1. view' = [view EXCEPT ![v].act = "shown"] /\ view' \in [Views -> ViewStates]
    BY <1>13, ActSet DEF Return, Alone
  <2>2. strayed' \subseteq strayed \cup {"kept", "blank"}
    BY <1>13 DEF Return
  <2>3. QED
    BY <1>13, <2>1, <2>2 DEF Return, MainIdle, cvars
<1>14. ASSUME NEW v \in Views, SwitchToOne(v) \/ SwitchToFour(v)
       PROVE  TypeOK'
  <2>1. view' \in [Views -> ViewStates]
    BY <1>14, DrawingFrame
  <2>2. changes' \in 0..MaxChanges
    BY <1>14, PreviewAssumption DEF SwitchToOne, SwitchToFour
  <2>3. QED
    BY <1>14, <2>1, <2>2 DEF SwitchToOne, SwitchToFour, MainIdle, cvars
<1>15. CASE MainLooks
  <2>1. view' \in [Views -> ViewStates]
    BY <1>15, DrawingFrame
  <2>2. AfterLook(mview) \in {"recycle", "draw", "put"}
    BY DEF AfterLook
  <2>3. QED
    BY <1>15, <2>1, <2>2 DEF MainLooks, cvars
<1>16. CASE MainDraws
  <2>1. view' \in [Views -> ViewStates]
    BY <1>16, DrawingFrame
  <2>2. QED
    BY <1>16, <2>1 DEF MainDraws, Drawn, cvars
<1>17. CASE MainRecycles
  <2>1. {view[mview].previous} \ {None} \subseteq 1..turn
    BY <1>17 DEF MainRecycles, Old, None
  <2>2. QED
    BY <1>17, <2>1 DEF MainRecycles, RecyclePrevious, cvars
<1>18. CASE Fill
  BY <1>18 DEF Fill, ViewStates, cvars, None
<1>19. QED
  BY <1>1, <1>2, <1>3, <1>4, <1>5, <1>6, <1>7, <1>8, <1>9, <1>10, <1>11, <1>12,
     <1>13, <1>14, <1>15, <1>16, <1>17, <1>18 DEF Next, Camera, Main, User
-----------------------------------------------------------------------------
\* Bitmaps.

\* Only the camera thread, at the end of its turn, changes what a view has
\* shown last.
LEMMA PreviousKept ==
  ASSUME TypeOK, Next, ~Remember
  PROVE  \A v \in Views : view'[v].previous = view[v].previous
<1>0. view \in [Views -> ViewStates]
  BY DEF TypeOK
<1>1. CASE Grab \/ CameraEnds \/ Ask \/ Burn \/ Call \/ CameraRecycles
  BY <1>1 DEF Grab, CameraEnds, Ask, Burn, Call, CameraRecycles
<1>2. CASE Feed
  <2>1. CASE view[cview].modules \in {"null", "part"}
    BY <1>2, <2>1 DEF Feed
  <2>2. CASE view[cview].modules \notin {"null", "part"}
    <3>1. /\ view' = [view EXCEPT ![cview].first = "fed", ![cview].modules = "fed"]
          /\ cview \in Views
      BY <1>2, <2>2 DEF Feed, TypeOK
    <3>2. QED
      BY <1>0, <3>1, FeedSet DEF Alone
  <2>3. QED
    BY <2>1, <2>2
<1>3. CASE CameraLooks
  <2>1. Looked(cview, "camera") /\ cview \in Views
    BY <1>3 DEF CameraLooks, TypeOK
  <2>2. QED
    BY <2>1, LookedFacts DEF Alone
<1>4. CASE CameraDraws
  <2>1. Drawn(cview, "camera", cpc = "put") /\ cview \in Views
    BY <1>4 DEF CameraDraws, TypeOK
  <2>2. QED
    BY <2>1, DrawnFacts DEF Alone
<1>5. CASE MainLooks \/ MainDraws \/ MainRecycles \/ Fill
  BY <1>5, DrawingFrame
<1>6. ASSUME NEW v \in Views, OpenPreview(v) \/ Leave(v) \/ Return(v) \/ Back(v)
      PROVE  \A w \in Views : view'[w].previous = view[w].previous
  BY <1>0, <1>6, ActSet DEF OpenPreview, Leave, Return, Back, Alone
<1>7. ASSUME NEW v \in Views, SurfaceCreated(v) \/ SurfaceDestroyed(v)
      PROVE  \A w \in Views : view'[w].previous = view[w].previous
  BY <1>0, <1>7, SurfaceMade, SurfaceGone DEF SurfaceCreated, SurfaceDestroyed, Alone
<1>8. ASSUME NEW v \in Views, SwitchToOne(v) \/ SwitchToFour(v)
      PROVE  \A w \in Views : view'[w].previous = view[w].previous
  BY <1>8, DrawingFrame
<1>9. QED
  BY <1>1, <1>2, <1>3, <1>4, <1>5, <1>6, <1>7, <1>8 DEF Next, Camera, Main, User

\* Every step keeps what is known of the bitmaps.
LEMMA BitmapsNext == TypeOK /\ Bitmaps /\ Next => Bitmaps'
<1> SUFFICES ASSUME TypeOK, Bitmaps, Next PROVE Bitmaps'
  OBVIOUS
<1> USE DEF Bitmaps
<1>0. /\ turn \in Nat /\ frame \in Nat /\ frame <= turn /\ recycled \subseteq 1..turn
      /\ None = 0 /\ \A v \in Views : view[v].previous \in 0..turn
  BY ViewsFacts DEF TypeOK, Old, None
<1>1. ASSUME ~Remember
      PROVE  \A v \in Views : view'[v].previous = view[v].previous
  BY <1>1, PreviousKept
<1>2. CASE Grab
  <2>1. /\ cpc = "grab" /\ cpc' = "ask" /\ turn' = turn + 1 /\ frame' = turn + 1
        /\ recycled' = recycled
    BY <1>2 DEF Grab
  <2>2. \A v \in Views : view'[v].previous = view[v].previous
    BY <1>2 DEF Grab
  <2>3. Fresh' /\ Old' /\ Kept' /\ Left'
    BY <1>0, <2>1, <2>2 DEF Fresh, Old, Kept, Left
  <2>4. ASSUME NEW b \in 1..turn', b # frame'
        PROVE  b \in recycled' \/ \E v \in Views : view'[v].previous = b
    <3>1. b \in 1..turn /\ b # None
      BY <1>0, <2>1, <2>4
    <3>2. b \in recycled \/ \E v \in Views : view[v].previous = b
      BY <2>1, <3>1 DEF NoneDropped, Left
    <3>3. QED
      BY <2>1, <2>2, <3>2
  <2>5. QED
    BY <2>3, <2>4 DEF NoneDropped
<1>3. CASE Burn
  <2>1. /\ cpc = "burn" /\ cpc' = "grab" /\ turn' = turn /\ view' = view
        /\ recycled' = recycled \cup {frame} /\ frame' = None
    BY <1>3 DEF Burn, Fresh, InHand
  <2>2. Fresh' /\ Old' /\ Kept' /\ Left'
    BY <1>0, <2>1 DEF Fresh, Old, Kept, Left, InHand
  <2>3. NoneDropped'
    BY <2>1 DEF NoneDropped
  <2>4. QED
    BY <2>2, <2>3
<1>4. CASE CameraRecycles
  <2>1. /\ cpc = "recycle" /\ cpc' = "remember" /\ turn' = turn /\ view' = view
        /\ recycled' = recycled \cup ({view[cview].previous} \ {None})
        /\ frame' = frame /\ cview' = cview /\ cview \in Views
    BY <1>4 DEF CameraRecycles, RecyclePrevious, TypeOK
  <2>2. QED
    BY <1>0, <2>1 DEF Fresh, Old, Kept, Left, NoneDropped, InHand
<1>5. CASE Remember
  <2>1. /\ cpc = "remember" /\ cpc' = "grab" /\ turn' = turn /\ cview \in Views
        /\ recycled' = recycled /\ frame' = frame
    BY <1>5 DEF Remember, TypeOK
  <2>2. frame \in {None} \cup Turns
    BY <1>0, ViewsFacts DEF TypeOK, Turns
  <2>3. view'[cview].previous = frame /\ \A w \in Views : w # cview => view'[w] = view[w]
    BY <1>5, <2>1, <2>2, PreviousSet DEF Remember, Alone, TypeOK
  <2>4. Fresh' /\ Old' /\ Kept' /\ Left'
    BY <1>0, <2>1, <2>3 DEF Fresh, Old, Kept, Left, InHand
  <2>5. ASSUME NEW b \in 1..turn
        PROVE  b \in recycled \/ b = frame \/ \E v \in Views : view'[v].previous = b
    <3>1. view[cview].previous = b => b \in recycled
      BY <1>0, <2>1 DEF Kept
    <3>2. QED
      BY <2>1, <2>3, <3>1 DEF NoneDropped
  <2>6. QED
    BY <2>1, <2>4, <2>5 DEF NoneDropped
<1>6. CASE MainRecycles
  <2>1. /\ recycled' = recycled \cup ({view[mview].previous} \ {None})
        /\ view' = view /\ turn' = turn /\ frame' = frame /\ cpc' = cpc
        /\ cview' = cview /\ mview \in Views
    BY <1>6 DEF MainRecycles, RecyclePrevious, cvars, TypeOK
  <2>2. QED
    BY <1>0, <2>1 DEF Fresh, Old, Kept, Left, NoneDropped, InHand
<1>7. ASSUME ~Remember, turn' = turn, frame' = frame, recycled' = recycled,
             cpc' \in InHand => cpc \in InHand,
             cpc' = "remember" => cpc = "remember" /\ cview' = cview,
             cpc' = "grab" => cpc = "grab"
      PROVE  Bitmaps'
  <2>1. \A v \in Views : view'[v].previous = view[v].previous
    BY <1>1, <1>7
  <2>2. cpc = "remember" => cview \in Views
    BY DEF TypeOK
  <2>3. Fresh' /\ Old' /\ Kept' /\ Left'
    BY <1>7, <2>1, <2>2 DEF Fresh, Old, Kept, Left
  <2>4. NoneDropped'
    BY <1>7, <2>1 DEF NoneDropped
  <2>5. QED
    BY <2>3, <2>4
<1>8. CASE CameraEnds \/ Ask \/ Call \/ Feed \/ CameraLooks \/ CameraDraws
  BY <1>7, <1>8
     DEF CameraEnds, Ask, Call, Feed, CameraLooks, AfterLook, CameraDraws, InHand,
         Remember
<1>9. CASE Main
  <2>1. CASE MainRecycles
    BY <1>6, <2>1
  <2>2. CASE ~MainRecycles
    <3>1. UNCHANGED <<turn, frame, recycled, cpc, cview>>
      BY <1>9, <2>2
         DEF Main, MainLooks, MainDraws, Fill, User, OpenPreview, SurfaceCreated,
             Leave, Return, Back, SurfaceDestroyed, SwitchToOne, SwitchToFour, cvars
    <3>2. QED
      BY <1>7, <3>1 DEF Remember
  <2>3. QED
    BY <2>1, <2>2
<1>10. QED
  BY <1>2, <1>3, <1>4, <1>5, <1>8, <1>9 DEF Next, Camera
-----------------------------------------------------------------------------
\* The listener.

\* Every step keeps what is known of the listener.
LEMMA ListeningNext == TypeOK /\ Listening /\ Next => Listening'
<1> SUFFICES ASSUME TypeOK, Listening, Next PROVE Listening'
  OBVIOUS
<1> USE DEF Listening
<1>0. /\ view \in [Views -> ViewStates] /\ None \notin Views /\ Views \subseteq Nat
      /\ \A v \in Views : /\ view[v].act \in {"none", "shown", "stopped", "gone"}
                          /\ view[v].surface \in BOOLEAN /\ view[v].callback \in BOOLEAN
  BY ViewsFacts DEF TypeOK, ViewStates
<1>1. ASSUME listener' = listener, strayed \subseteq strayed',
             \A v \in Views :
               /\ view'[v].act = view[v].act /\ view'[v].surface = view[v].surface
               /\ view'[v].callback = view[v].callback
      PROVE  Listening'
  <2>1. Unopened' /\ OneActive'
    BY <1>1 DEF Unopened, OneActive, Active
  <2>2. Fed'
    BY <1>1 DEF Fed, Shown
  <2>3. QED
    BY <2>1, <2>2
<1>2. CASE Camera
  BY <1>1, <1>2, CameraFrame
<1>3. CASE MainLooks \/ MainDraws \/ MainRecycles \/ Fill
  BY <1>1, <1>3, DrawingFrame
<1>4. ASSUME NEW v \in Views, SwitchToOne(v) \/ SwitchToFour(v)
      PROVE  Listening'
  BY <1>1, <1>4, DrawingFrame
<1>5. ASSUME NEW v \in Views, OpenPreview(v)
      PROVE  Listening'
  <2>1. /\ view[v].act = "none" /\ listener' = listener /\ strayed' = strayed
        /\ \A w \in Views : IF w < v THEN view[w].act = "gone" ELSE view[w].act = "none"
    BY <1>5 DEF OpenPreview
  <2>2. /\ \A w \in Views : w # v => view'[w] = view[w]
        /\ view'[v].act = "shown" /\ view'[v].surface = view[v].surface
        /\ view'[v].callback = view[v].callback
    BY <1>0, <1>5, ActSet DEF OpenPreview, Alone
  <2>3. Unopened'
    BY <1>0, <2>1, <2>2 DEF Unopened
  <2>4. OneActive'
    BY <2>1, <2>2 DEF OneActive, Active
  <2>5. Fed'
    BY <2>1, <2>2 DEF Unopened, Fed, Shown
  <2>6. QED
    BY <2>3, <2>4, <2>5
<1>6. ASSUME NEW v \in Views, SurfaceCreated(v)
      PROVE  Listening'
  <2>1. /\ view[v].act = "shown" /\ strayed' = strayed
        /\ view[v].callback => listener' = v
        /\ ~view[v].callback => listener' = listener
    BY <1>6 DEF SurfaceCreated, Shown
  <2>2. /\ \A w \in Views : w # v => view'[w] = view[w]
        /\ view'[v].act = "shown" /\ view'[v].surface
        /\ view'[v].callback = view[v].callback
    BY <1>0, <1>6, <2>1, SurfaceMade DEF SurfaceCreated, Alone
  <2>3. Unopened' /\ OneActive'
    BY <2>1, <2>2 DEF Unopened, OneActive, Active
  <2>4. Fed'
    BY <2>1, <2>2 DEF OneActive, Active, Fed, Shown
  <2>5. QED
    BY <2>3, <2>4
<1>7. ASSUME NEW v \in Views, Leave(v) \/ Back(v)
      PROVE  Listening'
  <2>1. /\ view[v].act = "shown" /\ listener' = listener /\ strayed' = strayed
    BY <1>7 DEF Leave, Back, Shown
  <2>2. /\ \A w \in Views : w # v => view'[w] = view[w]
        /\ view'[v].act \in {"stopped", "gone"} /\ view'[v].surface = view[v].surface
        /\ view'[v].callback = view[v].callback
    BY <1>0, <1>7, ActSet DEF Leave, Back, Alone
  <2>3. Unopened' /\ OneActive'
    BY <2>1, <2>2 DEF Unopened, OneActive, Active
  <2>4. Fed'
    BY <2>1, <2>2 DEF Fed, Shown
  <2>5. QED
    BY <2>3, <2>4
<1>8. ASSUME NEW v \in Views, Return(v)
      PROVE  Listening'
  <2>1. /\ view[v].act = "stopped" /\ listener' = v /\ strayed \subseteq strayed'
        /\ view[v].modules = "null" => "blank" \in strayed'
    BY <1>8 DEF Return
  <2>2. /\ \A w \in Views : w # v => view'[w] = view[w]
        /\ view'[v].act = "shown" /\ view'[v].surface = view[v].surface
        /\ view'[v].callback = view[v].callback
    BY <1>0, <1>8, ActSet DEF Return, Alone
  <2>3. Unopened' /\ OneActive'
    BY <2>1, <2>2 DEF Unopened, OneActive, Active
  <2>4. Fed'
    BY <2>1, <2>2 DEF OneActive, Active, Fed, Shown
  <2>5. QED
    BY <2>3, <2>4
<1>9. ASSUME NEW v \in Views, SurfaceDestroyed(v)
      PROVE  Listening'
  <2>1. /\ view[v].act \in {"stopped", "gone"} /\ strayed \subseteq strayed'
        /\ view[v].callback => listener' = None
        /\ ~view[v].callback => listener' = listener
        /\ view[v].callback /\ listener # v => "late" \in strayed'
    BY <1>9 DEF SurfaceDestroyed
  <2>2. /\ \A w \in Views : w # v => view'[w] = view[w]
        /\ view'[v].act = view[v].act /\ ~view'[v].surface /\ ~view'[v].callback
    BY <1>0, <1>9, SurfaceGone DEF SurfaceDestroyed, Alone
  <2>3. Unopened' /\ OneActive'
    BY <1>0, <2>1, <2>2 DEF Unopened, OneActive, Active
  <2>4. Fed'
    BY <2>1, <2>2 DEF Fed, Shown
  <2>5. QED
    BY <2>3, <2>4
<1>10. QED
  BY <1>2, <1>3, <1>4, <1>5, <1>6, <1>7, <1>8, <1>9 DEF Next, Main, User
-----------------------------------------------------------------------------
\* The display modules.

\* A view does not lose its modules, and gets new ones where there were none
\* only from the thread that draws it.
LEMMA ModulesKept ==
  ASSUME TypeOK, Filled, Next
  PROVE  /\ strayed \subseteq strayed'
         /\ \A v \in Views : view[v].modules # "null" => view'[v].modules # "null"
         /\ \A v \in Views :
              view[v].modules = "null" /\ view'[v].modules # "null" => view[v].surface
<1>0. view \in [Views -> ViewStates] /\ (mpc # "idle" => mview \in Views)
  BY DEF TypeOK
<1>1. CASE Grab \/ CameraEnds \/ Ask \/ Burn \/ Call \/ CameraRecycles
  BY <1>1 DEF Grab, CameraEnds, Ask, Burn, Call, CameraRecycles
<1>2. CASE Feed
  <2>1. CASE view[cview].modules \in {"null", "part"}
    BY <1>2, <2>1 DEF Feed
  <2>2. CASE view[cview].modules \notin {"null", "part"}
    <3>1. /\ view' = [view EXCEPT ![cview].first = "fed", ![cview].modules = "fed"]
          /\ cview \in Views
      BY <1>2, <2>2 DEF Feed, TypeOK
    <3>2. QED
      BY <1>0, <1>2, <2>2, <3>1, FeedSet DEF Feed, Alone
  <2>3. QED
    BY <2>1, <2>2
<1>3. ASSUME NEW v \in Views, NEW t \in {"camera", "main"}, Looked(v, t)
      PROVE  /\ Alone(v) /\ (view[v].modules # "null" => view'[v].modules # "null")
             /\ view'[v].modules # view[v].modules => view[v].surface
  BY <1>3, LookedFacts DEF Blank
<1>4. CASE CameraLooks
  <2>1. Looked(cview, "camera") /\ cview \in Views /\ strayed' = strayed
    BY <1>4 DEF CameraLooks, TypeOK
  <2>2. QED
    BY <1>3, <2>1 DEF Alone
<1>5. CASE CameraDraws
  <2>1. Drawn(cview, "camera", cpc = "put") /\ cview \in Views /\ strayed' = strayed
    BY <1>5 DEF CameraDraws, TypeOK
  <2>2. QED
    BY <2>1, DrawnFacts DEF Alone
<1>6. CASE Remember
  <2>1. frame \in {None} \cup Turns /\ cview \in Views
    BY <1>6, ViewsFacts DEF Remember, None, Turns, TypeOK
  <2>2. QED
    BY <1>0, <1>6, <2>1, PreviousSet DEF Remember, Alone
<1>7. CASE MainLooks
  <2>1. Looked(mview, "main") /\ mview \in Views /\ strayed' = strayed
    BY <1>0, <1>7 DEF MainLooks
  <2>2. QED
    BY <1>3, <2>1 DEF Alone
<1>8. CASE MainDraws
  <2>1. Drawn(mview, "main", mpc = "put") /\ mview \in Views /\ strayed' = strayed
    BY <1>0, <1>8 DEF MainDraws
  <2>2. QED
    BY <2>1, DrawnFacts DEF Alone
<1>9. CASE MainRecycles
  BY <1>9 DEF MainRecycles
<1>10. CASE Fill
  BY <1>0, <1>10, FillSet DEF Fill, Filled, Alone
<1>11. ASSUME NEW v \in Views, OpenPreview(v) \/ Leave(v) \/ Return(v) \/ Back(v)
       PROVE  strayed \subseteq strayed' /\ \A w \in Views : view'[w].modules = view[w].modules
  BY <1>0, <1>11, ActSet DEF OpenPreview, Leave, Return, Back, Alone
<1>12. ASSUME NEW v \in Views, SurfaceCreated(v) \/ SurfaceDestroyed(v)
       PROVE  strayed \subseteq strayed' /\ \A w \in Views : view'[w].modules = view[w].modules
  BY <1>0, <1>12, SurfaceMade, SurfaceGone DEF SurfaceCreated, SurfaceDestroyed, Alone
<1>13. ASSUME NEW v \in Views, SwitchToOne(v)
       PROVE  strayed \subseteq strayed' /\ \A w \in Views : view'[w].modules = view[w].modules
  BY <1>0, <1>13, OneSet DEF SwitchToOne, Alone
<1>14. ASSUME NEW v \in Views, SwitchToFour(v)
       PROVE  /\ strayed \subseteq strayed'
              /\ \A w \in Views : view'[w].modules # view[w].modules =>
                   view[w].modules # "null" /\ view'[w].modules # "null"
  <2>1. /\ view[v].modules # "null" /\ strayed \subseteq strayed'
        /\ view' = [view EXCEPT ![v].channel = "four", ![v].modules = "part",
                               ![v].first = "fresh", ![v].own = None]
    BY <1>14 DEF SwitchToFour
  <2>2. Alone(v) /\ view'[v].modules = "part"
    BY <1>0, <2>1, FourSet
  <2>3. QED
    BY <2>1, <2>2 DEF Alone
<1>15. QED
  BY <1>1, <1>2, <1>4, <1>5, <1>6, <1>7, <1>8, <1>9, <1>10, <1>11, <1>12, <1>13, <1>14
     DEF Next, Camera, Main, User

\* What the camera thread does to the modules, besides feeding a view that
\* has them: it fills empty ones before it draws.
LEMMA CameraModules ==
  ASSUME TypeOK, Filled, Camera, ~Feed
  PROVE  \A v \in Views :
           /\ view'[v].modules = view[v].modules
              \/ (CameraLooks /\ v = cview /\ view'[v].modules = "test")
           /\ view[v].modules \in {"null", "part"} => view'[v].modules = view[v].modules
           /\ ~CameraLooks /\ ~CameraDraws => view'[v].first = view[v].first
           /\ ~CameraLooks => view'[v].own = view[v].own
           /\ ~CameraLooks /\ ~CameraDraws => view'[v].lock = view[v].lock
<1>0. view \in [Views -> ViewStates]
  BY DEF TypeOK
<1>1. CASE Grab \/ CameraEnds \/ Ask \/ Burn \/ Call \/ CameraRecycles
  BY <1>1 DEF Grab, CameraEnds, Ask, Burn, Call, CameraRecycles
<1>2. CASE CameraLooks
  <2>1. /\ Looked(cview, "camera") /\ cview \in Views
        /\ view[cview].modules # "null"
    BY <1>2 DEF CameraLooks, TypeOK, Filled
  <2>2. /\ Alone(cview)
        /\ view'[cview].modules = view[cview].modules \/ view'[cview].modules = "test"
        /\ view[cview].modules = "part" => view' = view
    BY <2>1, LookedFacts DEF Blank
  <2>3. QED
    BY <1>2, <2>1, <2>2 DEF Alone
<1>3. CASE CameraDraws
  <2>1. Drawn(cview, "camera", cpc = "put") /\ cview \in Views
    BY <1>3 DEF CameraDraws, TypeOK
  <2>2. QED
    BY <1>3, <2>1, DrawnFacts DEF Alone
<1>4. CASE Remember
  <2>1. frame \in {None} \cup Turns /\ cview \in Views
    BY <1>4, ViewsFacts DEF Remember, None, Turns, TypeOK
  <2>2. QED
    BY <1>0, <1>4, <2>1, PreviousSet DEF Remember, Alone
<1>5. QED
  BY <1>1, <1>2, <1>3, <1>4 DEF Camera

\* The parts of the invariant that only a step of the main thread could
\* disturb, when the camera thread works.
LEMMA ModulesCamera == TypeOK /\ Modules /\ Camera => Modules'
<1> SUFFICES ASSUME TypeOK, Modules, Camera PROVE Modules'
  OBVIOUS
<1> USE DEF Modules
<1>1. /\ strayed \subseteq strayed' /\ strayed' \subseteq strayed \cup {"busy"}
      /\ listener' = listener /\ mpc' = mpc /\ mview' = mview
      /\ \A v \in Views : view'[v].surface = view[v].surface
                          /\ view'[v].callback = view[v].callback
                          /\ view'[v].channel = view[v].channel
  BY CameraFrame
<1>2. /\ \A v \in Views : view[v].modules # "null" => view'[v].modules # "null"
      /\ \A v \in Views :
           view[v].modules = "null" /\ view'[v].modules # "null" => view[v].surface
  BY ModulesKept DEF Next
<1>3. \A v \in Views : view'[v].modules = "part" => view[v].modules = "part"
  <2>1. CASE Feed
    <3>1. CASE view[cview].modules \in {"null", "part"}
      BY <2>1, <3>1 DEF Feed
    <3>2. CASE view[cview].modules \notin {"null", "part"}
      BY <2>1, <3>2, FeedSet DEF Feed, Alone, TypeOK
    <3>3. QED
      BY <3>1, <3>2
  <2>2. CASE ~Feed
    BY <2>2, CameraModules
  <2>3. QED
    BY <2>1, <2>2
<1>4. Virgin' /\ Unset'
  <2>1. Virgin'
    BY <1>1, <1>2 DEF Virgin
  <2>2. ASSUME NEW v \in Views, view'[v].modules = "null"
        PROVE  view[v].modules = "null" /\ view'[v].first = view[v].first
    <3>1. view[v].modules = "null"
      BY <1>2, <2>2
    <3>2. CASE Feed
      <4>1. CASE view[cview].modules \in {"null", "part"}
        BY <3>1, <3>2, <4>1 DEF Feed
      <4>2. CASE view[cview].modules \notin {"null", "part"}
        BY <3>1, <3>2, <4>2, FeedSet DEF Feed, Alone, TypeOK
      <4>3. QED
        BY <4>1, <4>2
    <3>3. CASE CameraLooks
      <4>1. Looked(cview, "camera") /\ cview \in Views /\ v # cview
        BY <3>1, <3>3 DEF CameraLooks, TypeOK, Filled
      <4>2. QED
        BY <3>1, <4>1, LookedFacts DEF Alone
    <3>4. CASE CameraDraws
      <4>1. Drawn(cview, "camera", cpc = "put") /\ cview \in Views /\ v # cview
        BY <3>1, <3>4 DEF CameraDraws, TypeOK, Filled
      <4>2. QED
        BY <3>1, <4>1, DrawnFacts DEF Alone
    <3>5. CASE ~Feed /\ ~CameraLooks /\ ~CameraDraws
      BY <3>1, <3>5, CameraModules
    <3>6. QED
      BY <3>2, <3>3, <3>4, <3>5
  <2>3. Unset'
    BY <1>1, <2>2 DEF Unset
  <2>4. QED
    BY <2>1, <2>3
<1>5. Partly'
  BY <1>1, <1>3 DEF Partly
<1>6. Prepared'
  BY <1>1, <1>2 DEF Prepared
<1>7. /\ mpc \in {"fill", "put"} => mview \in Views
      /\ cpc \in {"feed", "lock", "draw", "put", "recycle", "remember"} => cview \in Views
      /\ None \notin Views /\ listener \in {None} \cup Views
  BY ViewsFacts DEF TypeOK
<1>8. Filled'
  <2>1. /\ mpc' = "fill" => view'[mview'].modules = "part"
        /\ mpc' = "put" => view'[mview'].modules # "null"
    <3>0. mpc' = "put" => view'[mview'].modules # "null"
      BY <1>1, <1>2, <1>7 DEF Filled
    <3>1. CASE Feed
      <4>1. CASE view[cview].modules \in {"null", "part"}
        BY <1>1, <3>1, <4>1 DEF Feed, Filled
      <4>2. CASE view[cview].modules \notin {"null", "part"}
        BY <1>1, <1>7, <3>1, <4>2, FeedSet DEF Feed, Alone, TypeOK, Filled
      <4>3. QED
        BY <4>1, <4>2
    <3>2. CASE ~Feed
      BY <1>1, <1>7, <3>2, CameraModules DEF Filled
    <3>3. QED
      BY <3>0, <3>1, <3>2
  <2>2. CASE Feed
    <3>1. CASE view[cview].modules \in {"null", "part"}
      BY <2>1, <2>2, <3>1 DEF Feed, Filled
    <3>2. CASE view[cview].modules \notin {"null", "part"}
      BY <1>2, <1>7, <2>1, <2>2, <3>2 DEF Feed, Filled
    <3>3. QED
      BY <3>1, <3>2
  <2>3. CASE Grab \/ CameraEnds \/ Ask \/ Burn \/ Call
    BY <2>1, <2>3 DEF Grab, CameraEnds, Ask, Burn, Call, Filled
  <2>4. CASE CameraLooks \/ CameraDraws \/ CameraRecycles \/ Remember
    BY <1>2, <1>7, <2>1, <2>4
       DEF CameraLooks, AfterLook, CameraDraws, CameraRecycles, Remember, Filled
  <2>5. QED
    BY <2>2, <2>3, <2>4 DEF Camera
<1>9. Called' /\ OutlivesPreview'
  <2>1. CASE Call
    <3>1. /\ cpc = "call" /\ cview' = listener
          /\ cpc' = IF listener = None THEN "crashed" ELSE "feed"
          /\ mpc # "idle" => "busy" \in strayed'
          /\ view' = view
      BY <2>1 DEF Call
    <3>2. Called'
      BY <1>1, <1>7, <3>1 DEF Called, Prepared
    <3>3. OutlivesPreview'
      BY <1>1, <3>1 DEF Called, OutlivesPreview
    <3>4. QED
      BY <3>2, <3>3
  <2>2. CASE Feed
    <3>1. /\ cpc = "feed" /\ cpc' \in {"lock", "crashed"}
          /\ cpc' = "crashed" => view[cview].modules \in {"null", "part"}
          /\ mpc # "idle" => "busy" \in strayed'
      BY <2>2 DEF Feed
    <3>2. Called'
      BY <3>1 DEF Called
    <3>3. OutlivesPreview'
      BY <1>1, <1>7, <3>1 DEF Called, Partly, OutlivesPreview
    <3>4. QED
      BY <3>2, <3>3
  <2>3. CASE Ask
    BY <1>1, <2>3 DEF Ask, Called, OutlivesPreview
  <2>4. CASE \/ Grab \/ CameraEnds \/ Burn \/ CameraLooks \/ CameraDraws
             \/ CameraRecycles \/ Remember
    BY <2>4 DEF Grab, CameraEnds, Burn, CameraLooks, AfterLook, CameraDraws,
                CameraRecycles, Remember, Called, OutlivesPreview
  <2>5. QED
    BY <2>1, <2>2, <2>3, <2>4 DEF Camera
<1>10. QED
  BY <1>4, <1>5, <1>6, <1>8, <1>9

\* And when the main thread works.
LEMMA ModulesMain == TypeOK /\ Modules /\ Main => Modules'
<1> SUFFICES ASSUME TypeOK, Modules, Main PROVE Modules'
  OBVIOUS
<1> USE DEF Modules
<1>0. /\ view \in [Views -> ViewStates] /\ None \notin Views
      /\ listener \in {None} \cup Views
      /\ cpc \in {"feed", "lock", "draw", "put", "recycle", "remember"} => cview \in Views
      /\ mpc # "idle" => mview \in Views
      /\ \A v \in Views : view[v].surface \in BOOLEAN /\ view[v].callback \in BOOLEAN
  BY ViewsFacts DEF TypeOK, ViewStates
<1>1. /\ strayed \subseteq strayed'
      /\ \A v \in Views : view[v].modules # "null" => view'[v].modules # "null"
      /\ \A v \in Views :
           view[v].modules = "null" /\ view'[v].modules # "null" => view[v].surface
  BY ModulesKept DEF Next
<1>2. cpc' = cpc /\ cview' = cview
  BY DEF Main, User, MainLooks, MainDraws, MainRecycles, Fill, OpenPreview,
         SurfaceCreated, Leave, Return, Back, SurfaceDestroyed, SwitchToOne,
         SwitchToFour, cvars
<1>3. ASSUME Virgin', Unset', Partly', Prepared',
             mpc' = "fill" => view'[mview'].modules = "part",
             mpc' = "put" => view'[mview'].modules # "null",
             cpc = "call" => listener' # None \/ listener' = listener \/ "left" \in strayed'
      PROVE  Modules'
  <2>1. Filled' /\ Called' /\ OutlivesPreview'
    BY <1>0, <1>1, <1>2, <1>3 DEF Filled, Called, OutlivesPreview
  <2>2. QED
    BY <1>3, <2>1
<1>4. CASE MainLooks
  <2>1. /\ mpc = "show" /\ mpc' \in {"recycle", "draw", "put"} /\ mview' = mview
        /\ mview \in Views /\ listener' = listener /\ strayed' = strayed
    BY <1>0, <1>4 DEF MainLooks, AfterLook
  <2>2. Looked(mview, "main")
    BY <1>4 DEF MainLooks
  <2>3. /\ \A w \in Views : w # mview => view'[w] = view[w]
        /\ view'[mview].surface = view[mview].surface
        /\ view'[mview].callback = view[mview].callback
        /\ view'[mview].channel = view[mview].channel
        /\ view'[mview].modules = "part" => view[mview].modules = "part"
        /\ view'[mview].modules = "null" => view' = view /\ ~view[mview].surface
    <3>1. view[mview].modules = "null" => view[mview].channel = "four"
      BY <2>1 DEF Unset
    <3>2. Picture(mview, "null") = None
      BY DEF Picture
    <3>3. QED
      BY <2>1, <2>2, <3>1, <3>2, LookedFacts DEF Alone, Blank
  <2>4. view'[mview].modules # "null" => view[mview].modules # "null" \/ view[mview].surface
    BY <1>1, <2>1
  <2>5. Virgin' /\ Unset' /\ Partly'
    BY <1>0, <2>1, <2>3, <2>4 DEF Virgin, Unset, Partly
  <2>6. Prepared'
    BY <1>0, <2>1, <2>3 DEF Prepared
  <2>7. mpc' = "put" => view'[mview].modules # "null"
    BY <1>4, <2>3 DEF MainLooks, AfterLook, Blank
  <2>8. QED
    BY <1>3, <2>1, <2>5, <2>6, <2>7
<1>5. CASE MainDraws \/ MainRecycles
  <2>1. /\ mpc \in {"draw", "put", "recycle"} /\ mpc' \in {"recycle", "idle"}
        /\ listener' = listener /\ strayed' = strayed
    BY <1>5 DEF MainDraws, MainRecycles
  <2>2. /\ MainDraws => Drawn(mview, "main", mpc = "put") /\ mview \in Views
        /\ MainRecycles => view' = view
    BY <1>0, <2>1 DEF MainDraws, MainRecycles
  <2>3. \A w \in Views : /\ view'[w].surface = view[w].surface
                         /\ view'[w].callback = view[w].callback
                         /\ view'[w].modules = view[w].modules
                         /\ view'[w].channel = view[w].channel
    BY <1>5, <2>2, DrawnFacts DEF Alone
  <2>4. ASSUME NEW w \in Views, view[w].modules = "null"
        PROVE  view'[w].first = view[w].first
    <3>1. CASE MainRecycles
      BY <2>2, <3>1
    <3>2. CASE MainDraws /\ mpc = "draw"
      BY <2>2, <3>2, DrawnFacts DEF Alone
    <3>3. CASE MainDraws /\ mpc = "put"
      <4>1. view[mview].modules # "null"
        BY <3>3 DEF Filled
      <4>2. QED
        BY <2>2, <2>4, <3>3, <4>1, DrawnFacts DEF Alone
    <3>4. QED
      BY <1>5, <3>1, <3>2, <3>3 DEF MainDraws
  <2>5. Virgin' /\ Unset' /\ Partly' /\ Prepared'
    BY <2>1, <2>3, <2>4 DEF Virgin, Unset, Partly, Prepared
  <2>6. QED
    BY <1>3, <2>1, <2>5
<1>6. CASE Fill
  <2>1. /\ mpc = "fill" /\ mpc' = "idle" /\ mview \in Views
        /\ listener' = listener /\ strayed' = strayed
    BY <1>0, <1>6 DEF Fill
  <2>2. /\ \A w \in Views : w # mview => view'[w] = view[w]
        /\ view'[mview].surface = view[mview].surface
        /\ view'[mview].callback = view[mview].callback
        /\ view'[mview].modules = "fresh"
    BY <1>0, <1>6, <2>1, FillSet DEF Fill, Alone
  <2>3. Virgin' /\ Unset'
    BY <2>1, <2>2 DEF Virgin, Unset, Filled
  <2>4. Partly' /\ Prepared'
    BY <2>1, <2>2 DEF Partly, Prepared
  <2>5. QED
    BY <1>3, <2>1, <2>3, <2>4
<1>7. ASSUME NEW v \in Views, OpenPreview(v) \/ Leave(v) \/ Back(v)
      PROVE  Modules'
  <2>1. /\ mpc = "idle" /\ mpc' = "idle" /\ listener' = listener /\ strayed' = strayed
    BY <1>7 DEF OpenPreview, Leave, Back, MainIdle
  <2>2. \A w \in Views : /\ view'[w].surface = view[w].surface
                         /\ view'[w].callback = view[w].callback
                         /\ view'[w].modules = view[w].modules
                         /\ view'[w].channel = view[w].channel
                         /\ view'[w].first = view[w].first
    BY <1>0, <1>7, ActSet DEF OpenPreview, Leave, Back, Alone
  <2>3. Virgin' /\ Unset' /\ Partly' /\ Prepared'
    BY <2>1, <2>2 DEF Virgin, Unset, Partly, Prepared
  <2>4. QED
    BY <1>3, <2>1, <2>3
<1>8. ASSUME NEW v \in Views, Return(v)
      PROVE  Modules'
  <2>1. /\ mpc = "idle" /\ mpc' = "show" /\ listener' = v
        /\ view[v].modules = "null" => "blank" \in strayed'
    BY <1>8 DEF Return, MainIdle
  <2>2. \A w \in Views : /\ view'[w].surface = view[w].surface
                         /\ view'[w].callback = view[w].callback
                         /\ view'[w].modules = view[w].modules
                         /\ view'[w].channel = view[w].channel
                         /\ view'[w].first = view[w].first
    BY <1>0, <1>8, ActSet DEF Return, Alone
  <2>3. Virgin' /\ Unset' /\ Partly' /\ Prepared'
    BY <2>1, <2>2 DEF Virgin, Unset, Partly, Prepared
  <2>4. QED
    BY <1>0, <1>3, <2>1, <2>3
<1>9. ASSUME NEW v \in Views, SurfaceCreated(v)
      PROVE  Modules'
  <2>1. /\ mpc = "idle" /\ mpc' \in {"idle", "show"} /\ strayed' = strayed
        /\ view[v].callback => listener' = v /\ mpc' = "show" /\ mview' = v
        /\ ~view[v].callback => listener' = listener
    BY <1>9 DEF SurfaceCreated, MainIdle
  <2>2. /\ \A w \in Views : w # v => view'[w] = view[w]
        /\ view'[v].surface /\ view'[v].callback = view[v].callback
        /\ view'[v].modules = view[v].modules
        /\ view'[v].channel = view[v].channel /\ view'[v].first = view[v].first
    BY <1>0, <1>9, SurfaceMade DEF SurfaceCreated, Alone
  <2>3. Virgin' /\ Unset' /\ Partly'
    BY <2>1, <2>2 DEF Virgin, Unset, Partly
  <2>4. Prepared'
    BY <1>0, <2>1, <2>2 DEF Prepared
  <2>5. QED
    BY <1>0, <1>3, <2>1, <2>3, <2>4
<1>10. ASSUME NEW v \in Views, SurfaceDestroyed(v)
       PROVE  Modules'
  <2>1. /\ mpc = "idle" /\ mpc' = "idle" /\ listener' \in {None, listener}
        /\ ~view[v].callback => listener' = listener
        /\ view[v].callback /\ cpc = "call" => "left" \in strayed'
    BY <1>10 DEF SurfaceDestroyed, MainIdle
  <2>2. /\ \A w \in Views : w # v => view'[w] = view[w]
        /\ ~view'[v].callback /\ view'[v].modules = view[v].modules
        /\ view'[v].channel = view[v].channel /\ view'[v].first = view[v].first
    BY <1>0, <1>10, SurfaceGone DEF SurfaceDestroyed, Alone
  <2>3. Virgin' /\ Unset' /\ Partly'
    BY <2>1, <2>2 DEF Virgin, Unset, Partly
  <2>4. Prepared'
    BY <1>0, <1>1, <2>1, <2>2 DEF Prepared
  <2>5. QED
    BY <1>0, <1>3, <2>1, <2>3, <2>4
<1>11. ASSUME NEW v \in Views, SwitchToOne(v) \/ SwitchToFour(v)
       PROVE  Modules'
  <2>1. /\ mpc = "idle" /\ listener' = listener /\ view[v].modules # "null"
        /\ SwitchToOne(v) => mpc' = "idle"
        /\ SwitchToFour(v) => mpc' = "fill" /\ mview' = v
    BY <1>11 DEF SwitchToOne, SwitchToFour, MainIdle
  <2>2. /\ \A w \in Views : w # v => view'[w] = view[w]
        /\ view'[v].surface = view[v].surface /\ view'[v].callback = view[v].callback
        /\ view'[v].modules # "null"
        /\ SwitchToOne(v) => view'[v].modules = view[v].modules
        /\ SwitchToFour(v) => view'[v].modules = "part"
    <3>1. CASE SwitchToOne(v)
      <4>1. PICK c \in {"zero", "other"} :
              view' = [view EXCEPT ![v].channel = c, ![v].first = "own", ![v].own = None]
        BY <3>1 DEF SwitchToOne
      <4>2. /\ Alone(v) /\ view'[v].surface = view[v].surface
            /\ view'[v].callback = view[v].callback
            /\ view'[v].modules = view[v].modules
        BY <1>0, <4>1, OneSet
      <4>3. ~SwitchToFour(v)
        BY <3>1, <2>1
      <4>4. QED
        BY <2>1, <4>2, <4>3 DEF Alone
    <3>2. CASE SwitchToFour(v)
      <4>1. view' = [view EXCEPT ![v].channel = "four", ![v].modules = "part",
                                ![v].first = "fresh", ![v].own = None]
        BY <3>2 DEF SwitchToFour
      <4>2. /\ Alone(v) /\ view'[v].surface = view[v].surface
            /\ view'[v].callback = view[v].callback /\ view'[v].modules = "part"
        BY <1>0, <4>1, FourSet
      <4>3. ~SwitchToOne(v)
        BY <3>2, <2>1
      <4>4. QED
        BY <4>2, <4>3 DEF Alone
    <3>3. QED
      BY <1>11, <3>1, <3>2
  <2>3. Virgin' /\ Unset' /\ Partly'
    BY <1>11, <2>1, <2>2 DEF Virgin, Unset, Partly
  <2>4. Prepared'
    BY <1>1, <2>1, <2>2 DEF Prepared
  <2>5. QED
    BY <1>3, <1>11, <2>1, <2>2, <2>3, <2>4
<1>12. QED
  BY <1>4, <1>5, <1>6, <1>7, <1>8, <1>9, <1>10, <1>11 DEF Main, User
-----------------------------------------------------------------------------
\* Drawing.

\* A bitmap that a thread may draw.
LEMMA ShotFacts ==
  ASSUME TypeOK, Fresh, cpc \in InHand, NEW b, Shot(b)
  PROVE  b # None /\ b \notin recycled
<1>1. /\ frame # None /\ frame \notin recycled /\ recycled \subseteq 1..turn
      /\ turn \in 0..MaxTurns /\ MaxTurns \in Nat
  BY ViewsFacts DEF TypeOK, Fresh
<1>2. TestPicture \notin recycled /\ TestPicture # None
  BY <1>1 DEF TestPicture, None
<1>3. QED
  BY <1>1, <1>2 DEF Shot

\* What a drawing draws.
LEMMA DrawnLive ==
  ASSUME TypeOK, NEW v \in Views, NEW t, NEW single \in BOOLEAN, Drawn(v, t, single),
         view[v].modules # "part",
         single => view[v].own \notin recycled \cup {None},
         ~single => /\ Picture(v, view[v].first) \notin recycled \cup {None}
                    /\ Picture(v, view[v].modules) \notin recycled \cup {None}
  PROVE  stale' = stale
BY DEF Drawn

\* The camera thread draws its own fresh bitmap, and leaves a view that the
\* main thread has locked alone.
LEMMA DrawingCamera == TypeOK /\ Filled /\ Fresh /\ Drawing /\ Camera => Drawing'
<1> SUFFICES ASSUME TypeOK, Filled, Fresh, Drawing, Camera PROVE Drawing'
  OBVIOUS
<1> USE DEF Drawing
<1>0. /\ view \in [Views -> ViewStates]
      /\ cpc \in {"feed", "lock", "draw", "put", "recycle", "remember"} => cview \in Views
      /\ mpc # "idle" => mview \in Views
  BY DEF TypeOK
<1>1. /\ strayed \subseteq strayed' /\ strayed' \subseteq strayed \cup {"busy"}
      /\ mpc' = mpc /\ mview' = mview
      /\ \A v \in Views : /\ view'[v].surface = view[v].surface
                          /\ view'[v].channel = view[v].channel
  BY CameraFrame
<1>2. Four'
  BY <1>1 DEF Four
<1>3. CASE Feed
  <2>1. stale' = stale /\ cview' = cview /\ cpc = "feed" /\ frame' = frame
    BY <1>3 DEF Feed
  <2>2. CASE view[cview].modules \in {"null", "part"}
    <3>1. view' = view /\ cpc' = "crashed"
      BY <1>3, <2>2 DEF Feed
    <3>2. Held' /\ FirstShow' /\ Shots' /\ DrawsLive'
      BY <1>1, <2>1, <3>1
         DEF Held, FirstShow, Shots, OwnShot, FourShot, OneShot, DrawsLive
    <3>3. QED
      BY <1>2, <3>2
  <2>3. CASE view[cview].modules \notin {"null", "part"}
    <3>1. cpc' = "lock" /\ cview \in Views
      BY <1>0, <1>3, <2>1, <2>3 DEF Feed
    <3>2. view' = [view EXCEPT ![cview].first = "fed", ![cview].modules = "fed"]
      BY <1>3, <2>3 DEF Feed
    <3>3. /\ \A w \in Views : w # cview => view'[w] = view[w]
          /\ view'[cview].lock = view[cview].lock
          /\ view'[cview].first = "fed" /\ view'[cview].modules = "fed"
      BY <1>0, <3>1, <3>2, FeedSet DEF Alone
    <3>4. Held' /\ FirstShow'
      BY <1>0, <1>1, <2>1, <2>3, <3>1, <3>3 DEF Held, FirstShow
    <3>5. Shots' /\ DrawsLive'
      BY <1>1, <2>1, <3>1, <3>3 DEF Shots, OwnShot, FourShot, OneShot, DrawsLive
    <3>6. QED
      BY <1>2, <3>4, <3>5
  <2>4. QED
    BY <2>2, <2>3
<1>4. CASE CameraLooks
  <2>1. /\ cpc = "lock" /\ cview \in Views /\ Looked(cview, "camera")
        /\ cpc' = AfterLook(cview) /\ cview' = cview /\ stale' = stale
        /\ strayed' = strayed /\ frame' = frame
    BY <1>0, <1>4 DEF CameraLooks
  <2>2. /\ view[cview].lock = "free"
        /\ \A w \in Views : w # cview => view'[w] = view[w]
    BY <2>1, LookedFacts DEF Alone
  <2>3. mpc \in {"draw", "put"} => mview # cview
    BY <2>2 DEF Held
  <2>4. cpc' \in {"draw", "put"} => view'[cview].lock = "camera"
    BY <2>1, LookedFacts DEF AfterLook
  <2>5. Held'
    BY <1>0, <1>1, <2>1, <2>2, <2>3, <2>4 DEF Held
  <2>6. FirstShow'
    <3>1. ASSUME mpc = "show", view[mview].surface, mview = cview
          PROVE  view[mview].modules # "null"
      BY <2>1, <3>1 DEF Filled
    <3>2. QED
      BY <1>0, <1>1, <2>1, <2>2, <2>3, <3>1 DEF FirstShow
  <2>7. Shots'
    <3>1. frame # None /\ TestPicture # None
      BY <2>1, ViewsFacts DEF Fresh, InHand, TestPicture, None
    <3>2. view[cview].modules # "null" /\ view[cview] \in ViewStates
      BY <1>0, <2>1 DEF Filled
    <3>3. OwnShot'
      BY <2>1 DEF OwnShot, AfterLook
    <3>4. ASSUME OwnShot, cpc' = "draw"
          PROVE  FourShot'
      <4>1. ~Blank(cview) /\ view[cview].channel = "four"
        BY <2>1, <3>4 DEF AfterLook
      <4>2. view[cview].modules \in {"fresh", "fed", "test"}
        BY <3>2, <4>1 DEF Blank, ViewStates
      <4>3. view'[cview].modules \in {"fed", "test"}
        BY <2>1, <3>1, <4>1, <4>2, LookedFacts DEF Picture
      <4>4. /\ view[cview].first \in {"fresh", "fed", "own"}
            /\ view[cview].first = "own" =>
                 view[cview].own = None \/ Shot(view[cview].own)
        BY <2>1, <3>2, <3>4 DEF OwnShot, ViewStates
      <4>5. \/ view'[cview].first = "fed"
            \/ view'[cview].first = "own" /\ Shot(view'[cview].own)
        <5>1. LET empty == Picture(cview, view[cview].first) = None
              IN /\ view'[cview].first = IF empty THEN "own" ELSE view[cview].first
                 /\ view'[cview].own = IF empty THEN TestPicture ELSE view[cview].own
          BY <2>1, <4>1, LookedFacts
        <5>2. QED
          BY <3>1, <4>4, <5>1 DEF Picture, Shot
      <4>6. QED
        BY <2>1, <4>3, <4>5 DEF FourShot, Shot
    <3>5. ASSUME OwnShot, cpc' = "put"
          PROVE  OneShot'
      <4>1. ~Blank(cview) /\ view[cview].channel # "four"
        BY <2>1, <3>5 DEF AfterLook
      <4> DEFINE module == IF view[cview].channel = "zero"
                             THEN view[cview].first ELSE view[cview].modules
                 picture == Picture(cview, module)
      <4>2. /\ view'[cview].modules # "part"
            /\ view'[cview].own = IF picture = None THEN TestPicture ELSE picture
        BY <2>1, <4>1, LookedFacts DEF Blank
      <4>3. picture = None \/ Shot(picture)
        <5>1. view[cview].modules # "own"
          BY <3>2 DEF ViewStates
        <5>2. QED
          BY <2>1, <3>5, <5>1 DEF OwnShot, Picture, Shot
      <4> HIDE DEF picture
      <4>4. Shot(view'[cview].own)
        BY <4>2, <4>3 DEF Shot
      <4>5. QED
        BY <2>1, <4>2, <4>4 DEF OneShot, Shot
    <3>6. cpc' # "draw" => FourShot'
      BY DEF FourShot
    <3>7. cpc' # "put" => OneShot'
      BY DEF OneShot
    <3>8. QED
      BY <2>1, <3>3, <3>4, <3>5, <3>6, <3>7 DEF Shots
  <2>8. DrawsLive'
    BY <2>1 DEF DrawsLive
  <2>9. QED
    BY <1>2, <2>5, <2>6, <2>7, <2>8
<1>5. CASE CameraDraws
  <2>1. /\ cpc \in {"draw", "put"} /\ cpc' = "recycle" /\ cview \in Views
        /\ Drawn(cview, "camera", cpc = "put") /\ strayed' = strayed
    BY <1>0, <1>5 DEF CameraDraws
  <2>2. /\ view[cview].lock = "camera"
        /\ \A w \in Views : w # cview => view'[w] = view[w]
        /\ view'[cview].modules = view[cview].modules
    BY <2>1, DrawnFacts DEF Held, Alone
  <2>3. mpc \in {"draw", "put"} => mview # cview
    BY <2>2 DEF Held
  <2>4. Held' /\ FirstShow'
    BY <1>0, <1>1, <2>1, <2>2, <2>3 DEF Held, FirstShow
  <2>5. Shots'
    BY <2>1 DEF Shots, OwnShot, FourShot, OneShot
  <2>6. ASSUME "switch" \notin strayed, ~({"kept", "single"} \subseteq strayed)
        PROVE  stale' = stale
    <3>1. FourShot /\ OneShot /\ cpc \in InHand
      BY <2>1, <2>6 DEF Shots, InHand
    <3>2. Shot(frame) /\ Shot(TestPicture)
      BY DEF Shot
    <3>3. CASE cpc = "draw"
      <4>1. /\ view[cview].modules # "part" /\ Shot(Picture(cview, view[cview].first))
            /\ Shot(Picture(cview, view[cview].modules))
        BY <3>1, <3>2, <3>3 DEF FourShot, Picture
      <4>2. /\ Picture(cview, view[cview].first) \notin recycled \cup {None}
            /\ Picture(cview, view[cview].modules) \notin recycled \cup {None}
        BY <3>1, <4>1, ShotFacts
      <4>3. QED
        BY <2>1, <3>3, <4>1, <4>2, DrawnLive
    <3>4. CASE cpc = "put"
      <4>1. view[cview].modules # "part" /\ Shot(view[cview].own)
        BY <3>1, <3>4 DEF OneShot
      <4>2. view[cview].own \notin recycled \cup {None}
        BY <3>1, <4>1, ShotFacts
      <4>3. QED
        BY <2>1, <3>4, <4>1, <4>2, DrawnLive
    <3>5. QED
      BY <2>1, <3>3, <3>4
  <2>7. DrawsLive'
    BY <2>1, <2>6 DEF DrawsLive, Drawn
  <2>8. QED
    BY <1>2, <2>4, <2>5, <2>7
<1>6. CASE \/ Grab \/ CameraEnds \/ Ask \/ Burn \/ Call \/ CameraRecycles \/ Remember
  <2>1. /\ cpc \notin {"lock", "draw", "put"} /\ cpc' \notin {"lock", "draw", "put"}
        /\ stale' = stale
    BY <1>6 DEF Grab, CameraEnds, Ask, Burn, Call, CameraRecycles, Remember
  <2>2. \A w \in Views : /\ view'[w].lock = view[w].lock
                         /\ view'[w].modules = view[w].modules
                         /\ view'[w].first = view[w].first /\ view'[w].own = view[w].own
    BY <1>6, <2>1, CameraModules DEF CameraLooks, CameraDraws, Feed
  <2>3. Held' /\ FirstShow'
    BY <1>0, <1>1, <2>1, <2>2 DEF Held, FirstShow
  <2>4. Shots' /\ DrawsLive'
    BY <1>1, <2>1 DEF Shots, OwnShot, FourShot, OneShot, DrawsLive
  <2>5. QED
    BY <1>2, <2>3, <2>4
<1>7. QED
  BY <1>3, <1>4, <1>5, <1>6 DEF Camera

\* The main thread draws a fresh bitmap or none, if the view has come anew.
LEMMA DrawingMain == TypeOK /\ Modules /\ Fresh /\ Drawing /\ Main => Drawing'
<1> SUFFICES ASSUME TypeOK, Modules, Fresh, Drawing, Main PROVE Drawing'
  OBVIOUS
<1> USE DEF Drawing
<1>0. /\ view \in [Views -> ViewStates] /\ (mpc # "idle" => mview \in Views)
      /\ cpc \in {"feed", "lock", "draw", "put", "recycle", "remember"} => cview \in Views
      /\ \A v \in Views : view[v].surface \in BOOLEAN /\ view[v].callback \in BOOLEAN
  BY DEF TypeOK, ViewStates
<1>1. cpc' = cpc /\ cview' = cview /\ frame' = frame
  BY DEF Main, User, MainLooks, MainDraws, MainRecycles, Fill, OpenPreview,
         SurfaceCreated, Leave, Return, Back, SurfaceDestroyed, SwitchToOne,
         SwitchToFour, cvars
<1>2. strayed \subseteq strayed'
  BY ModulesKept DEF Next, Modules
\* What the camera thread is going to draw stays as it is, if only the
\* views it does not draw change.
<1>3. ASSUME \A v \in Views : v = cview /\ cpc \in {"lock", "draw", "put"} =>
               /\ view'[v].modules = view[v].modules /\ view'[v].first = view[v].first
               /\ view'[v].own = view[v].own
      PROVE  Shots'
  <2>1. (OwnShot => OwnShot') /\ (FourShot => FourShot') /\ (OneShot => OneShot')
    BY <1>0, <1>1, <1>3 DEF OwnShot, FourShot, OneShot, Shot
  <2>2. QED
    BY <1>2, <2>1 DEF Shots
<1>4. CASE MainLooks
  <2>1. /\ mpc = "show" /\ mpc' = AfterLook(mview) /\ mview' = mview /\ mview \in Views
        /\ Looked(mview, "main") /\ stale' = stale /\ strayed' = strayed
    BY <1>0, <1>4 DEF MainLooks
  <2>2. /\ view[mview].lock = "free" /\ \A w \in Views : w # mview => view'[w] = view[w]
        /\ view'[mview].channel = view[mview].channel
        /\ view'[mview].surface = view[mview].surface
        /\ view[mview] \in ViewStates
    BY <1>0, <2>1, LookedFacts DEF Alone
  <2>3. cpc \in {"draw", "put"} => cview # mview
    BY <2>2 DEF Held
  <2>4. Held'
    <3>1. mpc' \in {"draw", "put"} => view'[mview].lock = "main"
      BY <2>1, LookedFacts DEF AfterLook
    <3>2. QED
      BY <1>0, <1>1, <2>1, <2>2, <2>3, <3>1 DEF Held
  <2>5. FirstShow'
    <3>1. ASSUME "kept" \notin strayed, ~Blank(mview)
          PROVE  /\ mpc' = "draw" /\ view'[mview].modules = "test"
                 /\ view'[mview].first = "own" /\ view'[mview].own = TestPicture
      <4>1. view[mview].modules = "null"
        BY <2>1, <3>1 DEF FirstShow, Blank
      <4>2. view[mview].channel = "four" /\ view[mview].first = "fresh"
        BY <2>1, <4>1 DEF Modules, Unset
      <4>3. mpc' = "draw"
        BY <2>1, <3>1, <4>2 DEF AfterLook
      <4>4. Picture(mview, "fresh") = None /\ Picture(mview, "null") = None
        BY DEF Picture
      <4>5. /\ view'[mview].first = "own" /\ view'[mview].own = TestPicture
            /\ view'[mview].modules = "test"
        BY <2>1, <3>1, <4>1, <4>2, <4>4, LookedFacts
      <4>6. QED
        BY <4>3, <4>5
    <3>2. Blank(mview) => mpc' = "recycle"
      BY <2>1 DEF AfterLook
    <3>3. QED
      BY <2>1, <3>1, <3>2 DEF FirstShow
  <2>6. Four'
    BY <2>1, <2>2 DEF Four, AfterLook
  <2>7. Shots'
    <3>1. CASE cpc = "lock" /\ cview = mview /\ ~Blank(mview)
      <4>1. view[mview].modules # "null" /\ frame # None
        BY <3>1 DEF Modules, Filled, Fresh, InHand
      <4>2. "kept" \in strayed
        BY <2>1, <3>1, <4>1 DEF FirstShow, Blank
      <4>3. ASSUME "single" \notin strayed, OwnShot
            PROVE  OwnShot'
        <5>1. view[mview].channel = "four"
          BY <2>1, <4>3 DEF Four
        <5>2. LET empty == Picture(mview, view[mview].first) = None
              IN /\ view'[mview].first = IF empty THEN "own" ELSE view[mview].first
                 /\ view'[mview].own = IF empty THEN TestPicture ELSE view[mview].own
          BY <2>1, <3>1, <5>1, LookedFacts
        <5>3. view'[mview].first = "own" =>
                view'[mview].own = None \/ Shot(view'[mview].own)
          BY <3>1, <4>3, <5>2 DEF OwnShot, Shot
        <5>4. QED
          BY <1>1, <3>1, <5>3 DEF OwnShot, Shot
      <4>4. FourShot' /\ OneShot'
        BY <1>1, <3>1 DEF FourShot, OneShot
      <4>5. QED
        BY <2>1, <4>2, <4>3, <4>4 DEF Shots
    <3>2. CASE cpc = "lock" /\ cview = mview /\ Blank(mview)
      <4>1. view' = view
        BY <2>1, <3>2, LookedFacts
      <4>2. QED
        BY <1>3, <4>1
    <3>3. CASE ~(cpc = "lock" /\ cview = mview)
      BY <1>3, <2>2, <2>3, <3>3
    <3>4. QED
      BY <3>1, <3>2, <3>3
  <2>8. DrawsLive'
    BY <2>1 DEF DrawsLive
  <2>9. QED
    BY <2>4, <2>5, <2>6, <2>7, <2>8
<1>5. CASE MainDraws
  <2>1. /\ mpc \in {"draw", "put"} /\ mpc' = "recycle" /\ mview \in Views
        /\ Drawn(mview, "main", mpc = "put") /\ strayed' = strayed
    BY <1>0, <1>5 DEF MainDraws
  <2>2. /\ view[mview].lock = "main"
        /\ \A w \in Views : w # mview => view'[w] = view[w]
        /\ view'[mview].modules = view[mview].modules
        /\ view'[mview].own = view[mview].own
        /\ view'[mview].channel = view[mview].channel
        /\ mpc = "draw" => view'[mview].first = view[mview].first
    BY <2>1, DrawnFacts DEF Held, Alone
  <2>3. cpc \in {"draw", "put"} => cview # mview
    BY <2>2 DEF Held
  <2>4. Held' /\ FirstShow' /\ Four'
    BY <1>0, <1>1, <2>1, <2>2, <2>3 DEF Held, FirstShow, Four
  <2>5. Shots'
    <3>1. mpc = "put" => {"kept", "single"} \subseteq strayed
      BY DEF FirstShow, Four
    <3>2. CASE mpc = "put"
      BY <2>1, <3>1, <3>2 DEF Shots
    <3>3. CASE mpc = "draw"
      BY <1>3, <2>2, <3>3
    <3>4. QED
      BY <2>1, <3>2, <3>3
  <2>6. ASSUME "kept" \notin strayed
        PROVE  stale' = stale
    <3>1. mpc = "draw" /\ view[mview].modules # "part"
      BY <2>1, <2>6 DEF FirstShow
    <3>2. TestPicture \notin recycled \cup {None}
      BY ViewsFacts DEF TypeOK, TestPicture, None
    <3>3. cpc = "lock" => frame \notin recycled \cup {None}
      BY DEF Fresh, InHand
    <3>4. /\ Picture(mview, view[mview].first) \notin recycled \cup {None}
          /\ Picture(mview, view[mview].modules) \notin recycled \cup {None}
      BY <2>6, <3>1, <3>2, <3>3 DEF FirstShow, Picture
    <3>5. QED
      BY <2>1, <3>1, <3>4, DrawnLive
  <2>7. DrawsLive'
    BY <2>1, <2>6 DEF DrawsLive, Drawn
  <2>8. QED
    BY <2>4, <2>5, <2>7
<1>6. CASE MainRecycles
  <2>1. mpc' = "idle" /\ view' = view /\ strayed' = strayed /\ stale' = stale
    BY <1>6 DEF MainRecycles
  <2>2. QED
    BY <1>1, <1>3, <2>1 DEF Held, FirstShow, Four, DrawsLive
<1>7. CASE Fill
  <2>1. /\ mpc = "fill" /\ mpc' = "idle" /\ mview \in Views
        /\ strayed' = strayed /\ stale' = stale
        /\ view' = [view EXCEPT ![mview].modules = "fresh"]
    BY <1>0, <1>7 DEF Fill
  <2>2. /\ \A w \in Views : w # mview => view'[w] = view[w]
        /\ view'[mview].lock = view[mview].lock /\ view'[mview].first = view[mview].first
        /\ view'[mview].own = view[mview].own
        /\ view'[mview].channel = view[mview].channel
        /\ view[mview].modules = "part"
    BY <1>0, <2>1, FillSet DEF Alone, Modules, Filled
  <2>3. Held' /\ FirstShow' /\ Four' /\ DrawsLive'
    BY <1>0, <1>1, <2>1, <2>2 DEF Held, FirstShow, Four, DrawsLive
  <2>4. Shots'
    <3>1. OwnShot => OwnShot'
      BY <1>0, <1>1, <2>1, <2>2 DEF OwnShot, Shot
    <3>2. FourShot => FourShot'
      BY <1>0, <1>1, <2>1, <2>2 DEF FourShot, Shot
    <3>3. OneShot => OneShot'
      BY <1>0, <1>1, <2>1, <2>2 DEF OneShot, Shot
    <3>4. QED
      BY <2>1, <3>1, <3>2, <3>3 DEF Shots
  <2>5. QED
    BY <2>3, <2>4
<1>8. ASSUME NEW v \in Views, OpenPreview(v) \/ Leave(v) \/ Back(v)
      PROVE  Drawing'
  <2>1. mpc = "idle" /\ mpc' = "idle" /\ strayed' = strayed /\ stale' = stale
    BY <1>8 DEF OpenPreview, Leave, Back, MainIdle
  <2>2. \A w \in Views : /\ view'[w].modules = view[w].modules
                         /\ view'[w].first = view[w].first /\ view'[w].own = view[w].own
                         /\ view'[w].lock = view[w].lock
                         /\ view'[w].channel = view[w].channel
    BY <1>0, <1>8, ActSet DEF OpenPreview, Leave, Back, Alone
  <2>3. QED
    BY <1>0, <1>1, <1>3, <2>1, <2>2 DEF Held, FirstShow, Four, DrawsLive
<1>9. ASSUME NEW v \in Views, SurfaceCreated(v)
      PROVE  Drawing'
  <2>1. /\ mpc = "idle" /\ stale' = stale /\ strayed' = strayed /\ ~view[v].surface
        /\ view[v].callback => mpc' = "show" /\ mview' = v
        /\ ~view[v].callback => mpc' = mpc
    BY <1>9 DEF SurfaceCreated, MainIdle
  <2>2. \A w \in Views : /\ view'[w].modules = view[w].modules
                         /\ view'[w].first = view[w].first /\ view'[w].own = view[w].own
                         /\ view'[w].lock = view[w].lock
                         /\ view'[w].channel = view[w].channel
    BY <1>0, <1>9, SurfaceMade DEF SurfaceCreated, Alone
  <2>3. Held' /\ FirstShow' /\ Four' /\ DrawsLive'
    BY <1>0, <1>1, <2>1, <2>2 DEF Held, FirstShow, Four, DrawsLive, Modules, Virgin
  <2>4. QED
    BY <1>3, <2>2, <2>3
<1>10. ASSUME NEW v \in Views, Return(v)
       PROVE  Drawing'
  <2>1. /\ mpc' = "show" /\ mview' = v /\ stale' = stale
        /\ strayed' \subseteq strayed \cup {"kept", "blank"}
        /\ view[v].surface => "kept" \in strayed'
    BY <1>10 DEF Return
  <2>2. \A w \in Views : /\ view'[w].modules = view[w].modules
                         /\ view'[w].first = view[w].first /\ view'[w].own = view[w].own
                         /\ view'[w].lock = view[w].lock
                         /\ view'[w].channel = view[w].channel
                         /\ view'[w].surface = view[w].surface
    BY <1>0, <1>10, ActSet DEF Return, Alone
  <2>3. Held' /\ FirstShow' /\ Four' /\ DrawsLive'
    BY <1>0, <1>1, <1>2, <2>1, <2>2 DEF Held, FirstShow, Four, DrawsLive
  <2>4. QED
    BY <1>3, <2>2, <2>3
<1>11. ASSUME NEW v \in Views, SurfaceDestroyed(v)
       PROVE  Drawing'
  <2>1. /\ mpc = "idle" /\ mpc' = "idle" /\ stale' = stale
        /\ strayed' \subseteq strayed \cup {"left", "late"}
    BY <1>11 DEF SurfaceDestroyed, MainIdle
  <2>2. \A w \in Views : /\ view'[w].modules = view[w].modules
                         /\ view'[w].first = view[w].first /\ view'[w].own = view[w].own
                         /\ view'[w].lock = view[w].lock
                         /\ view'[w].channel = view[w].channel
    BY <1>0, <1>11, SurfaceGone DEF SurfaceDestroyed, Alone
  <2>3. Held' /\ FirstShow' /\ Four' /\ DrawsLive'
    BY <1>0, <1>1, <1>2, <2>1, <2>2 DEF Held, FirstShow, Four, DrawsLive
  <2>4. QED
    BY <1>3, <2>2, <2>3
\* A channel that is changed while the camera thread draws is a "switch".
<1>12. ASSUME NEW v \in Views, Alone(v), view'[v].lock = view[v].lock,
              view'[v].own = None, view[v].lock = "camera" => "switch" \in strayed',
              "single" \notin strayed' => view'[v].first # "own"
       PROVE  Shots'
  <2>1. cpc \in {"draw", "put"} /\ cview = v => "switch" \in strayed'
    BY <1>12 DEF Held
  <2>2. CASE cview = v /\ cpc \in {"lock", "draw", "put"}
    <3>1. OwnShot'
      BY <1>1, <1>12, <2>2 DEF OwnShot
    <3>2. "switch" \notin strayed' => FourShot' /\ OneShot'
      BY <1>1, <2>1, <2>2 DEF FourShot, OneShot
    <3>3. QED
      BY <3>1, <3>2 DEF Shots
  <2>3. CASE ~(cview = v /\ cpc \in {"lock", "draw", "put"})
    BY <1>3, <1>12, <2>3 DEF Alone
  <2>4. QED
    BY <2>2, <2>3
<1>13. ASSUME NEW v \in Views, SwitchToOne(v)
       PROVE  Drawing'
  <2>1. /\ mpc = "idle" /\ mpc' = "idle" /\ stale' = stale /\ "single" \in strayed'
        /\ view[v].lock = "camera" => "switch" \in strayed'
    BY <1>13 DEF SwitchToOne, MainIdle
  <2>2. PICK c \in {"zero", "other"} :
          view' = [view EXCEPT ![v].channel = c, ![v].first = "own", ![v].own = None]
    BY <1>13 DEF SwitchToOne
  <2>3. Alone(v) /\ view'[v].lock = view[v].lock /\ view'[v].own = None
    BY <1>0, <2>2, OneSet
  <2>4. Shots'
    BY <1>12, <2>1, <2>3
  <2>5. Held' /\ FirstShow' /\ Four' /\ DrawsLive'
    BY <1>0, <1>1, <1>2, <2>1, <2>3 DEF Held, FirstShow, Four, DrawsLive, Alone
  <2>6. QED
    BY <2>4, <2>5
<1>14. ASSUME NEW v \in Views, SwitchToFour(v)
       PROVE  Drawing'
  <2>1. /\ mpc = "idle" /\ mpc' = "fill" /\ mview' = v /\ stale' = stale
        /\ view[v].lock = "camera" => "switch" \in strayed'
        /\ strayed' \subseteq strayed \cup {"switch"}
    BY <1>14 DEF SwitchToFour, MainIdle
  <2>2. view' = [view EXCEPT ![v].channel = "four", ![v].modules = "part",
                            ![v].first = "fresh", ![v].own = None]
    BY <1>14 DEF SwitchToFour
  <2>3. /\ Alone(v) /\ view'[v].lock = view[v].lock /\ view'[v].own = None
        /\ view'[v].first = "fresh" /\ view'[v].channel = "four"
    BY <1>0, <2>2, FourSet
  <2>4. Shots'
    BY <1>12, <2>1, <2>3
  <2>5. Held' /\ FirstShow' /\ Four' /\ DrawsLive'
    BY <1>0, <1>1, <1>2, <2>1, <2>3 DEF Held, FirstShow, Four, DrawsLive, Alone
  <2>6. QED
    BY <2>4, <2>5
<1>15. QED
  BY <1>4, <1>5, <1>6, <1>7, <1>8, <1>9, <1>10, <1>11, <1>13, <1>14 DEF Main, User
-----------------------------------------------------------------------------
\* Every step keeps the invariant.
LEMMA IInvNext == IInv /\ [Next]_vars => IInv'
<1> SUFFICES ASSUME IInv, [Next]_vars PROVE IInv'
  OBVIOUS
<1>1. CASE Next
  <2>1. TypeOK'
    BY <1>1, TypesNext DEF IInv, Bitmaps
  <2>2. Listening' /\ Bitmaps'
    BY <1>1, ListeningNext, BitmapsNext DEF IInv, Modules
  <2>3. Modules'
    BY <1>1, ModulesCamera, ModulesMain DEF IInv, Next
  <2>4. Drawing'
    BY <1>1, DrawingCamera, DrawingMain DEF IInv, Next, Modules, Bitmaps
  <2>5. QED
    BY <2>1, <2>2, <2>3, <2>4 DEF IInv
<1>2. CASE UNCHANGED vars
  BY <1>2
     DEF vars, cvars, IInv, TypeOK, Listening, Unopened, OneActive, Active, Fed, Shown,
         Modules, Virgin, Unset, Partly, Prepared, Filled, Called, OutlivesPreview,
         Bitmaps, Fresh, Old, Kept, Left, NoneDropped, Drawing, Held, FirstShow, Four,
         Shots, OwnShot, FourShot, OneShot, Shot, Picture, DrawsLive, bounds
<1>3. QED
  BY <1>1, <1>2

\* The inductive invariant of the preview and its camera thread.
THEOREM Invariant == Spec => []IInv
BY IInvInit, IInvNext, PTL DEF Spec

\* The types of Preview's variables.
THEOREM TypeCorrect == Spec => []TypeOK
<1>1. IInv => TypeOK
  BY DEF IInv
<1>2. QED
  BY <1>1, Invariant, PTL

\* A preview on the screen is the one that gets the pictures
\* (CameraPreview.java:203-210), for any number of previews and returns.
THEOREM PreviewsAreFed == Spec => []ShownIsFed
<1>1. IInv => ShownIsFed
  BY DEF IInv, Listening, Fed, ShownIsFed
<1>2. QED
  BY <1>1, Invariant, PTL

\* Each bitmap is recycled, newest, or shown last by some view
\* (CameraPreview.java:163).
THEOREM BitmapsAreRecycled == Spec => []NoneDropped
<1>1. IInv => NoneDropped
  BY DEF IInv, Bitmaps
<1>2. QED
  BY <1>1, Invariant, PTL

\* A bitmap that is drawn is there and has not been recycled, unless a view is
\* returned to that has kept its surface, and for the camera thread unless a
\* single channel has been chosen besides, or the channel is changed while it
\* draws (CameraPreview.java:109-169).
THEOREM DrawnBitmapsAreLive == Spec => []DrawsLive
<1>1. IInv => DrawsLive
  BY DEF IInv, Drawing
<1>2. QED
  BY <1>1, Invariant, PTL

\* The camera thread dies in a preview only in the three cases named there.
THEOREM CameraOutlivesPreviews == Spec => []OutlivesPreview
<1>1. IInv => OutlivesPreview
  BY DEF IInv, Modules
<1>2. QED
  BY <1>1, Invariant, PTL
=============================================================================
