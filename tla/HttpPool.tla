------------------------------ MODULE HttpPool ------------------------------
(***************************************************************************)
(* HttpProviderWrapper: four queues of requests, each with a team of       *)
(* worker threads that checkThreads() starts and stop() ends, so that the  *)
(* next request starts a new team while threads of an old one may still be *)
(* about.  addRequest() and stop() use the lock of the provider and the    *)
(* lock of a queue; a worker takes a request and waits under the lock of   *)
(* its queue, but reads running and burnning without it.  What is sent and *)
(* answered is left out.                                                   *)
(***************************************************************************)
EXTENDS Integers, SequencesExt

CONSTANTS
  Requests,     \* the requests there may be
  Kinds,        \* what is made: the requests, each with its queue
  MaxTeams      \* bound: times the threads are started

Queues == {"txt", "img", "post", "enquire"}
Teams == 1..MaxTeams

None == "none"

ASSUME PoolAssumption ==
  /\ Kinds \subseteq UNION {[R -> Queues] : R \in SUBSET Requests}
  /\ None \notin Requests
  /\ MaxTeams \in Nat

VARIABLES
  kind,         \* the queue of each request that is made
  queue,        \* the Vector of each queue
  team,         \* the team started last, 0 before the first
  up,           \* its threads are in txtThreads, imgThreads, ...
  spc,          \* step of stop(), which holds the provider's lock
  rpc,          \* step of addRequest() for each request
  running, burnning, \* the workers whose flag is set
  wpc,          \* step each worker is at
  cur,          \* the request a worker is sending
  sent,         \* history: requests a worker has dealt with
  dropped       \* history: requests removed from a queue unsent

poolvars == <<team, up, spc>>
flags == <<running, burnning>>
vars == <<kind, queue, poolvars, rpc, flags, wpc, cur, sent, dropped>>

\* The threads of a queue.
Size == [q \in Queues |-> IF q \in {"txt", "img"} THEN 2 ELSE 1]
Team(q, t) == {<<q, t, i>> : i \in 1..Size[q]}
Workers == UNION {Team(q, t) : q \in Queues, t \in Teams}

\* A queue that no request uses is left out: its threads have nothing to do.
Made == DOMAIN kind
Used == {kind[r] : r \in Made}

\* Mutant of Current: one team too far.
CurrentPast(q) == IF q \in Used THEN Team(q, team + 1) ELSE {}

Current(q) == IF q \in Used THEN Team(q, team) ELSE {}
Waiting(q) == {w \in Workers : w[1] = q /\ wpc[w] = "wait"}

Init ==
  /\ kind \in Kinds
  /\ queue = [q \in Queues |-> <<>>]
  /\ team = 0 /\ up = FALSE /\ spc = "idle"
  /\ rpc = [r \in Requests |-> "new"]
  /\ running = {} /\ burnning = {}
  /\ wpc = [w \in Workers |-> "none"]
  /\ cur = [w \in Workers |-> None]
  /\ sent = {} /\ dropped = {}

\* stop() holds the lock of the post queue while it sets the two flags.
Locked(q) == q = "post" /\ spc = "burn"

\* Nobody holds the provider's lock.
Free == spc = "idle" /\ \A r \in Made : rpc[r] # "locked"

-----------------------------------------------------------------------------
\* Requests: any thread.

checkThreads ==
  IF up THEN UNCHANGED <<team, up, running, wpc>>
  ELSE LET new == UNION {Team(q, team + 1) : q \in Used}
       IN  /\ team < MaxTeams
           /\ team' = team + 1 /\ up' = TRUE
           /\ running' = running \cup new
           /\ wpc' = [w \in Workers |-> IF w \in new THEN "test" ELSE wpc[w]]

\* addRequest up to the queue: with a priority it keeps the provider's lock,
\* without one it lets go of it.
AddRequest(r) ==
  /\ rpc[r] = "new" /\ Free
  /\ checkThreads
  /\ rpc' \in {[rpc EXCEPT ![r] = "checked"], [rpc EXCEPT ![r] = "locked"]}
  /\ UNCHANGED <<kind, queue, spc, burnning, cur, sent, dropped>>

\* notify(): one of the waiting threads, if there is one.
notify(q) ==
  wpc' \in IF Waiting(q) = {} THEN {wpc}
           ELSE {[wpc EXCEPT ![w] = "woken"] : w \in Waiting(q)}

\* Mutant of Enqueue: nobody is notified.
EnqueueQuietly(r) ==
  /\ rpc[r] \in {"checked", "locked"} /\ ~Locked(kind[r])
  /\ queue' = [queue EXCEPT ![kind[r]] = Append(@, r)]
  /\ rpc' = [rpc EXCEPT ![r] = "added"]
  /\ UNCHANGED <<kind, poolvars, flags, wpc, cur, sent, dropped>>

\* Without a priority a text request goes first; with one the caller says, and
\* the two that are defined are first and last (INetRequest.java:18-19; another one
\* would insert nothing, as the switches of addRequest have no default).
Enqueue(r) ==
  LET q == kind[r]
      first == <<r>> \o queue[q]
      last == Append(queue[q], r)
  IN  /\ rpc[r] \in {"checked", "locked"}
      /\ ~Locked(q)
      /\ \E s \in CASE q \in {"post", "enquire"} -> {last}
                    [] rpc[r] = "locked" -> {first, last}
                    [] q = "txt" -> {first}
                    [] q = "img" -> {last} :
           queue' = [queue EXCEPT ![q] = s]
      /\ rpc' = [rpc EXCEPT ![r] = "added"]
      /\ notify(q)
      /\ UNCHANGED <<kind, poolvars, flags, cur, sent, dropped>>

Drop(q) ==
  /\ queue' = [queue EXCEPT ![q] = <<>>]
  /\ dropped' = dropped \cup Range(queue[q])

Cancel ==
  /\ queue["img"] # <<>>
  /\ Drop("img")
  /\ UNCHANGED <<kind, poolvars, rpc, flags, wpc, cur, sent>>

-----------------------------------------------------------------------------
\* stop(): under the provider's lock, one queue after the other.

Stop ==
  /\ up /\ Free
  /\ spc' = "txt"
  /\ UNCHANGED <<kind, queue, team, up, rpc, flags, wpc, cur, sent, dropped>>

\* The threads of a queue are told to stop, what it holds is dropped and
\* notifyAll() wakes who waits.
StopAndDrop(q, next) ==
  /\ spc = q
  /\ spc' = next
  /\ running' = running \ Current(q)
  /\ Drop(q)
  /\ wpc' = [w \in Workers |-> IF w \in Waiting(q) THEN "woken" ELSE wpc[w]]
  /\ UNCHANGED <<kind, team, up, rpc, burnning, cur, sent>>

\* Mutant of StopPost: what the queue holds is dropped.
StopPostDrops ==
  /\ spc = "post"
  /\ spc' = "burn"
  /\ running' = running \ Current("post")
  /\ Drop("post")
  /\ UNCHANGED <<kind, team, up, rpc, burnning, wpc, cur, sent>>

StopPost ==
  /\ spc = "post"
  /\ spc' = "burn"
  /\ running' = running \ Current("post")
  /\ UNCHANGED <<kind, queue, team, up, rpc, burnning, wpc, cur, sent, dropped>>

\* Mutant of BurnPost: the thread is not told to finish first.
BurnForgets ==
  /\ spc = "burn"
  /\ spc' = "enquire"
  /\ notify("post")
  /\ UNCHANGED <<kind, queue, team, up, rpc, flags, cur, sent, dropped>>

BurnPost ==
  /\ spc = "burn"
  /\ spc' = "enquire"
  /\ burnning' = burnning \cup Current("post")
  /\ notify("post")
  /\ UNCHANGED <<kind, queue, team, up, rpc, running, cur, sent, dropped>>

StopEnquire ==
  /\ spc = "enquire"
  /\ spc' = "idle" /\ up' = FALSE
  /\ running' = running \ Current("enquire")
  /\ notify("enquire")
  /\ UNCHANGED <<kind, queue, team, rpc, burnning, cur, sent, dropped>>

StopStep ==
  \/ StopAndDrop("txt", "img") \/ StopAndDrop("img", "post")
  \/ StopPost \/ BurnPost \/ StopEnquire

-----------------------------------------------------------------------------
\* HttpThread.run.

Test(w) ==
  /\ wpc[w] = "test"
  /\ wpc' = [wpc EXCEPT ![w] =
               IF w \in running \cup burnning THEN "lock" ELSE "ended"]
  /\ UNCHANGED <<kind, queue, poolvars, rpc, flags, cur, sent, dropped>>

Take(w) ==
  LET q == w[1]
  IN  /\ wpc[w] = "lock" /\ ~Locked(q)
      /\ queue[q] # <<>>
      /\ cur' = [cur EXCEPT ![w] = Head(queue[q])]
      /\ queue' = [queue EXCEPT ![q] = Tail(@)]
      /\ wpc' = [wpc EXCEPT ![w] = "send"]
      /\ UNCHANGED <<kind, poolvars, rpc, flags, sent, dropped>>

\* Mutant of Wait: a stopped worker with nothing to do waits as well.
WaitAlways(w) ==
  /\ wpc[w] = "lock" /\ ~Locked(w[1])
  /\ queue[w[1]] = <<>>
  /\ wpc' = [wpc EXCEPT ![w] = "wait"]
  /\ UNCHANGED <<kind, queue, poolvars, rpc, flags, cur, sent, dropped>>

\* There is nothing to take: the worker waits, or ends if it was told to
\* finish first.
Wait(w) ==
  /\ wpc[w] = "lock" /\ ~Locked(w[1])
  /\ queue[w[1]] = <<>>
  /\ wpc' = [wpc EXCEPT ![w] = IF w \in burnning THEN "ended" ELSE "wait"]
  /\ burnning' = burnning \ {w}
  /\ UNCHANGED <<kind, queue, poolvars, rpc, running, cur, sent, dropped>>

\* A notified worker goes on when it has the lock again.
Wake(w) ==
  /\ wpc[w] = "woken" /\ ~Locked(w[1])
  /\ wpc' = [wpc EXCEPT ![w] = "test"]
  /\ UNCHANGED <<kind, queue, poolvars, rpc, flags, cur, sent, dropped>>

\* The request has been answered, has failed or has timed out.
Send(w) ==
  /\ wpc[w] = "send"
  /\ wpc' = [wpc EXCEPT ![w] = "test"]
  /\ sent' = sent \cup {cur[w]}
  /\ cur' = [cur EXCEPT ![w] = None]
  /\ UNCHANGED <<kind, queue, poolvars, rpc, flags, dropped>>

Worker(w) == Test(w) \/ Take(w) \/ Wait(w) \/ Wake(w) \/ Send(w)

Next ==
  \/ \E r \in Made : AddRequest(r) \/ Enqueue(r)
  \/ Cancel \/ Stop \/ StopStep
  \/ \E w \in Workers : Worker(w)

Spec == Init /\ [][Next]_vars

\* A call of addRequest or of stop ends, and every thread gets its turns: a
\* connection gives up after its timeout.
FairSpec ==
  /\ Spec
  /\ WF_vars(StopStep)
  /\ \A r \in Requests : WF_vars(r \in Made /\ Enqueue(r))
  /\ \A w \in Workers : WF_vars(Worker(w))
-----------------------------------------------------------------------------

TypeOK ==
  /\ kind \in Kinds
  /\ queue \in [Queues -> Seq(Requests)]
  /\ team \in 0..MaxTeams /\ up \in BOOLEAN
  /\ spc \in {"idle", "txt", "img", "post", "burn", "enquire"}
  /\ rpc \in [Requests -> {"new", "checked", "locked", "added"}]
  /\ running \subseteq Workers /\ burnning \subseteq Workers
  /\ wpc \in [Workers -> {"none", "test", "lock", "wait", "woken", "send", "ended"}]
  /\ cur \in [Workers -> Requests \cup {None}]
  /\ sent \subseteq Requests /\ dropped \subseteq Requests

Queued(r) == r \in Made /\ \E i \in 1..Len(queue[kind[r]]) : queue[kind[r]][i] = r
Senders(r) == {w \in Workers : cur[w] = r}

\* A request that has been added is in its queue, or is being sent by one
\* worker, or is done with: teams that overlap do not send it twice, and a
\* stop drops no request of the post and chat queues.
OnePlace ==
  \A r \in Made :
    LET places == {<<"queue", i>> : i \in {i \in 1..Len(queue[kind[r]]) : queue[kind[r]][i] = r}}
                    \cup {<<"worker", w>> : w \in Senders(r)}
                    \cup {<<"sent">> : x \in sent \cap {r}}
                    \cup {<<"dropped">> : x \in dropped \cap {r}}
    IN  /\ Cardinality(places) = (IF rpc[r] = "added" THEN 1 ELSE 0)
        /\ r \in dropped => kind[r] \in {"txt", "img"}

\* No thread of the team sleeps over a request of its queue that nobody has
\* been woken for: in the first team of any queue, and in every team of the
\* post queue, whose old threads never wait.
NoneSleeps ==
  \A q \in Queues :
    up /\ spc = "idle" /\ queue[q] # <<>> /\ (team = 1 \/ q = "post")
      => \E w \in Current(q) : wpc[w] \notin {"wait", "ended"}

\* The thread of the post queue that has been told to stop ends, even if the
\* flags are set while it is deciding whether to go on.
PostThreadEnds ==
  \A t \in Teams :
    LET w == <<"post", t, 1>>
    IN  wpc[w] # "none" /\ w \notin running /\ spc = "idle" ~> wpc[w] = "ended"

\* What the post queue holds at a stop is sent, if its thread is still there
\* when both flags are set: one that has read them in between has ended.
PostDrains ==
  \A r \in Requests :
    /\ Queued(r) /\ kind[r] = "post" /\ spc = "enquire"
    /\ \E w \in Current("post") : wpc[w] # "ended"
    ~> ~Queued(r)

=============================================================================
