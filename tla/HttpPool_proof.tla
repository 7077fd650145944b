--------------------------- MODULE HttpPool_proof ---------------------------
(***************************************************************************)
(* Theorems about HttpPool, for any requests and any number of teams: a    *)
(* request that has been added is in one place, and no worker sleeps over  *)
(* a request nobody has been woken for.                                    *)
(***************************************************************************)
EXTENDS HttpPool, FiniteSetTheorems, SequenceTheorems, TLAPS

\* What a queue holds has been added, is there once and nowhere else.
QueuesHold ==
  \A q \in Queues :
    /\ IsInjective(queue[q])
    /\ \A r \in Range(queue[q]) :
         /\ r \in Made /\ kind[r] = q /\ rpc[r] = "added"
         /\ r \notin sent /\ r \notin dropped
         /\ \A w \in Workers : cur[w] # r

\* A worker has a request while it sends it, and has it alone.
WorkersHold ==
  \A w \in Workers :
    /\ wpc[w] = "send" <=> cur[w] # None
    /\ cur[w] # None =>
         /\ cur[w] \in Made /\ rpc[cur[w]] = "added"
         /\ cur[w] \notin sent /\ cur[w] \notin dropped
         /\ \A v \in Workers : cur[v] = cur[w] => v = w

\* What is over has been added; what is dropped was a text or an image.
Over ==
  /\ \A r \in sent \cup dropped : r \in Made /\ rpc[r] = "added"
  /\ sent \cap dropped = {}
  /\ \A r \in dropped : kind[r] \in {"txt", "img"}

\* Nothing that has been added is lost.
Kept ==
  \A r \in Made :
    rpc[r] = "added" =>
      \/ r \in Range(queue[kind[r]])
      \/ \E w \in Workers : cur[w] = r
      \/ r \in sent \/ r \in dropped

-----------------------------------------------------------------------------
\* The threads there are: those of the teams started, for queues in use.
Started ==
  /\ spc # "idle" => up
  /\ up => team >= 1
  /\ \A w \in Workers :
       w[2] > team \/ w[1] \notin Used =>
         wpc[w] = "none" /\ w \notin running /\ w \notin burnning

\* Until stop() begins, the threads of the team started last go on; the post
\* thread is told to finish only at the end of a stop.
Working ==
  /\ up /\ spc = "idle" =>
       \A w \in Workers :
         w[2] = team /\ w[1] \in Used => w \in running /\ wpc[w] \notin {"none", "ended"}
  /\ up /\ spc # "enquire" => \A w \in burnning : w[2] < team

\* The post thread of a team that has been stopped.
Retired(w) == w[1] = "post" /\ (w[2] < team \/ ~up \/ spc = "enquire")

\* It does not wait any more: when it reads the queue it has been told to
\* finish.
RetiredEnd ==
  /\ \A w \in Workers :
       Retired(w) => /\ wpc[w] # "wait" /\ w \notin running
                     /\ wpc[w] = "lock" => w \in burnning
  /\ spc = "burn" => \A w \in Workers : w[1] = "post" => w \notin running

\* A post thread waits only when there is nothing to send.
PostAwake ==
  \A w \in Workers : w[1] = "post" /\ wpc[w] = "wait" => queue["post"] = <<>>

\* In the first team one thread of a queue that holds something is awake.
FirstAwake ==
  up /\ spc = "idle" /\ team = 1 =>
    \A q \in Queues : queue[q] # <<>> => \E w \in Team(q, 1) : wpc[w] # "wait"

IInv ==
  /\ TypeOK
  /\ QueuesHold /\ WorkersHold /\ Over /\ Kept
  /\ Started /\ Working /\ RetiredEnd /\ PostAwake /\ FirstAwake
-----------------------------------------------------------------------------
\* What the operations on a Vector do to what it holds.
LEMMA AddLast ==
  ASSUME NEW S, NEW s \in Seq(S), NEW r \in S, IsInjective(s), r \notin Range(s)
  PROVE  /\ Append(s, r) \in Seq(S) /\ IsInjective(Append(s, r))
         /\ Range(Append(s, r)) = Range(s) \cup {r}
<1> DEFINE t == Append(s, r)
<1>1. /\ t \in Seq(S) /\ Len(t) = Len(s) + 1
      /\ \A i \in 1..Len(s) : t[i] = s[i]
      /\ t[Len(s) + 1] = r
  BY AppendProperties
<1>2. Len(s) \in Nat /\ DOMAIN s = 1..Len(s) /\ DOMAIN t = 1..(Len(s) + 1)
  BY <1>1, LenProperties
<1> HIDE DEF t
<1>3. \A i \in DOMAIN t : i \in DOMAIN s \/ i = Len(s) + 1
  BY <1>2
<1>4. \A i \in DOMAIN s : i \in DOMAIN t /\ s[i] # r
  BY <1>2 DEF Range
<1>5. IsInjective(t)
  BY <1>1, <1>2, <1>3, <1>4 DEF IsInjective
<1>6. Range(t) = Range(s) \cup {r}
  <2>1. Range(t) \subseteq Range(s) \cup {r}
    BY <1>1, <1>2, <1>3 DEF Range
  <2>2. Len(s) + 1 \in DOMAIN t
    BY <1>2
  <2>3. r \in Range(t)
    BY <1>1, <2>2 DEF Range
  <2>4. Range(s) \subseteq Range(t)
    BY <1>1, <1>2, <1>4 DEF Range
  <2>5. QED
    BY <2>1, <2>3, <2>4
<1>7. QED
  BY <1>1, <1>5, <1>6 DEF t

LEMMA AddFirst ==
  ASSUME NEW S, NEW s \in Seq(S), NEW r \in S, IsInjective(s), r \notin Range(s)
  PROVE  /\ <<r>> \o s \in Seq(S) /\ IsInjective(<<r>> \o s)
         /\ Range(<<r>> \o s) = Range(s) \cup {r}
<1> DEFINE t == <<r>> \o s
<1>1. <<r>> \in Seq(S) /\ Len(<<r>>) = 1 /\ <<r>>[1] = r
  OBVIOUS
<1>2. /\ t \in Seq(S) /\ Len(t) = 1 + Len(s)
      /\ \A i \in 1..(1 + Len(s)) : t[i] = IF i <= 1 THEN <<r>>[i] ELSE s[i - 1]
  BY <1>1, ConcatProperties
<1>3. Len(s) \in Nat /\ DOMAIN s = 1..Len(s) /\ DOMAIN t = 1..(1 + Len(s))
  BY <1>2, LenProperties
<1> HIDE DEF t
<1>4. 1 \in DOMAIN t /\ t[1] = r
  BY <1>1, <1>2, <1>3
<1>5. \A i \in DOMAIN t : i = 1 \/ (i - 1 \in DOMAIN s /\ t[i] = s[i - 1])
  BY <1>2, <1>3
<1>6. \A i \in DOMAIN s : i + 1 \in DOMAIN t /\ t[i + 1] = s[i] /\ s[i] # r
  <2>1. \A i \in DOMAIN s : s[i] # r
    BY DEF Range
  <2>2. QED
    BY <1>2, <1>3, <2>1
<1>7. \A i \in DOMAIN t : i \in Nat
  BY <1>3
<1>8. IsInjective(t)
  <2> SUFFICES ASSUME NEW i \in DOMAIN t, NEW j \in DOMAIN t, t[i] = t[j]
               PROVE  i = j
    BY Zenon DEF IsInjective
  <2>1. CASE i = 1
    BY <2>1, <1>4, <1>5, <1>6
  <2>2. CASE i # 1 /\ j # 1
    <3>1. i - 1 \in DOMAIN s /\ j - 1 \in DOMAIN s /\ s[i - 1] = s[j - 1]
      BY <1>5, <2>2
    <3>2. i - 1 = j - 1
      BY <3>1, Zenon DEF IsInjective
    <3>3. QED
      BY <1>7, <3>2
  <2>3. CASE j = 1
    BY <2>3, <1>4, <1>5, <1>6
  <2>4. QED
    BY <2>1, <2>2, <2>3
<1>9. Range(t) = Range(s) \cup {r}
  <2>1. Range(t) \subseteq Range(s) \cup {r}
    BY <1>4, <1>5 DEF Range
  <2>2. r \in Range(t)
    BY <1>4 DEF Range
  <2>3. Range(s) \subseteq Range(t)
    BY <1>6 DEF Range
  <2>4. QED
    BY <2>1, <2>2, <2>3
<1>10. QED
  BY <1>2, <1>8, <1>9 DEF t

LEMMA TakeFirst ==
  ASSUME NEW S, NEW s \in Seq(S), s # <<>>, IsInjective(s)
  PROVE  /\ Tail(s) \in Seq(S) /\ IsInjective(Tail(s))
         /\ Head(s) \in S /\ Head(s) \in Range(s)
         /\ Range(Tail(s)) = Range(s) \ {Head(s)}
<1> DEFINE t == Tail(s)
<1>1. /\ t \in Seq(S) /\ Head(s) \in S /\ Head(s) = s[1]
      /\ Len(t) = Len(s) - 1 /\ \A i \in 1..Len(t) : t[i] = s[i + 1]
  BY HeadTailProperties
<1>2. Len(s) \in Nat /\ Len(s) # 0 /\ DOMAIN s = 1..Len(s) /\ DOMAIN t = 1..(Len(s) - 1)
  BY <1>1, LenProperties, EmptySeq
<1> HIDE DEF t
<1>3. 1 \in DOMAIN s
  BY <1>2
<1>4. \A i \in DOMAIN t : i \in Nat /\ i + 1 \in DOMAIN s /\ i + 1 # 1 /\ t[i] = s[i + 1]
  BY <1>1, <1>2
<1>5. \A i \in DOMAIN s : i = 1 \/ (i - 1 \in DOMAIN t /\ t[i - 1] = s[i])
  <2>1. \A i \in DOMAIN s : i = 1 \/ (i - 1 \in DOMAIN t /\ (i - 1) + 1 = i)
    BY <1>2
  <2>2. QED
    BY <1>4, <2>1
<1>6. IsInjective(t)
  <2> SUFFICES ASSUME NEW i \in DOMAIN t, NEW j \in DOMAIN t, t[i] = t[j]
               PROVE  i = j
    BY Zenon DEF IsInjective
  <2>1. i + 1 = j + 1
    BY <1>4 DEF IsInjective
  <2>2. QED
    BY <1>4, <2>1
<1>7. Range(t) = Range(s) \ {Head(s)}
  <2>1. ASSUME NEW i \in DOMAIN t PROVE t[i] \in Range(s) /\ t[i] # Head(s)
    <3>1. t[i] = s[i + 1] /\ i + 1 \in DOMAIN s /\ i + 1 # 1
      BY <1>4, <2>1
    <3>2. s[i + 1] # s[1]
      BY <1>3, <3>1, Zenon DEF IsInjective
    <3>3. QED
      BY <1>1, <3>1, <3>2 DEF Range
  <2>2. ASSUME NEW i \in DOMAIN s, s[i] # Head(s) PROVE s[i] \in Range(t)
    BY <1>1, <1>5, <2>2 DEF Range
  <2>3. QED
    BY <2>1, <2>2 DEF Range
<1>8. QED
  BY <1>1, <1>3, <1>6, <1>7 DEF t, Range

\* The empty Vector holds nothing, and only it does.
LEMMA HoldsNothing == IsInjective(<<>>) /\ Range(<<>>) = {}
<1>1. DOMAIN <<>> = {}
  OBVIOUS
<1>2. QED
  BY <1>1, Zenon DEF IsInjective, Range

LEMMA HoldsSomething ==
  ASSUME NEW S, NEW s \in Seq(S), s # <<>> PROVE \E r \in S : r \in Range(s)
<1>1. Len(s) \in Nat /\ Len(s) # 0 /\ DOMAIN s = 1..Len(s)
  BY LenProperties, EmptySeq
<1>2. 1 \in DOMAIN s /\ s[1] \in S
  BY <1>1, ElementOfSeq
<1>3. QED
  BY <1>2, Zenon DEF Range

\* Requests and workers.
LEMMA MadeFacts ==
  ASSUME kind \in Kinds
  PROVE  /\ kind \in [Made -> Queues] /\ Made \subseteq Requests /\ Used \subseteq Queues
         /\ \A r \in Made : kind[r] \in Used
<1>1. PICK R \in SUBSET Requests : kind \in [R -> Queues]
  BY PoolAssumption
<1>2. Made = R
  BY <1>1 DEF Made
<1>3. QED
  BY <1>1, <1>2 DEF Used

LEMMA WorkerFacts ==
  ASSUME NEW w \in Workers
  PROVE  /\ w[1] \in Queues /\ w[2] \in Teams /\ w[2] \in Nat
         /\ w \in Team(w[1], w[2])
         /\ w[1] = "post" => w = <<"post", w[2], 1>>
<1>1. PICK q \in Queues, t \in Teams : w \in Team(q, t)
  BY DEF Workers
<1>2. PICK i \in 1..Size[q] : w = <<q, t, i>>
  BY <1>1, Zenon DEF Team
<1>3. w[1] = q /\ w[2] = t
  BY <1>2
<1>4. q = "post" => Size[q] = 1
  BY DEF Size, Queues
<1>5. q = "post" => i = 1
  BY <1>4
<1>6. QED
  BY <1>1, <1>2, <1>3, <1>5, PoolAssumption DEF Teams

LEMMA TeamFacts ==
  ASSUME NEW q \in Queues, NEW t \in Teams
  PROVE  /\ Team(q, t) \subseteq Workers
         /\ \A w \in Team(q, t) : w[1] = q /\ w[2] = t
         /\ Team(q, t) # {}
         /\ <<"post", t, 1>> \in Team("post", t)
<1>1. Team(q, t) \subseteq Workers
  BY DEF Workers
<1>2. \A w \in Team(q, t) : w[1] = q /\ w[2] = t
  BY DEF Team
<1>3. Size[q] \in {1, 2} /\ Size["post"] = 1
  BY DEF Size, Queues
<1>4. <<q, t, 1>> \in Team(q, t) /\ <<"post", t, 1>> \in Team("post", t)
  BY <1>3 DEF Team
<1>5. QED
  BY <1>1, <1>2, <1>4

\* The threads of the team started last, if the queue is in use.
LEMMA CurrentFacts ==
  ASSUME TypeOK, team >= 1, NEW q \in Queues
  PROVE  /\ Current(q) \subseteq Workers
         /\ \A w \in Workers : w \in Current(q) <=> w[1] = q /\ w[2] = team /\ q \in Used
<1>1. team \in Teams
  BY PoolAssumption DEF TypeOK, Teams
<1>2. CASE q \in Used
  <2>1. Current(q) = Team(q, team)
    BY <1>2 DEF Current
  <2>2. \A w \in Workers : w[1] = q /\ w[2] = team => w \in Team(q, team)
    BY WorkerFacts
  <2>3. Team(q, team) \subseteq Workers /\ \A w \in Team(q, team) : w[1] = q /\ w[2] = team
    BY <1>1, TeamFacts
  <2>4. QED
    BY <1>2, <2>1, <2>2, <2>3
<1>3. CASE q \notin Used
  BY <1>3 DEF Current
<1>4. QED
  BY <1>2, <1>3

\* The threads checkThreads starts.
NewTeam(t) == UNION {Team(q, t) : q \in Used}

LEMMA NewTeamFacts ==
  ASSUME kind \in Kinds, NEW t \in Teams
  PROVE  /\ NewTeam(t) \subseteq Workers
         /\ \A w \in Workers : w \in NewTeam(t) <=> w[2] = t /\ w[1] \in Used
<1>1. Used \subseteq Queues
  BY MadeFacts
<1>2. ASSUME NEW w \in NewTeam(t) PROVE w \in Workers /\ w[2] = t /\ w[1] \in Used
  <2>1. PICK q \in Used : w \in Team(q, t)
    BY <1>2 DEF NewTeam
  <2>2. q \in Queues
    BY <1>1
  <2>3. Team(q, t) \subseteq Workers /\ \A v \in Team(q, t) : v[1] = q /\ v[2] = t
    BY <2>2, TeamFacts
  <2>4. QED
    BY <2>1, <2>3
<1>3. ASSUME NEW w \in Workers, w[2] = t, w[1] \in Used PROVE w \in NewTeam(t)
  <2>1. w \in Team(w[1], t)
    BY <1>3, WorkerFacts
  <2>2. QED
    BY <1>3, <2>1 DEF NewTeam
<1>4. QED
  BY <1>2, <1>3

\* What checkThreads does: nothing, or a new team tests its flags.
LEMMA Checked ==
  ASSUME TypeOK, checkThreads
  PROVE  \/ up /\ UNCHANGED <<team, up, running, wpc>>
         \/ /\ ~up /\ up' /\ team' = team + 1 /\ team' \in Teams
            /\ running' = running \cup NewTeam(team')
            /\ wpc' = [w \in Workers |-> IF w \in NewTeam(team') THEN "test" ELSE wpc[w]]
<1>1. CASE up
  BY <1>1 DEF checkThreads
<1>2. CASE ~up
  <2>1. /\ team < MaxTeams /\ team' = team + 1 /\ up' = TRUE
        /\ running' = running \cup NewTeam(team + 1)
        /\ wpc' = [w \in Workers |-> IF w \in NewTeam(team + 1) THEN "test" ELSE wpc[w]]
    BY <1>2, Zenon DEF checkThreads, NewTeam
  <2>2. team + 1 \in Teams
    BY <2>1, PoolAssumption DEF TypeOK, Teams
  <2>3. NewTeam(team') = NewTeam(team + 1)
    BY <2>1
  <2>4. QED
    BY <1>2, <2>1, <2>2, <2>3
<1>3. QED
  BY <1>1, <1>2

\* notify() wakes one thread that waits at the queue, and no other.
LEMMA Notified ==
  ASSUME wpc \in [Workers -> {"none", "test", "lock", "wait", "woken", "send", "ended"}],
         NEW q \in Queues, notify(q)
  PROVE  /\ wpc' \in [Workers -> {"none", "test", "lock", "wait", "woken", "send", "ended"}]
         /\ \A w \in Workers :
              \/ wpc'[w] = wpc[w]
              \/ w \in Waiting(q) /\ wpc'[w] = "woken"
         /\ Waiting(q) # {} => \E w \in Waiting(q) : wpc'[w] = "woken"
<1>1. CASE Waiting(q) = {}
  BY <1>1 DEF notify
<1>2. CASE Waiting(q) # {}
  <2>1. PICK v \in Waiting(q) : wpc' = [wpc EXCEPT ![v] = "woken"]
    BY <1>2 DEF notify
  <2>2. v \in Workers
    BY DEF Waiting
  <2>3. QED
    BY <2>1, <2>2
<1>3. QED
  BY <1>1, <1>2

-----------------------------------------------------------------------------
\* The invariant holds at the start.
LEMMA IInvInit == Init => IInv
<1> SUFFICES ASSUME Init PROVE IInv
  OBVIOUS
<1>1. TypeOK
  <2>1. queue \in [Queues -> Seq(Requests)]
    BY EmptySeq DEF Init
  <2>2. team \in 0..MaxTeams
    BY PoolAssumption DEF Init
  <2>3. QED
    BY <2>1, <2>2 DEF Init, TypeOK
<1>2. QueuesHold /\ WorkersHold /\ Over /\ Kept
  <2>1. \A q \in Queues : queue[q] = <<>>
    BY DEF Init
  <2>2. QueuesHold
    BY <2>1, HoldsNothing DEF QueuesHold
  <2>3. WorkersHold /\ Over
    BY DEF Init, WorkersHold, Over
  <2>4. \A r \in Made : rpc[r] # "added"
    BY MadeFacts DEF Init
  <2>5. QED
    BY <2>2, <2>3, <2>4 DEF Kept
<1>3. Started /\ Working /\ RetiredEnd /\ PostAwake /\ FirstAwake
  BY DEF Init, Started, Working, RetiredEnd, Retired, PostAwake, FirstAwake
<1>4. QED
  BY <1>1, <1>2, <1>3 DEF IInv

\* addRequest puts a request that is nowhere yet into its queue.
LEMMA Added ==
  ASSUME IInv, NEW r \in Made, Enqueue(r)
  PROVE  \E s \in Seq(Requests) :
           /\ queue' = [queue EXCEPT ![kind[r]] = s]
           /\ IsInjective(s) /\ Range(s) = Range(queue[kind[r]]) \cup {r}
<1> DEFINE q == kind[r]
           first == <<r>> \o queue[q]
           last == Append(queue[q], r)
<1>1. q \in Queues /\ r \in Requests
  BY MadeFacts DEF IInv, TypeOK
<1>2. queue[q] \in Seq(Requests) /\ IsInjective(queue[q])
  BY <1>1 DEF IInv, TypeOK, QueuesHold
<1>3. r \notin Range(queue[q])
  <2>1. rpc[r] # "added"
    BY DEF Enqueue
  <2>2. QED
    BY <1>1, <2>1 DEF IInv, QueuesHold
<1>4. /\ first \in Seq(Requests) /\ IsInjective(first)
      /\ Range(first) = Range(queue[q]) \cup {r}
  BY <1>1, <1>2, <1>3, AddFirst
<1>5. /\ last \in Seq(Requests) /\ IsInjective(last)
      /\ Range(last) = Range(queue[q]) \cup {r}
  BY <1>1, <1>2, <1>3, AddLast
<1>6. \E s \in CASE q \in {"post", "enquire"} -> {last}
                 [] rpc[r] = "locked" -> {first, last}
                 [] q = "txt" -> {first}
                 [] q = "img" -> {last} :
        queue' = [queue EXCEPT ![q] = s]
  BY Zenon DEF Enqueue
<1> HIDE DEF first, last
<1>7. queue' = [queue EXCEPT ![q] = first] \/ queue' = [queue EXCEPT ![q] = last]
  <2> HIDE DEF q
  <2>1. QED
    BY <1>1, <1>6 DEF Queues
<1>8. QED
  BY <1>4, <1>5, <1>7

\* A step keeps the types.
LEMMA TypeStep == IInv /\ [Next]_vars => TypeOK'
<1> SUFFICES ASSUME IInv, [Next]_vars PROVE TypeOK'
  OBVIOUS
<1>1. TypeOK /\ kind \in Kinds
  BY DEF IInv, TypeOK
<1>2. /\ kind \in [Made -> Queues] /\ Made \subseteq Requests
      /\ \A w \in Workers : w[1] \in Queues
  BY <1>1, MadeFacts, WorkerFacts
<1>3. ASSUME NEW r \in Made, AddRequest(r) PROVE TypeOK'
  <2>1. /\ team' \in 0..MaxTeams /\ up' \in BOOLEAN /\ running' \subseteq Workers
        /\ wpc' \in [Workers -> {"none", "test", "lock", "wait", "woken", "send", "ended"}]
    <3>1. CASE up
      BY <1>1, <1>3, <3>1 DEF AddRequest, checkThreads, TypeOK
    <3>2. CASE ~up
      <4>1. /\ up' /\ team' \in Teams /\ running' = running \cup NewTeam(team')
            /\ wpc' = [w \in Workers |-> IF w \in NewTeam(team') THEN "test" ELSE wpc[w]]
        BY <1>1, <1>3, <3>2, Checked DEF AddRequest
      <4>2. NewTeam(team') \subseteq Workers
        BY <1>1, <4>1, NewTeamFacts
      <4>3. up' = TRUE
        BY <1>3, <3>2 DEF AddRequest, checkThreads
      <4> HIDE DEF NewTeam
      <4>4. QED
        BY <1>1, <4>1, <4>2, <4>3, PoolAssumption DEF TypeOK, Teams
    <3>3. QED
      BY <3>1, <3>2
  <2>2. rpc' \in [Requests -> {"new", "checked", "locked", "added"}]
    BY <1>1, <1>2, <1>3 DEF AddRequest, TypeOK
  <2>3. UNCHANGED <<kind, queue, spc, burnning, cur, sent, dropped>>
    BY <1>3 DEF AddRequest
  <2>4. QED
    BY <1>1, <2>1, <2>2, <2>3 DEF TypeOK
<1>4. ASSUME NEW r \in Made, Enqueue(r) PROVE TypeOK'
  <2>1. /\ kind[r] \in Queues /\ notify(kind[r]) /\ r \in Requests
        /\ rpc' = [rpc EXCEPT ![r] = "added"]
        /\ UNCHANGED <<kind, team, up, spc, running, burnning, cur, sent, dropped>>
    BY <1>2, <1>4 DEF Enqueue, poolvars, flags
  <2>2. wpc' \in [Workers -> {"none", "test", "lock", "wait", "woken", "send", "ended"}]
    BY <1>1, <2>1, Notified DEF TypeOK
  <2>3. queue' \in [Queues -> Seq(Requests)]
    BY <1>1, <1>4, Added DEF TypeOK
  <2>4. QED
    BY <1>1, <2>1, <2>2, <2>3 DEF TypeOK
<1>5. ASSUME NEW q \in Queues, Drop(q), sent' = sent
      PROVE  /\ queue' \in [Queues -> Seq(Requests)]
             /\ dropped' \subseteq Requests /\ sent' \subseteq Requests
  <2>1. Range(queue[q]) \subseteq Requests
    BY <1>2, <1>5 DEF IInv, QueuesHold
  <2>2. QED
    BY <1>1, <1>5, <2>1 DEF Drop, TypeOK
<1>6. CASE Cancel
  <2>1. UNCHANGED <<kind, team, up, spc, rpc, running, burnning, wpc, cur, sent>>
    BY <1>6 DEF Cancel, poolvars, flags
  <2>2. QED
    BY <1>1, <1>5, <1>6, <2>1 DEF Cancel, TypeOK, Queues
<1>7. CASE Stop
  BY <1>1, <1>7 DEF Stop, TypeOK, flags
<1>8. ASSUME NEW q \in Queues, NEW next \in {"img", "post"}, StopAndDrop(q, next)
      PROVE  TypeOK'
  <2>1. /\ spc' = next /\ running' = running \ Current(q)
        /\ wpc' = [w \in Workers |-> IF w \in Waiting(q) THEN "woken" ELSE wpc[w]]
        /\ UNCHANGED <<kind, team, up, rpc, burnning, cur>>
    BY <1>8 DEF StopAndDrop
  <2>2. /\ queue' \in [Queues -> Seq(Requests)]
        /\ dropped' \subseteq Requests /\ sent' \subseteq Requests
    BY <1>5, <1>8 DEF StopAndDrop
  <2>3. QED
    BY <1>1, <2>1, <2>2 DEF TypeOK
<1>9. CASE StopPost
  BY <1>1, <1>9 DEF StopPost, TypeOK
<1>10. CASE BurnPost
  <2>1. Current("post") \subseteq Workers
    BY <1>1, <1>10, CurrentFacts DEF BurnPost, IInv, Started, Queues
  <2>2. wpc' \in [Workers -> {"none", "test", "lock", "wait", "woken", "send", "ended"}]
    BY <1>1, <1>10, Notified DEF TypeOK, BurnPost, Queues
  <2>3. QED
    BY <1>1, <1>10, <2>1, <2>2 DEF BurnPost, TypeOK
<1>11. CASE StopEnquire
  <2>1. wpc' \in [Workers -> {"none", "test", "lock", "wait", "woken", "send", "ended"}]
    BY <1>1, <1>11, Notified DEF TypeOK, StopEnquire, Queues
  <2>2. QED
    BY <1>1, <1>11, <2>1 DEF StopEnquire, TypeOK
<1>12. ASSUME NEW w \in Workers, Worker(w) PROVE TypeOK'
  <2>1. CASE Test(w)
    BY <1>1, <2>1 DEF Test, TypeOK, poolvars, flags
  <2>2. CASE Take(w)
    <3> DEFINE q == w[1]
    <3>1. q \in Queues /\ queue[q] \in Seq(Requests) /\ queue[q] # <<>>
      BY <1>1, <1>2, <2>2 DEF Take, TypeOK
    <3>2. Head(queue[q]) \in Requests /\ Tail(queue[q]) \in Seq(Requests)
      BY <3>1
    <3>3. /\ cur' = [cur EXCEPT ![w] = Head(queue[q])]
          /\ queue' = [queue EXCEPT ![q] = Tail(queue[q])]
          /\ wpc' = [wpc EXCEPT ![w] = "send"]
          /\ UNCHANGED <<kind, team, up, spc, rpc, running, burnning, sent, dropped>>
      BY <2>2 DEF Take, poolvars, flags
    <3>4. QED
      BY <1>1, <3>2, <3>3 DEF TypeOK
  <2>3. CASE Wait(w)
    BY <1>1, <2>3 DEF Wait, TypeOK, poolvars
  <2>4. CASE Wake(w)
    BY <1>1, <2>4 DEF Wake, TypeOK, poolvars, flags
  <2>5. CASE Send(w)
    <3>1. cur[w] \in Requests
      BY <1>2, <2>5 DEF Send, IInv, WorkersHold
    <3>2. QED
      BY <1>1, <2>5, <3>1 DEF Send, TypeOK, poolvars, flags
  <2>6. QED
    BY <1>12, <2>1, <2>2, <2>3, <2>4, <2>5 DEF Worker
<1>13. CASE UNCHANGED vars
  BY <1>1, <1>13 DEF TypeOK, vars, poolvars, flags
<1>14. QED
  BY <1>3, <1>4, <1>6, <1>7, <1>8, <1>9, <1>10, <1>11, <1>12, <1>13
     DEF Next, StopStep, Queues

-----------------------------------------------------------------------------
\* Where the requests are.
Places == QueuesHold /\ WorkersHold /\ Over /\ Kept

\* A step that leaves queues, workers and histories alone, and makes no worker
\* begin or end a sending, leaves the requests where they are.
LEMMA PlacesQuiet ==
  ASSUME IInv, UNCHANGED <<kind, queue, cur, sent, dropped>>,
         \A r \in Made : rpc'[r] = "added" <=> rpc[r] = "added",
         \A w \in Workers : wpc'[w] = "send" <=> wpc[w] = "send"
  PROVE  Places'
<1>1. Made' = Made
  BY DEF Made
<1>2. QueuesHold'
  BY <1>1 DEF IInv, QueuesHold
<1>3. WorkersHold'
  BY <1>1 DEF IInv, WorkersHold
<1>4. Over' /\ Kept'
  BY <1>1 DEF IInv, Over, Kept
<1>5. QED
  BY <1>2, <1>3, <1>4 DEF Places

\* A request that is added is nowhere before and in its queue afterwards.
LEMMA PlacesEnqueue == ASSUME IInv, NEW r \in Made, Enqueue(r) PROVE Places'
<1> DEFINE q == kind[r]
<1>1. /\ rpc[r] # "added" /\ rpc' = [rpc EXCEPT ![r] = "added"] /\ notify(q)
      /\ UNCHANGED <<kind, cur, sent, dropped>>
  BY DEF Enqueue
<1>2. PICK s \in Seq(Requests) :
        /\ queue' = [queue EXCEPT ![q] = s]
        /\ IsInjective(s) /\ Range(s) = Range(queue[q]) \cup {r}
  BY Added
<1>3. /\ q \in Queues /\ r \in Requests /\ Made' = Made /\ TypeOK
      /\ Made \subseteq Requests /\ \A x \in Made : kind[x] \in Queues
  BY <1>1, MadeFacts DEF IInv, TypeOK, Made
<1>4. /\ queue'[q] = s /\ \A p \in Queues : p # q => queue'[p] = queue[p]
  BY <1>2, <1>3 DEF TypeOK
<1>5. rpc'[r] = "added" /\ \A x \in Made : x # r => rpc'[x] = rpc[x]
  BY <1>1, <1>3 DEF TypeOK
<1>6. \A w \in Workers : wpc'[w] = "send" <=> wpc[w] = "send"
  BY <1>1, <1>3, Notified DEF TypeOK, Waiting
<1>7. r \notin sent /\ r \notin dropped /\ \A w \in Workers : cur[w] # r
  BY <1>1, <1>3, PoolAssumption DEF IInv, Over, WorkersHold
<1> HIDE DEF q
<1>8. QueuesHold'
  <2> SUFFICES ASSUME NEW p \in Queues
               PROVE  /\ IsInjective(queue'[p])
                      /\ \A x \in Range(queue'[p]) :
                           /\ x \in Made /\ kind[x] = p /\ rpc'[x] = "added"
                           /\ x \notin sent /\ x \notin dropped
                           /\ \A w \in Workers : cur[w] # x
    BY <1>1, <1>3 DEF QueuesHold
  <2>1. CASE p = q
    <3>1. IsInjective(queue'[p]) /\ Range(queue'[p]) = Range(queue[q]) \cup {r}
      BY <1>2, <1>4, <2>1
    <3>2. kind[r] = p
      BY <2>1 DEF q
    <3>3. ASSUME NEW x \in Range(queue[q])
          PROVE  /\ x \in Made /\ kind[x] = p /\ rpc'[x] = "added"
                 /\ x \notin sent /\ x \notin dropped
                 /\ \A w \in Workers : cur[w] # x
      BY <1>3, <1>5, <2>1, <3>3 DEF IInv, QueuesHold
    <3>4. QED
      BY <1>5, <1>7, <3>1, <3>2, <3>3
  <2>2. CASE p # q
    BY <1>1, <1>4, <1>5, <2>2 DEF IInv, QueuesHold
  <2>3. QED
    BY <2>1, <2>2
<1>9. WorkersHold'
  BY <1>1, <1>3, <1>5, <1>6 DEF IInv, WorkersHold
<1>10. Over'
  BY <1>1, <1>3, <1>5 DEF IInv, Over
<1>11. Kept'
  <2>1. r \in Range(queue'[kind[r]])
    BY <1>2, <1>4 DEF q
  <2>2. ASSUME NEW x \in Made, x # r PROVE Range(queue[kind[x]]) \subseteq Range(queue'[kind[x]])
    <3>1. CASE kind[x] = q
      BY <1>2, <1>4, <3>1
    <3>2. CASE kind[x] # q
      BY <1>3, <1>4, <3>2
    <3>3. QED
      BY <3>1, <3>2
  <2>3. ASSUME NEW x \in Made, rpc'[x] = "added"
        PROVE  x \in Range(queue'[kind[x]]) \/ (\E w \in Workers : cur[w] = x) \/ x \in sent \/ x \in dropped
    <3>1. CASE x = r
      BY <2>1, <3>1
    <3>2. CASE x # r
      BY <1>5, <2>2, <2>3, <3>2 DEF IInv, Kept
    <3>3. QED
      BY <3>1, <3>2
  <2>4. QED
    BY <1>1, <1>3, <2>3 DEF Kept
<1>12. QED
  BY <1>8, <1>9, <1>10, <1>11 DEF Places

\* Requests dropped from the text or the image queue are dropped for good.
LEMMA PlacesDrop ==
  ASSUME IInv, NEW q \in {"txt", "img"}, Drop(q),
         UNCHANGED <<kind, rpc, cur, sent>>,
         \A w \in Workers : wpc'[w] = "send" <=> wpc[w] = "send"
  PROVE  Places'
<1>1. /\ queue' = [queue EXCEPT ![q] = <<>>]
      /\ dropped' = dropped \cup Range(queue[q])
  BY DEF Drop
<1>2. q \in Queues /\ Made' = Made /\ TypeOK /\ \A x \in Made : kind[x] \in Queues
  BY MadeFacts DEF IInv, TypeOK, Made, Queues
<1>3. queue'[q] = <<>> /\ \A p \in Queues : p # q => queue'[p] = queue[p]
  BY <1>1, <1>2 DEF TypeOK
<1>4. \A x \in Range(queue[q]) :
        /\ x \in Made /\ kind[x] = q /\ rpc[x] = "added" /\ x \notin sent
        /\ \A w \in Workers : cur[w] # x
  BY <1>2 DEF IInv, QueuesHold
<1>5. QueuesHold'
  <2> SUFFICES ASSUME NEW p \in Queues
               PROVE  /\ IsInjective(queue'[p])
                      /\ \A x \in Range(queue'[p]) :
                           /\ x \in Made /\ kind[x] = p /\ rpc[x] = "added"
                           /\ x \notin sent /\ x \notin dropped'
                           /\ \A w \in Workers : cur[w] # x
    BY <1>2 DEF QueuesHold
  <2>1. CASE p = q
    BY <1>3, <2>1, HoldsNothing
  <2>2. CASE p # q
    BY <1>1, <1>3, <1>4, <2>2 DEF IInv, QueuesHold
  <2>3. QED
    BY <2>1, <2>2
<1>6. WorkersHold'
  BY <1>1, <1>2, <1>4 DEF IInv, WorkersHold
<1>7. Over'
  BY <1>1, <1>2, <1>4 DEF IInv, Over
<1>8. Kept'
  <2>1. ASSUME NEW x \in Made, x \in Range(queue[kind[x]])
        PROVE  x \in Range(queue'[kind[x]]) \/ x \in dropped'
    <3>1. CASE kind[x] = q
      BY <1>1, <2>1, <3>1
    <3>2. CASE kind[x] # q
      BY <1>2, <1>3, <2>1, <3>2
    <3>3. QED
      BY <3>1, <3>2
  <2>2. dropped \subseteq dropped'
    BY <1>1
  <2>3. QED
    BY <1>2, <2>1, <2>2 DEF IInv, Kept
<1>9. QED
  BY <1>5, <1>6, <1>7, <1>8 DEF Places

\* A worker takes the first request of its queue.
LEMMA PlacesTake == ASSUME IInv, NEW w \in Workers, Take(w) PROVE Places'
<1> DEFINE q == w[1]
           r == Head(queue[q])
<1>1. /\ wpc[w] = "lock" /\ queue[q] # <<>>
      /\ cur' = [cur EXCEPT ![w] = r] /\ wpc' = [wpc EXCEPT ![w] = "send"]
      /\ queue' = [queue EXCEPT ![q] = Tail(queue[q])]
      /\ UNCHANGED <<kind, rpc, sent, dropped>>
  BY DEF Take
<1>2. /\ q \in Queues /\ Made' = Made /\ TypeOK
      /\ Made \subseteq Requests /\ \A x \in Made : kind[x] \in Queues
  BY <1>1, MadeFacts, WorkerFacts DEF IInv, TypeOK, Made
<1>3. queue[q] \in Seq(Requests) /\ IsInjective(queue[q])
  BY <1>2 DEF TypeOK, IInv, QueuesHold
<1>4. /\ IsInjective(Tail(queue[q])) /\ r \in Range(queue[q]) /\ r \in Requests
      /\ Range(Tail(queue[q])) = Range(queue[q]) \ {r}
  BY <1>1, <1>3, TakeFirst
<1>5. /\ queue'[q] = Tail(queue[q]) /\ \A p \in Queues : p # q => queue'[p] = queue[p]
  BY <1>1, <1>2 DEF TypeOK
<1>6. /\ cur'[w] = r /\ \A v \in Workers : v # w => cur'[v] = cur[v]
      /\ wpc'[w] = "send" /\ \A v \in Workers : v # w => wpc'[v] = wpc[v]
  BY <1>1, <1>2 DEF TypeOK
<1>7. cur[w] = None
  BY <1>1 DEF IInv, WorkersHold
<1>8. /\ r \in Made /\ kind[r] = q /\ rpc[r] = "added"
      /\ r \notin sent /\ r \notin dropped /\ r # None
      /\ \A v \in Workers : cur[v] # r
  BY <1>2, <1>4, PoolAssumption DEF IInv, QueuesHold
<1> HIDE DEF q, r
<1>9. QueuesHold'
  <2> SUFFICES ASSUME NEW p \in Queues
               PROVE  /\ IsInjective(queue'[p])
                      /\ \A x \in Range(queue'[p]) :
                           /\ x \in Made /\ kind[x] = p /\ rpc[x] = "added"
                           /\ x \notin sent /\ x \notin dropped
                           /\ \A v \in Workers : cur'[v] # x
    BY <1>1, <1>2 DEF QueuesHold
  <2>1. IsInjective(queue'[p]) /\ Range(queue'[p]) \subseteq Range(queue[p]) /\ r \notin Range(queue'[p])
    <3>1. CASE p = q
      BY <1>4, <1>5, <3>1
    <3>2. CASE p # q
      BY <1>5, <1>8, <3>2 DEF IInv, QueuesHold
    <3>3. QED
      BY <3>1, <3>2
  <2>2. QED
    BY <1>6, <2>1 DEF IInv, QueuesHold
<1>10. WorkersHold'
  <2> SUFFICES ASSUME NEW v \in Workers
               PROVE  /\ wpc'[v] = "send" <=> cur'[v] # None
                      /\ cur'[v] # None =>
                           /\ cur'[v] \in Made /\ rpc[cur'[v]] = "added"
                           /\ cur'[v] \notin sent /\ cur'[v] \notin dropped
                           /\ \A u \in Workers : cur'[u] = cur'[v] => u = v
    BY <1>1, <1>2 DEF WorkersHold
  <2>1. CASE v = w
    BY <1>6, <1>8, <2>1
  <2>2. CASE v # w
    BY <1>6, <1>8, <2>2 DEF IInv, WorkersHold
  <2>3. QED
    BY <2>1, <2>2
<1>11. Over'
  BY <1>1, <1>2 DEF IInv, Over
<1>12. Kept'
  <2>1. ASSUME NEW x \in Made, x \in Range(queue[kind[x]]), x # r
        PROVE  x \in Range(queue'[kind[x]])
    <3>1. CASE kind[x] = q
      BY <1>4, <1>5, <2>1, <3>1
    <3>2. CASE kind[x] # q
      BY <1>2, <1>5, <2>1, <3>2
    <3>3. QED
      BY <3>1, <3>2
  <2>2. ASSUME NEW x \in Made, NEW v \in Workers, cur[v] = x PROVE cur'[v] = x
    <3>1. v # w
      BY <1>2, <1>7, <2>2, PoolAssumption
    <3>2. QED
      BY <1>6, <2>2, <3>1
  <2>3. QED
    BY <1>1, <1>2, <1>6, <2>1, <2>2 DEF IInv, Kept
<1>13. QED
  BY <1>9, <1>10, <1>11, <1>12 DEF Places

\* A worker has dealt with its request.
LEMMA PlacesSend == ASSUME IInv, NEW w \in Workers, Send(w) PROVE Places'
<1> DEFINE r == cur[w]
<1>1. /\ wpc[w] = "send" /\ wpc' = [wpc EXCEPT ![w] = "test"]
      /\ sent' = sent \cup {r} /\ cur' = [cur EXCEPT ![w] = None]
      /\ UNCHANGED <<kind, queue, rpc, dropped>>
  BY DEF Send
<1>2. Made' = Made /\ TypeOK
  BY <1>1 DEF IInv, Made
<1>3. /\ r # None /\ r \in Made /\ rpc[r] = "added" /\ r \notin dropped
      /\ \A v \in Workers : cur[v] = r => v = w
  BY <1>1 DEF IInv, WorkersHold
<1>4. /\ cur'[w] = None /\ \A v \in Workers : v # w => cur'[v] = cur[v]
      /\ wpc'[w] = "test" /\ \A v \in Workers : v # w => wpc'[v] = wpc[v]
  BY <1>1, <1>2 DEF TypeOK
<1>5. \A q \in Queues : r \notin Range(queue[q])
  BY DEF IInv, QueuesHold
<1>6. QueuesHold'
  <2>1. ASSUME NEW q \in Queues, NEW x \in Range(queue[q])
        PROVE  x \notin sent' /\ x # None /\ \A v \in Workers : cur'[v] # x
    <3>1. x \in Made /\ x # r /\ x \notin sent /\ \A v \in Workers : cur[v] # x
      BY <1>5, <2>1 DEF IInv, QueuesHold
    <3>2. x # None
      BY <1>2, <3>1, MadeFacts, PoolAssumption DEF TypeOK
    <3>3. QED
      BY <1>1, <1>4, <3>1, <3>2
  <2>2. QED
    BY <1>1, <1>2, <2>1 DEF IInv, QueuesHold
<1> HIDE DEF r
<1>7. WorkersHold'
  <2> SUFFICES ASSUME NEW v \in Workers
               PROVE  /\ wpc'[v] = "send" <=> cur'[v] # None
                      /\ cur'[v] # None =>
                           /\ cur'[v] \in Made /\ rpc[cur'[v]] = "added"
                           /\ cur'[v] \notin sent' /\ cur'[v] \notin dropped
                           /\ \A u \in Workers : cur'[u] = cur'[v] => u = v
    BY <1>1, <1>2 DEF WorkersHold
  <2>1. CASE v = w
    BY <1>4, <2>1
  <2>2. CASE v # w
    BY <1>1, <1>3, <1>4, <2>2 DEF IInv, WorkersHold
  <2>3. QED
    BY <2>1, <2>2
<1>8. Over'
  BY <1>1, <1>2, <1>3 DEF IInv, Over
<1>9. Kept'
  <2>1. ASSUME NEW x \in Made, NEW v \in Workers, cur[v] = x PROVE cur'[v] = x \/ x \in sent'
    BY <1>1, <1>4, <2>1 DEF r
  <2>2. QED
    BY <1>1, <1>2, <2>1 DEF IInv, Kept
<1>10. QED
  BY <1>6, <1>7, <1>8, <1>9 DEF Places

\* Every step leaves each request in its place, or moves it to another.
LEMMA PlacesStep == IInv /\ [Next]_vars => Places'
<1> SUFFICES ASSUME IInv, [Next]_vars PROVE Places'
  OBVIOUS
<1>1. TypeOK /\ Made \subseteq Requests
  BY MadeFacts DEF IInv, TypeOK
<1>2. ASSUME NEW r \in Made, AddRequest(r) PROVE Places'
  <2>1. \A x \in Made : rpc'[x] = "added" <=> rpc[x] = "added"
    BY <1>1, <1>2 DEF AddRequest, TypeOK
  <2>2. \A w \in Workers : wpc'[w] = "send" <=> wpc[w] = "send"
    <3>1. CASE up
      BY <1>2, <3>1 DEF AddRequest, checkThreads
    <3>2. CASE ~up
      <4>1. /\ wpc' = [w \in Workers |-> IF w \in NewTeam(team') THEN "test" ELSE wpc[w]]
            /\ team' = team + 1 /\ team' \in Teams
        BY <1>1, <1>2, <3>2, Checked DEF AddRequest
      <4>2. \A w \in NewTeam(team') : w \in Workers /\ w[2] > team
        BY <1>1, <4>1, NewTeamFacts DEF TypeOK, Teams
      <4>3. \A w \in NewTeam(team') : wpc[w] = "none"
        BY <4>2 DEF IInv, Started
      <4> HIDE DEF NewTeam
      <4>4. QED
        BY <4>1, <4>3
    <3>3. QED
      BY <3>1, <3>2
  <2>3. QED
    BY <1>2, <2>1, <2>2, PlacesQuiet DEF AddRequest
<1>3. ASSUME NEW r \in Made, Enqueue(r) PROVE Places'
  BY <1>3, PlacesEnqueue
<1>4. CASE Cancel
  BY <1>4, PlacesDrop DEF Cancel
<1>5. CASE Stop
  BY <1>5, PlacesQuiet DEF Stop, flags
<1>6. ASSUME NEW q \in {"txt", "img"}, NEW next, StopAndDrop(q, next) PROVE Places'
  <2>1. \A w \in Workers : wpc'[w] = "send" <=> wpc[w] = "send"
    BY <1>6 DEF StopAndDrop, Waiting
  <2>2. QED
    BY <1>6, <2>1, PlacesDrop DEF StopAndDrop
<1>7. CASE StopPost
  BY <1>7, PlacesQuiet DEF StopPost
<1>8. CASE BurnPost \/ StopEnquire
  <2>1. PICK q \in Queues : notify(q)
    BY <1>8 DEF BurnPost, StopEnquire, Queues
  <2>2. \A w \in Workers : wpc'[w] = "send" <=> wpc[w] = "send"
    BY <1>1, <2>1, Notified DEF TypeOK, Waiting
  <2>3. QED
    BY <1>8, <2>2, PlacesQuiet DEF BurnPost, StopEnquire
<1>9. ASSUME NEW w \in Workers, Test(w) \/ Wait(w) \/ Wake(w) PROVE Places'
  <2>1. \A v \in Workers : wpc'[v] = "send" <=> wpc[v] = "send"
    BY <1>1, <1>9 DEF Test, Wait, Wake, TypeOK
  <2>2. QED
    BY <1>9, <2>1, PlacesQuiet DEF Test, Wait, Wake
<1>10. CASE UNCHANGED vars
  BY <1>10, PlacesQuiet DEF vars
<1>11. QED
  BY <1>2, <1>3, <1>4, <1>5, <1>6, <1>7, <1>8, <1>9, <1>10, PlacesTake, PlacesSend
     DEF Next, StopStep, Worker

-----------------------------------------------------------------------------
\* Who works, waits and has been told to stop.
Threads == Started /\ Working /\ RetiredEnd /\ PostAwake /\ FirstAwake

\* The thread of the post queue that waits is the one of the team started
\* last.
LEMMA OneWaits ==
  ASSUME IInv, NEW v \in Waiting("post"), NEW w \in Waiting("post")
  PROVE  v = w /\ spc # "enquire" /\ up
<1>1. /\ v \in Workers /\ v[1] = "post" /\ wpc[v] = "wait"
      /\ w \in Workers /\ w[1] = "post" /\ wpc[w] = "wait"
  BY DEF Waiting
<1>2. v[2] <= team /\ w[2] <= team
  BY <1>1, WorkerFacts DEF IInv, TypeOK, Started
<1>3. ~Retired(v) /\ ~Retired(w)
  BY <1>1 DEF IInv, RetiredEnd
<1>4. v[2] = team /\ w[2] = team
  BY <1>1, <1>2, <1>3, WorkerFacts DEF Retired, IInv, TypeOK
<1>5. v = <<"post", v[2], 1>> /\ w = <<"post", w[2], 1>>
  BY <1>1, WorkerFacts
<1>6. QED
  BY <1>1, <1>3, <1>4, <1>5 DEF Retired

\* addRequest may start a team.
LEMMA ThreadsAdd == ASSUME IInv, NEW r \in Made, AddRequest(r) PROVE Threads'
<1>1. /\ spc = "idle" /\ checkThreads
      /\ UNCHANGED <<kind, queue, spc, burnning>>
  BY DEF AddRequest, Free
<1>2. TypeOK /\ Made' = Made /\ Used' = Used
  BY <1>1 DEF IInv, Made, Used
<1>3. CASE up
  <2>1. UNCHANGED <<team, up, running, wpc>>
    BY <1>1, <1>3 DEF checkThreads
  <2>2. QED
    BY <1>1, <1>2, <2>1 DEF IInv, Threads, Started, Working, RetiredEnd, Retired,
       PostAwake, FirstAwake, Team
<1>4. CASE ~up
  <2>1. /\ up' /\ team' = team + 1 /\ team' \in Teams
        /\ running' = running \cup NewTeam(team')
        /\ wpc' = [w \in Workers |-> IF w \in NewTeam(team') THEN "test" ELSE wpc[w]]
    BY <1>1, <1>2, <1>4, Checked
  <2>2. /\ team \in Nat /\ team' \in Nat /\ \A w \in Workers : w[2] \in Nat /\ w[1] \in Queues
    BY <1>2, <2>1, PoolAssumption, WorkerFacts DEF TypeOK, Teams
  <2>3. \A w \in Workers : w \in NewTeam(team') <=> w[2] = team' /\ w[1] \in Used
    BY <1>2, <2>1, NewTeamFacts DEF TypeOK
  <2> HIDE DEF NewTeam
  <2>4. \A w \in Workers : w[2] = team' => wpc[w] = "none" /\ w \notin running /\ w \notin burnning
    BY <2>1, <2>2 DEF IInv, Started
  <2>5. Started'
    BY <1>1, <1>2, <2>1, <2>2, <2>3 DEF IInv, Started
  <2>6. Working'
    <3>1. \A w \in burnning : w \in Workers /\ w[2] < team'
      BY <1>2, <2>1, <2>2 DEF IInv, Started, TypeOK
    <3>2. QED
      BY <1>1, <1>2, <2>1, <2>2, <2>3, <3>1 DEF Working
  <2>7. RetiredEnd'
    <3>1. \A w \in Workers : Retired(w)' => Retired(w) /\ w \notin NewTeam(team')
      BY <1>1, <1>4, <2>1, <2>2, <2>3 DEF Retired
    <3>2. \A w \in Workers : w \notin NewTeam(team') => wpc'[w] = wpc[w]
      BY <2>1
    <3>3. \A w \in Workers : w \notin NewTeam(team') => (w \in running' <=> w \in running)
      BY <2>1
    <3>4. spc' # "burn"
      BY <1>1
    <3>5. QED
      BY <1>1, <3>1, <3>2, <3>3, <3>4 DEF IInv, RetiredEnd
  <2>8. PostAwake'
    BY <1>1, <2>1 DEF IInv, PostAwake
  <2>9. FirstAwake'
    <3> SUFFICES ASSUME NEW q \in Queues, queue[q] # <<>>, team' = 1
                 PROVE  \E w \in Team(q, 1) : wpc'[w] # "wait"
      BY <1>1 DEF FirstAwake, Team
    <3>1. 1 \in Teams
      BY <2>1
    <3>2. /\ Team(q, 1) \subseteq Workers /\ Team(q, 1) # {}
          /\ \A w \in Team(q, 1) : w[1] = q /\ w[2] = 1
      BY <3>1, TeamFacts
    <3>3. PICK w \in Team(q, 1) : w \in Workers /\ w[2] = 1
      BY <3>2
    <3>4. wpc'[w] # "wait"
      BY <2>1, <2>4, <3>3
    <3>5. QED
      BY <3>3, <3>4
  <2>10. QED
    BY <2>5, <2>6, <2>7, <2>8, <2>9 DEF Threads
<1>5. QED
  BY <1>3, <1>4

\* addRequest wakes a thread that waits, so that none sleeps over the request.
LEMMA ThreadsEnqueue == ASSUME IInv, NEW r \in Made, Enqueue(r) PROVE Threads'
<1> DEFINE q == kind[r]
<1>1. /\ notify(q) /\ \E s \in Seq(Requests) : queue' = [queue EXCEPT ![q] = s]
      /\ UNCHANGED <<kind, team, up, spc, running, burnning>>
  BY Added DEF Enqueue, poolvars, flags
<1>2. TypeOK /\ Made' = Made /\ Used' = Used /\ q \in Queues /\ q \in Used
  BY <1>1, MadeFacts DEF IInv, TypeOK, Made, Used
<1>3. \A p \in Queues : p # q => queue'[p] = queue[p]
  BY <1>1, <1>2 DEF TypeOK
<1>4. /\ \A w \in Workers :
           \/ wpc'[w] = wpc[w]
           \/ w[1] = q /\ wpc[w] = "wait" /\ wpc'[w] = "woken"
      /\ Waiting(q) # {} => \E w \in Waiting(q) : wpc'[w] = "woken"
  BY <1>1, <1>2, Notified DEF TypeOK, Waiting
<1> HIDE DEF q
<1>5. Started'
  BY <1>1, <1>2, <1>4 DEF IInv, Started
<1>6. Working'
  BY <1>1, <1>2, <1>4 DEF IInv, Working
<1>7. RetiredEnd'
  BY <1>1, <1>4 DEF IInv, RetiredEnd, Retired
<1>8. PostAwake'
  <2> SUFFICES ASSUME NEW w \in Workers, w[1] = "post", wpc'[w] = "wait"
               PROVE  queue'["post"] = <<>>
    BY DEF PostAwake
  <2>1. wpc[w] = "wait" /\ w \in Waiting("post")
    BY <1>4 DEF Waiting
  <2>2. q # "post"
    <3> SUFFICES ASSUME q = "post" PROVE FALSE
      OBVIOUS
    <3>1. PICK v \in Waiting("post") : wpc'[v] = "woken"
      BY <1>4, <2>1
    <3>2. v = w
      BY <2>1, <3>1, OneWaits
    <3>3. QED
      BY <3>1, <3>2
  <2>3. QED
    BY <1>3, <2>1, <2>2 DEF IInv, PostAwake, Queues
<1>9. FirstAwake'
  <2> SUFFICES ASSUME up, spc = "idle", team = 1, NEW p \in Queues, queue'[p] # <<>>
               PROVE  \E w \in Team(p, 1) : wpc'[w] # "wait"
    BY <1>1 DEF FirstAwake, Team
  <2>0. Team(p, 1) \subseteq Workers /\ Team(p, 1) # {} /\ \A w \in Team(p, 1) : w[1] = p
    <3>1. 1 \in Teams
      BY <1>2, PoolAssumption DEF TypeOK, Teams
    <3>2. QED
      BY <3>1, TeamFacts
  <2>1. CASE p # q
    <3>1. PICK w \in Team(p, 1) : wpc[w] # "wait"
      BY <1>3, <2>1 DEF IInv, FirstAwake
    <3>2. QED
      BY <1>4, <2>0, <3>1
  <2>2. CASE p = q /\ Waiting(q) = {}
    <3>1. \A w \in Team(p, 1) : wpc[w] # "wait"
      BY <2>0, <2>2 DEF Waiting
    <3>2. QED
      BY <1>4, <2>0, <3>1
  <2>3. CASE p = q /\ Waiting(q) # {}
    <3>1. PICK w \in Waiting(q) : wpc'[w] = "woken"
      BY <1>4, <2>3
    <3>2. w \in Workers /\ w[1] = p /\ wpc[w] = "wait"
      BY <2>3, <3>1 DEF Waiting
    <3>3. w[2] <= team /\ w[2] \in Nat /\ w[2] \in Teams
      BY <3>2, WorkerFacts DEF IInv, TypeOK, Started
    <3>4. w[2] = 1
      BY <3>3 DEF Teams
    <3>5. w \in Team(p, 1)
      BY <3>2, <3>4, WorkerFacts
    <3>6. QED
      BY <3>1, <3>5
  <2>4. QED
    BY <2>1, <2>2, <2>3
<1>10. QED
  BY <1>5, <1>6, <1>7, <1>8, <1>9 DEF Threads

\* Cancelling and the steps of stop() that do not concern the post queue.
LEMMA ThreadsStop ==
  ASSUME IInv,
         \/ Cancel \/ Stop \/ StopAndDrop("txt", "img") \/ StopAndDrop("img", "post")
  PROVE  Threads'
<1>1. /\ UNCHANGED <<kind, team, up, burnning>> /\ running' \subseteq running
      /\ \A w \in Workers :
           \/ wpc'[w] = wpc[w]
           \/ w[1] \in {"txt", "img"} /\ wpc[w] = "wait" /\ wpc'[w] = "woken"
  BY DEF Cancel, Stop, StopAndDrop, Waiting, poolvars, flags
<1>2. TypeOK /\ Made' = Made /\ Used' = Used
  BY <1>1 DEF IInv, Made, Used
<1>3. /\ \A p \in Queues : queue'[p] = queue[p] \/ queue'[p] = <<>>
      /\ queue'["post"] = queue["post"]
  BY <1>2 DEF Cancel, Stop, StopAndDrop, Drop, TypeOK, Queues
<1>4. \/ spc' = spc /\ UNCHANGED <<running, wpc>>
      \/ up /\ spc' \in {"txt", "img", "post"} /\ spc # "enquire"
  BY DEF Cancel, Stop, StopAndDrop, poolvars, flags, IInv, Started, Free
<1>5. Started'
  BY <1>1, <1>2, <1>4 DEF IInv, Started
<1>6. Working'
  BY <1>1, <1>2, <1>4 DEF IInv, Working
<1>7. RetiredEnd'
  BY <1>1, <1>4 DEF IInv, RetiredEnd, Retired
<1>8. PostAwake'
  BY <1>1, <1>3 DEF IInv, PostAwake
<1>9. FirstAwake'
  BY <1>1, <1>3, <1>4 DEF IInv, FirstAwake, Team
<1>10. QED
  BY <1>5, <1>6, <1>7, <1>8, <1>9 DEF Threads

\* stop() tells the post thread to stop, then to finish first.
LEMMA ThreadsStopPost == ASSUME IInv, StopPost PROVE Threads'
<1>1. /\ spc = "post" /\ spc' = "burn" /\ running' = running \ Current("post")
      /\ UNCHANGED <<kind, queue, team, up, burnning, wpc>>
  BY DEF StopPost
<1>2. TypeOK /\ Made' = Made /\ Used' = Used /\ up /\ team >= 1
  BY <1>1 DEF IInv, Made, Used, Started
<1>3. \A w \in Workers : w[1] = "post" => w \notin running'
  <2> SUFFICES ASSUME NEW w \in Workers, w[1] = "post", w \in running
               PROVE  w \in Current("post")
    BY <1>1
  <2>1. w[1] \in Used /\ ~(w[2] > team)
    BY DEF IInv, Started
  <2>2. ~(w[2] < team)
    BY DEF IInv, RetiredEnd, Retired
  <2>3. w[2] = team
    BY <1>2, <2>1, <2>2, WorkerFacts DEF TypeOK
  <2>4. QED
    BY <1>2, <2>1, <2>3, CurrentFacts DEF Queues
<1>4. Started' /\ Working'
  BY <1>1, <1>2 DEF IInv, Started, Working
<1>5. RetiredEnd'
  BY <1>1, <1>2, <1>3 DEF IInv, RetiredEnd, Retired
<1>6. PostAwake' /\ FirstAwake'
  BY <1>1 DEF IInv, PostAwake, FirstAwake
<1>7. QED
  BY <1>4, <1>5, <1>6 DEF Threads

LEMMA ThreadsBurnPost == ASSUME IInv, BurnPost PROVE Threads'
<1>1. /\ spc = "burn" /\ spc' = "enquire" /\ notify("post")
      /\ burnning' = burnning \cup Current("post")
      /\ UNCHANGED <<kind, queue, team, up, running>>
  BY DEF BurnPost
<1>2. TypeOK /\ Made' = Made /\ Used' = Used /\ up /\ team >= 1
  BY <1>1 DEF IInv, Made, Used, Started
<1>3. /\ \A w \in Workers :
           \/ wpc'[w] = wpc[w]
           \/ w[1] = "post" /\ wpc[w] = "wait" /\ wpc'[w] = "woken"
      /\ Waiting("post") # {} => \E w \in Waiting("post") : wpc'[w] = "woken"
  BY <1>1, <1>2, Notified DEF TypeOK, Waiting, Queues
<1>4. \A w \in Workers : w \in Current("post") <=> w[1] = "post" /\ w[2] = team /\ "post" \in Used
  BY <1>2, CurrentFacts DEF Queues
<1>5. Started'
  BY <1>1, <1>2, <1>3, <1>4, WorkerFacts DEF IInv, Started
<1>6. Working'
  BY <1>1 DEF Working
<1>7. ASSUME NEW w \in Workers, w[1] = "post"
      PROVE  /\ wpc'[w] # "wait" /\ w \notin running
             /\ wpc'[w] = "lock" => w \in burnning'
  <2>1. wpc'[w] # "wait"
    <3> SUFFICES ASSUME wpc'[w] = "wait" PROVE FALSE
      OBVIOUS
    <3>1. w \in Waiting("post")
      BY <1>3, <1>7 DEF Waiting
    <3>2. PICK v \in Waiting("post") : wpc'[v] = "woken"
      BY <1>3, <3>1
    <3>3. v = w
      BY <3>1, <3>2, OneWaits
    <3>4. QED
      BY <3>2, <3>3
  <2>2. w \notin running
    BY <1>1, <1>7 DEF IInv, RetiredEnd
  <2>3. ASSUME wpc'[w] = "lock" PROVE w \in burnning'
    <3>1. wpc[w] = "lock" /\ w[2] <= team /\ w[1] \in Used
      BY <1>2, <1>3, <2>3, WorkerFacts DEF IInv, Started, TypeOK
    <3>2. CASE w[2] < team
      BY <1>1, <1>7, <3>1, <3>2 DEF IInv, RetiredEnd, Retired
    <3>3. CASE w[2] = team
      BY <1>1, <1>4, <1>7, <3>1, <3>3
    <3>4. QED
      BY <1>2, <3>1, <3>2, <3>3, WorkerFacts DEF TypeOK
  <2>4. QED
    BY <2>1, <2>2, <2>3
<1>8. RetiredEnd'
  BY <1>1, <1>7 DEF RetiredEnd, Retired
<1>9. PostAwake' /\ FirstAwake'
  BY <1>1, <1>7 DEF PostAwake, FirstAwake
<1>10. QED
  BY <1>5, <1>6, <1>8, <1>9 DEF Threads

\* The last step of stop().
LEMMA ThreadsStopEnquire == ASSUME IInv, StopEnquire PROVE Threads'
<1>1. /\ spc = "enquire" /\ spc' = "idle" /\ up' = FALSE /\ notify("enquire")
      /\ running' \subseteq running
      /\ UNCHANGED <<kind, queue, team, burnning>>
  BY DEF StopEnquire
<1>2. TypeOK /\ Made' = Made /\ Used' = Used
  BY <1>1 DEF IInv, Made, Used
<1>3. \A w \in Workers :
        \/ wpc'[w] = wpc[w]
        \/ w[1] = "enquire" /\ wpc[w] = "wait" /\ wpc'[w] = "woken"
  BY <1>1, <1>2, Notified DEF TypeOK, Waiting, Queues
<1>4. Started'
  BY <1>1, <1>2, <1>3 DEF IInv, Started
<1>5. Working' /\ FirstAwake'
  BY <1>1 DEF Working, FirstAwake
<1>6. RetiredEnd'
  BY <1>1, <1>3 DEF IInv, RetiredEnd, Retired
<1>7. PostAwake'
  BY <1>1, <1>3 DEF IInv, PostAwake
<1>8. QED
  BY <1>4, <1>5, <1>6, <1>7 DEF Threads

\* One worker goes on, and leaves the others alone.
LEMMA ThreadsWorker == ASSUME IInv, NEW w \in Workers, Worker(w) PROVE Threads'
<1> DEFINE pc == wpc'[w]
<1>1. /\ UNCHANGED <<kind, team, up, spc, running>>
      /\ burnning' \in {burnning, burnning \ {w}}
  BY DEF Worker, Test, Take, Wait, Wake, Send, poolvars, flags
<1>2. /\ TypeOK /\ Made' = Made /\ Used' = Used
      /\ w[1] \in Queues /\ w[2] \in Nat /\ team \in Nat
  BY <1>1, WorkerFacts, PoolAssumption DEF IInv, Made, Used, TypeOK
<1>3. /\ \A v \in Workers : v # w => wpc'[v] = wpc[v]
      /\ wpc[w] # "none" /\ pc # "none"
      /\ pc = "wait" => /\ wpc[w] = "lock" /\ queue[w[1]] = <<>> /\ queue' = queue
                        /\ w \notin burnning /\ ~Locked(w[1])
      /\ pc = "ended" => \/ wpc[w] = "test" /\ w \notin running
                         \/ w \in burnning
      /\ pc = "lock" => wpc[w] = "test" /\ w \in running \cup burnning /\ burnning' = burnning
      /\ w \notin burnning' => w \notin burnning \/ pc # "lock"
  BY <1>2 DEF Worker, Test, Take, Wait, Wake, Send, TypeOK, flags
<1>4. /\ \A q \in Queues : q # w[1] => queue'[q] = queue[q]
      /\ queue'[w[1]] # queue[w[1]] => wpc[w] = "lock" /\ queue[w[1]] # <<>> /\ pc = "send"
  BY <1>2 DEF Worker, Test, Take, Wait, Wake, Send, TypeOK
<1> HIDE DEF pc
<1>5. ~(w[2] > team) /\ w[1] \in Used
  BY <1>3 DEF IInv, Started
<1>6. Started'
  BY <1>1, <1>2, <1>3, <1>5 DEF IInv, Started
<1>7. Working'
  <2>1. ASSUME up, spc = "idle", w[2] = team PROVE w \in running /\ pc \notin {"none", "ended"}
    <3>1. w \in running
      BY <1>5, <2>1 DEF IInv, Working
    <3>2. w \notin burnning
      BY <1>2, <2>1 DEF IInv, Working
    <3>3. QED
      BY <1>3, <3>1, <3>2
  <2>2. up /\ spc # "enquire" => \A v \in burnning' : v[2] < team
    BY <1>1 DEF IInv, Working
  <2>3. QED
    BY <1>1, <1>2, <1>3, <2>1, <2>2 DEF IInv, Working, pc
<1>8. RetiredEnd'
  <2>1. ASSUME Retired(w)
        PROVE  /\ pc # "wait" /\ w \notin running
               /\ pc = "lock" => w \in burnning'
    <3>1. w \notin running /\ (wpc[w] = "lock" => w \in burnning)
      BY <2>1 DEF IInv, RetiredEnd
    <3>2. QED
      BY <1>3, <3>1
  <2>2. \A v \in Workers : Retired(v)' <=> Retired(v)
    BY <1>1 DEF Retired
  <2>3. \A v \in Workers : v # w => (v \in burnning' <=> v \in burnning)
    BY <1>1
  <2>4. QED
    BY <1>1, <1>3, <2>1, <2>2, <2>3 DEF IInv, RetiredEnd, pc
<1>9. PostAwake'
  <2> SUFFICES ASSUME NEW v \in Workers, v[1] = "post", wpc'[v] = "wait"
               PROVE  queue'["post"] = <<>>
    BY DEF PostAwake
  <2>1. CASE v = w
    BY <1>3, <2>1 DEF pc
  <2>2. CASE v # w
    <3>1. queue["post"] = <<>>
      BY <1>3, <2>2 DEF IInv, PostAwake
    <3>2. QED
      BY <1>4, <3>1 DEF Queues
  <2>3. QED
    BY <2>1, <2>2
<1>10. FirstAwake'
  <2> SUFFICES ASSUME up, spc = "idle", team = 1, NEW q \in Queues, queue'[q] # <<>>
               PROVE  \E v \in Team(q, 1) : wpc'[v] # "wait"
    BY <1>1 DEF FirstAwake, Team
  <2>1. 1 \in Teams
    BY <1>2, PoolAssumption DEF TypeOK, Teams
  <2>2. Team(q, 1) \subseteq Workers /\ \A v \in Team(q, 1) : v[1] = q
    BY <2>1, TeamFacts
  <2>3. queue[q] # <<>>
    BY <1>4
  <2>4. PICK v \in Team(q, 1) : wpc[v] # "wait"
    BY <2>3 DEF IInv, FirstAwake
  <2>5. CASE v # w
    BY <1>3, <2>2, <2>4, <2>5
  <2>6. CASE v = w
    <3>1. w[1] = q
      BY <2>2, <2>6
    <3>2. pc # "wait"
      BY <1>3, <2>3, <3>1
    <3>3. QED
      BY <2>4, <2>6, <3>2 DEF pc
  <2>7. QED
    BY <2>5, <2>6
<1>11. QED
  BY <1>6, <1>7, <1>8, <1>9, <1>10 DEF Threads

LEMMA ThreadsStep == IInv /\ [Next]_vars => Threads'
<1> SUFFICES ASSUME IInv, [Next]_vars PROVE Threads'
  OBVIOUS
<1>1. CASE UNCHANGED vars
  <2>1. UNCHANGED <<kind, queue, team, up, spc, running, burnning, wpc>>
    BY <1>1 DEF vars, poolvars, flags
  <2>2. Made' = Made /\ Used' = Used
    BY <2>1 DEF Made, Used
  <2>3. QED
    BY <2>1, <2>2 DEF IInv, Threads, Started, Working, RetiredEnd, Retired, PostAwake,
       FirstAwake, Team
<1>2. QED
  BY <1>1, ThreadsAdd, ThreadsEnqueue, ThreadsStop, ThreadsStopPost, ThreadsBurnPost,
     ThreadsStopEnquire, ThreadsWorker DEF Next, StopStep

\* The invariant is inductive.
THEOREM PoolInductive == Spec => []IInv
<1>1. Init => IInv
  BY IInvInit
<1>2. IInv /\ [Next]_vars => IInv'
  BY TypeStep, PlacesStep, ThreadsStep DEF IInv, Places, Threads
<1>3. QED
  BY <1>1, <1>2, PTL DEF Spec

\* The types of the pool, for any requests and any number of teams.
THEOREM TypeCorrect == Spec => []TypeOK
<1>1. IInv => TypeOK
  BY DEF IInv
<1>2. QED
  BY <1>1, PoolInductive, PTL

\* A request that has been added is in its queue, or with one worker, or done
\* with: no stop and no overlap of teams loses one or sends it twice
\* (HttpProviderWrapper).
THEOREM OnePlaceAlways == Spec => []OnePlace
<1>1. ASSUME IInv PROVE OnePlace
  <2> SUFFICES ASSUME NEW r \in Made
               PROVE  LET places == {<<"queue", i>> : i \in {i \in 1..Len(queue[kind[r]]) : queue[kind[r]][i] = r}}
                                      \cup {<<"worker", w>> : w \in Senders(r)}
                                      \cup {<<"sent">> : x \in sent \cap {r}}
                                      \cup {<<"dropped">> : x \in dropped \cap {r}}
                      IN  /\ Cardinality(places) = (IF rpc[r] = "added" THEN 1 ELSE 0)
                          /\ r \in dropped => kind[r] \in {"txt", "img"}
    BY Zenon DEF OnePlace
  <2> DEFINE s == queue[kind[r]]
             at == {i \in 1..Len(s) : s[i] = r}
             senders == Senders(r)
             places == {<<"queue", i>> : i \in at}
                         \cup {<<"worker", w>> : w \in senders}
                         \cup {<<"sent">> : x \in sent \cap {r}}
                         \cup {<<"dropped">> : x \in dropped \cap {r}}
  <2>1. kind[r] \in Queues /\ r \in Requests /\ r # None
    BY <1>1, MadeFacts, PoolAssumption DEF IInv, TypeOK
  <2>2. s \in Seq(Requests) /\ IsInjective(s)
    BY <1>1, <2>1 DEF IInv, TypeOK, QueuesHold
  <2>3. DOMAIN s = 1..Len(s)
    BY <2>2, LenProperties
  <2>4. at # {} => /\ rpc[r] = "added" /\ senders = {} /\ r \notin sent /\ r \notin dropped
    <3>1. at # {} => r \in Range(s)
      BY <2>3 DEF Range
    <3>2. QED
      BY <1>1, <2>1, <3>1 DEF IInv, QueuesHold, Senders
  <2>5. r \in Range(s) => at # {}
    BY <2>3 DEF Range
  <2>6. \A i, j \in at : i = j
    BY <2>2, <2>3 DEF IsInjective
  <2>7. senders # {} => rpc[r] = "added" /\ r \notin sent /\ r \notin dropped
    BY <1>1, <2>1 DEF IInv, WorkersHold, Senders
  <2>8. \A v, w \in senders : v = w
    BY <1>1, <2>1 DEF IInv, WorkersHold, Senders
  <2>9. /\ r \in sent => rpc[r] = "added" /\ r \notin dropped
        /\ r \in dropped => rpc[r] = "added" /\ kind[r] \in {"txt", "img"}
    BY <1>1 DEF IInv, Over
  <2>10. rpc[r] = "added" => at # {} \/ senders # {} \/ r \in sent \/ r \in dropped
    BY <1>1, <2>5 DEF IInv, Kept, Senders
  <2> HIDE DEF s, at, senders
  <2>11. CASE rpc[r] # "added"
    <3>1. places = {}
      BY <2>4, <2>7, <2>9, <2>11
    <3>2. QED
      BY <2>9, <2>11, <3>1, FS_EmptySet DEF s, at, senders
  <2>12. CASE rpc[r] = "added"
    <3>1. \E x : places = {x}
      <4>1. ASSUME NEW i \in at PROVE places = {<<"queue", i>>}
        BY <2>4, <2>6, <4>1
      <4>2. ASSUME NEW w \in senders PROVE places = {<<"worker", w>>}
        BY <2>4, <2>7, <2>8, <4>2
      <4>3. ASSUME r \in sent PROVE places = {<<"sent">>}
        BY <2>4, <2>7, <2>9, <4>3
      <4>4. ASSUME r \in dropped PROVE places = {<<"dropped">>}
        BY <2>4, <2>7, <2>9, <4>4
      <4> HIDE DEF places
      <4>5. QED
        BY <2>10, <2>12, <4>1, <4>2, <4>3, <4>4
    <3> HIDE DEF places
    <3>2. Cardinality(places) = 1
      BY <3>1, FS_Singleton
    <3>3. QED
      BY <2>9, <2>12, <3>2 DEF places, s, at, senders
  <2>13. QED
    BY <2>11, <2>12
<1>2. QED
  BY <1>1, PoolInductive, PTL

\* As long as the pool is up, a queue of the first team, and the post queue of
\* any team, has a thread awake while it holds something: notify() finds no
\* thread of an old team that would swallow it.
THEOREM NoneSleepsAlways == Spec => []NoneSleeps
<1>1. ASSUME IInv PROVE NoneSleeps
  <2> SUFFICES ASSUME NEW q \in Queues, up, spc = "idle", queue[q] # <<>>,
                      team = 1 \/ q = "post"
               PROVE  \E w \in Current(q) : wpc[w] \notin {"wait", "ended"}
    BY DEF NoneSleeps
  <2>1. TypeOK /\ team \in Teams /\ team >= 1
    BY <1>1, PoolAssumption DEF IInv, TypeOK, Started, Teams
  <2>2. q \in Used
    <3>1. queue[q] \in Seq(Requests)
      BY <2>1 DEF TypeOK
    <3>2. PICK r : r \in Range(queue[q])
      BY <3>1, HoldsSomething
    <3>3. r \in Made /\ kind[r] = q
      BY <1>1, <3>2 DEF IInv, QueuesHold
    <3>4. QED
      BY <3>3 DEF Used
  <2>3. Current(q) = Team(q, team)
    BY <2>2 DEF Current
  <2>4. /\ Team(q, team) \subseteq Workers
        /\ \A w \in Team(q, team) : w[1] = q /\ w[2] = team
        /\ Team(q, team) # {}
    BY <2>1, TeamFacts
  <2>5. \A w \in Team(q, team) : wpc[w] # "ended"
    BY <1>1, <2>2, <2>4 DEF IInv, Working
  <2>6. CASE team = 1
    <3>1. PICK w \in Team(q, 1) : wpc[w] # "wait"
      BY <1>1, <2>6 DEF IInv, FirstAwake
    <3>2. QED
      BY <2>3, <2>5, <2>6, <3>1
  <2>7. CASE q = "post"
    <3>1. \A w \in Team(q, team) : wpc[w] # "wait"
      BY <1>1, <2>4, <2>7 DEF IInv, PostAwake
    <3>2. QED
      BY <2>3, <2>4, <2>5, <3>1
  <2>8. QED
    BY <2>6, <2>7
<1>2. QED
  BY <1>1, PoolInductive, PTL
=============================================================================
