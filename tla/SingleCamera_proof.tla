------------------------- MODULE SingleCamera_proof -------------------------
(***************************************************************************)
(* Theorems about SingleCamera.  The lemmas say what one call of the       *)
(* library does to its static variables, the device and the heap; the      *)
(* invariant adds who may call it.                                         *)
(***************************************************************************)
EXTENDS SingleCamera, TLAPS

Results == [card : Cards, ok : BOOLEAN]

\* The numbers of surfaces are no None.
LEMMA SurfacesFacts ==
  /\ None \notin Surfaces /\ Surfaces \subseteq Nat /\ Surfaces \subseteq Handles
  /\ BufferCount \in 0..BufferCount /\ 0 \in 0..BufferCount
BY SingleAssumption DEF Surfaces, None, Handles

\* The device and the heap hold nothing but what the variables point to.
Tidy(c) ==
  /\ c.heap \subseteq {<<"buffers", c.buffers>>, <<"rgb", c.rgb>>}
  /\ c.node.fds \subseteq {c.fd}
  /\ c.node.maps \subseteq Buffers(c.buffers, c.n)

\* They hold nothing.
Empty(c) ==
  /\ c.fd = None /\ c.heap = {}
  /\ c.node.fds = {} /\ c.node.maps = {} /\ c.node.queued = {}

\* The variables that are null together.
Virgin(c) == c.buffers = None /\ c.n = 0 /\ c.rgb = None

\* The camera can be used and stopped.
Ready(c) ==
  /\ c.fd # None
  /\ Buffers(c.buffers, c.n) \subseteq c.node.maps
  /\ <<"buffers", c.buffers>> \in c.heap /\ <<"rgb", c.rgb>> \in c.heap
  /\ c.node.queued \subseteq 0..(c.n - 1)

\* What a failed call for surface s makes of c is d: either stopCamera is
\* defined for a library that was in its initial state, or the camera has
\* been reset.
Failed(c, d, s) ==
  /\ Tidy(d) /\ d.rgb = c.rgb
  /\ Virgin(c) => \/ Misuse(d) = {} /\ (d.buffers = None => Virgin(d))
                  \/ d.buffers = s /\ d.fd = None

\* The library has opened the device.
Opened(c, s) ==
  /\ c.fd = s /\ c.heap = {}
  /\ c.node.fds = {s} /\ c.node.maps = {} /\ c.node.queued = {}

\* All buffers are mapped.
Mapped(c, s) ==
  /\ c.fd = s /\ c.buffers = s /\ c.n = BufferCount
  /\ c.heap = {<<"buffers", s>>}
  /\ c.node.fds = {s} /\ c.node.maps = Buffers(s, BufferCount)
  /\ c.node.queued = {}

\* The kernel keeps a well-formed node.
LEMMA NodeTypes ==
  ASSUME NEW node \in Nodes, NEW d \in Handles, NEW n \in 0..BufferCount
  PROVE  /\ Close(node, d) \in Nodes /\ Munmap(node, d, n) \in Nodes
         /\ StreamOn(node) \in Nodes /\ StreamOff(node, d) \in Nodes
<1> USE DEF Nodes
<1>1. Close(node, d) \in Nodes
  BY DEF Close, Released, Handles
<1>2. Munmap(node, d, n) \in Nodes
  BY DEF Munmap, Released, Handles
<1>3. StreamOn(node) \in Nodes
  BY DEF StreamOn
<1>4. StreamOff(node, d) \in Nodes
  BY DEF StreamOff
<1>5. QED
  BY <1>1, <1>2, <1>3, <1>4

\* So it does when a file is opened and its buffers are mapped.
LEMMA FileTypes ==
  ASSUME NEW node \in Nodes, NEW s \in Surfaces, NEW n \in 0..BufferCount
  PROVE  /\ Open(node, s) \in Nodes /\ Request(node, s) \in Nodes
         /\ Mmap(node, s, n) \in Nodes
<1> USE DEF Nodes
<1>1. Open(node, s) \in Nodes
  BY DEF Open
<1>2. Request(node, s) \in Nodes
  BY DEF Request, Handles
<1>3. Mmap(node, s, n) \in Nodes
  <2>1. Buffers(s, n) \subseteq Surfaces \X Indexes
    BY SingleAssumption DEF Buffers, Indexes
  <2>2. node.maps \cup Buffers(s, n) \in SUBSET (Surfaces \X Indexes)
    BY <2>1
  <2>3. QED
    BY <2>2 DEF Mmap
<1>4. QED
  BY <1>1, <1>2, <1>3

\* Nothing is undefined in stopping a library in its initial state.
LEMMA VirginStops ==
  ASSUME NEW c, Virgin(c)
  PROVE  Misuse(c) = {}
<1>1. Buffers(c.buffers, c.n) = {}
  BY DEF Virgin, Buffers
<1>2. QED
  BY <1>1 DEF Virgin, Misuse

\* A call that fails leaves the camera as it was when it failed.
LEMMA FailResult ==
  ASSUME NEW c, NEW step, NEW r \in Fail(c, step)
  PROVE  r = [card |-> c, ok |-> FALSE]
BY Zenon DEF Fail, Result

\* An empty library fails as it is.
LEMMA EmptyFails ==
  ASSUME NEW c \in Cards, Empty(c), NEW s \in Surfaces
  PROVE  Failed(c, c, s) /\ (Virgin(c) => Misuse(c) = {})
<1>1. Tidy(c)
  BY DEF Empty, Tidy
<1>2. Virgin(c) => Misuse(c) = {}
  BY VirginStops
<1>3. QED
  BY <1>1, <1>2 DEF Failed

\* opendevice.
LEMMA OpenDevice ==
  ASSUME NEW c \in Cards, Empty(c), NEW s \in Surfaces, NEW r \in opendevice(c, s)
  PROVE  /\ r \in Results /\ r.card.buffers = c.buffers
         /\ r.card.n = c.n /\ r.card.rgb = c.rgb
         /\ IF r.ok THEN Opened(r.card, s) ELSE Empty(r.card)
<1>1. CASE r \in Fail(c, "stat")
  <2>1. r = [card |-> c, ok |-> FALSE]
    BY <1>1, FailResult
  <2>2. QED
    BY <2>1 DEF Results
<1>2. CASE r \in Fail([c EXCEPT !.fd = None], "open")
  <2>1. r = [card |-> [c EXCEPT !.fd = None], ok |-> FALSE]
    BY <1>2, FailResult
  <2>2. QED
    BY <2>1 DEF Results, Empty, Cards, Handles
<1>3. CASE r = Result([c EXCEPT !.fd = s, !.node = Open(c.node, s)], TRUE)
  <2>1. Open(c.node, s) \in Nodes
    BY FileTypes, SurfacesFacts DEF Cards
  <2>2. /\ Open(c.node, s).fds = {s} /\ Open(c.node, s).maps = {}
        /\ Open(c.node, s).queued = {}
    BY DEF Open, Empty, Cards, Nodes
  <2>3. QED
    BY <1>3, <2>1, <2>2, SurfacesFacts DEF Result, Results, Cards, Empty, Opened
<1>4. QED
  BY <1>1, <1>2, <1>3 DEF opendevice

\* initmmap maps every buffer, or fails and keeps what it has mapped.
LEMMA InitMmap ==
  ASSUME NEW c \in Cards, NEW s \in Surfaces, Opened(c, s), NEW r \in initmmap(c, s)
  PROVE  /\ r \in Results /\ r.card.rgb = c.rgb
         /\ IF r.ok THEN Mapped(r.card, s) ELSE Failed(c, r.card, s)
<1> DEFINE q == [c EXCEPT !.node = Request(c.node, c.fd)]
           M(n) == [q EXCEPT !.buffers = s, !.n = n,
                             !.heap = @ \cup {<<"buffers", s>>},
                             !.node = Mmap(q.node, c.fd, n)]
           counts == Fail(q, "count")
           callocs == Fail([q EXCEPT !.buffers = None], "calloc")
           mmaps == UNION {Fail(M(n), "mmap") : n \in 0..(BufferCount - 1)}
           done == Result(M(BufferCount), TRUE)
<1>1. q \in Cards /\ Opened(q, s)
  <2>1. Request(c.node, s) \in Nodes
    BY FileTypes, SurfacesFacts DEF Cards
  <2>2. /\ Request(c.node, s).fds = {s} /\ Request(c.node, s).maps = {}
        /\ Request(c.node, s).queued = {}
    BY DEF Request, Opened, Cards, Nodes
  <2>3. QED
    BY <2>1, <2>2 DEF Opened, Cards
<1>2. q.buffers = c.buffers /\ q.n = c.n /\ q.rgb = c.rgb
  BY DEF Cards
<1> HIDE DEF q
<1>3. ASSUME NEW n \in 0..BufferCount
      PROVE  /\ M(n) \in Cards /\ M(n).fd = s /\ M(n).buffers = s /\ M(n).n = n
             /\ M(n).rgb = c.rgb /\ M(n).heap = {<<"buffers", s>>}
             /\ M(n).node.fds = {s} /\ M(n).node.maps = Buffers(s, n)
             /\ M(n).node.queued = {}
  <2>1. Mmap(q.node, s, n) \in Nodes
    BY <1>1, FileTypes, SurfacesFacts DEF Cards
  <2>2. /\ Mmap(q.node, s, n).fds = {s} /\ Mmap(q.node, s, n).maps = Buffers(s, n)
        /\ Mmap(q.node, s, n).queued = {}
    BY <1>1 DEF Mmap, Opened, Cards, Nodes
  <2>3. q.heap \cup {<<"buffers", s>>} = {<<"buffers", s>>} /\ c.fd = s
    BY <1>1 DEF Opened
  <2>4. /\ M(n).fd = s /\ M(n).buffers = s /\ M(n).n = n /\ M(n).rgb = q.rgb
        /\ M(n).heap = {<<"buffers", s>>} /\ M(n).node = Mmap(q.node, s, n)
    BY <1>1, <2>3 DEF Cards, Opened
  <2>5. q.heap \cup {<<"buffers", s>>} \in SUBSET ({"rgb", "buffers"} \X Surfaces)
    BY <1>1 DEF Cards
  <2>6. c.fd = s
    BY DEF Opened
  <2>7. M(n) \in Cards
    BY <1>1, <2>1, <2>5, <2>6, SurfacesFacts DEF Cards
  <2>8. QED
    BY <1>2, <2>2, <2>4, <2>7
<1>4. CASE r \in counts
  <2>1. r = [card |-> q, ok |-> FALSE]
    BY <1>4, FailResult
  <2>2. Tidy(q)
    BY <1>1 DEF Tidy, Opened
  <2>3. Virgin(c) => Misuse(q) = {} /\ Virgin(q)
    BY <1>2, VirginStops DEF Virgin
  <2>4. QED
    BY <1>1, <1>2, <2>1, <2>2, <2>3 DEF Results, Failed
<1>5. CASE r \in callocs
  <2> DEFINE d == [q EXCEPT !.buffers = None]
  <2>1. r = [card |-> d, ok |-> FALSE]
    BY <1>5, FailResult
  <2>2. d \in Cards /\ Opened(d, s) /\ d.buffers = None /\ d.n = c.n /\ d.rgb = c.rgb
    BY <1>1, <1>2 DEF Cards, Handles, Opened
  <2> HIDE DEF d
  <2>3. Tidy(d)
    BY <2>2 DEF Tidy, Opened
  <2>4. Virgin(c) => Misuse(d) = {} /\ Virgin(d)
    BY <2>2, VirginStops DEF Virgin
  <2>5. QED
    BY <2>1, <2>2, <2>3, <2>4 DEF Results, Failed
<1>6. CASE r \in mmaps
  <2>1. PICK n \in 0..(BufferCount - 1) : r \in Fail(M(n), "mmap")
    BY <1>6, Zenon
  <2>2. r = [card |-> M(n), ok |-> FALSE]
    BY <2>1, FailResult
  <2>3. n \in 0..BufferCount
    BY SingleAssumption
  <2> DEFINE d == M(n)
  <2>4. /\ d \in Cards /\ d.buffers = s /\ d.n = n /\ d.rgb = c.rgb /\ d.fd = s
        /\ d.heap = {<<"buffers", s>>} /\ d.node.fds = {s}
        /\ d.node.maps = Buffers(s, n)
    BY <1>3, <2>3
  <2>5. r = [card |-> d, ok |-> FALSE]
    BY <2>2
  <2> HIDE DEF d
  <2>6. Tidy(d)
    BY <2>4 DEF Tidy
  <2>7. Virgin(c) => Misuse(d) = {}
    BY <2>4, SurfacesFacts DEF Virgin, Misuse
  <2>8. QED
    BY <2>4, <2>5, <2>6, <2>7, SurfacesFacts DEF Results, Failed
<1>7. CASE r = done
  <2>1. r = [card |-> M(BufferCount), ok |-> TRUE]
    BY <1>7 DEF Result
  <2>2. QED
    BY <1>3, <2>1, SurfacesFacts DEF Results, Mapped
<1>8. initmmap(c, s) = counts \cup callocs \cup mmaps \cup {done}
  BY DEF initmmap, q
<1> HIDE DEF counts, callocs, mmaps, done
<1>9. r \in counts \/ r \in callocs \/ r \in mmaps \/ r = done
  BY <1>8
<1>10. QED
  BY <1>4, <1>5, <1>6, <1>7, <1>9

\* So does initdevice.
LEMMA InitDevice ==
  ASSUME NEW c \in Cards, NEW s \in Surfaces, Opened(c, s), NEW r \in initdevice(c, s)
  PROVE  /\ r \in Results /\ r.card.rgb = c.rgb
         /\ IF r.ok THEN Mapped(r.card, s) ELSE Failed(c, r.card, s)
<1>1. CASE r \in Fail(c, "init") \/ r = Result(c, FALSE)
  <2>1. r = [card |-> c, ok |-> FALSE]
    BY <1>1, FailResult DEF Result
  <2>2. Tidy(c)
    BY DEF Tidy, Opened
  <2>3. Virgin(c) => Misuse(c) = {}
    BY VirginStops
  <2>4. QED
    BY <2>1, <2>2, <2>3 DEF Results, Failed
<1>2. CASE r \in initmmap(c, s)
  BY <1>2, InitMmap
<1>3. QED
  BY <1>1, <1>2 DEF initdevice

\* Stopping what is tidy leaves nothing, whatever was there.
LEMMA Resets ==
  ASSUME NEW c \in Cards, Tidy(c)
  PROVE  LET d == closedevice(uninitdevice(stopcapturing(c)))
         IN  /\ d \in Cards /\ d.fd = None
             /\ d.buffers = c.buffers /\ d.n = c.n /\ d.rgb = c.rgb
             /\ d.heap = c.heap \ {<<"buffers", c.buffers>>}
             /\ d.node.fds = {} /\ d.node.maps = {} /\ d.node.queued = {}
<1> DEFINE a == stopcapturing(c)
           b == uninitdevice(a)
           d == closedevice(b)
<1>1. /\ a \in Cards /\ a.fd = c.fd /\ a.buffers = c.buffers /\ a.n = c.n
      /\ a.rgb = c.rgb /\ a.heap = c.heap
      /\ a.node.fds = c.node.fds /\ a.node.maps = c.node.maps
  <2>1. StreamOff(c.node, c.fd) \in Nodes
    BY NodeTypes, SurfacesFacts DEF Cards
  <2>2. /\ StreamOff(c.node, c.fd).fds = c.node.fds
        /\ StreamOff(c.node, c.fd).maps = c.node.maps
    BY DEF StreamOff, Cards, Nodes
  <2>3. QED
    BY <2>1, <2>2 DEF stopcapturing, Cards
<1> HIDE DEF a
<1>2. /\ b \in Cards /\ b.fd = c.fd /\ b.buffers = c.buffers /\ b.n = c.n
      /\ b.rgb = c.rgb /\ b.heap = c.heap \ {<<"buffers", c.buffers>>}
      /\ b.node.fds = c.node.fds /\ b.node.maps = {}
  <2> DEFINE node == Munmap(a.node, a.buffers, a.n)
  <2>1. node \in Nodes
    BY <1>1, NodeTypes, SurfacesFacts DEF Cards
  <2>2. node.fds = c.node.fds /\ node.maps = {}
    <3>1. a.node.maps \ Buffers(a.buffers, a.n) = {}
      BY <1>1 DEF Tidy
    <3>2. QED
      BY <1>1, <3>1 DEF Munmap, Released, Cards, Nodes
  <2> HIDE DEF node
  <2>3. b = [a EXCEPT !.node = node, !.heap = @ \ {<<"buffers", a.buffers>>}]
    BY DEF uninitdevice, node
  <2>4. QED
    BY <1>1, <2>1, <2>2, <2>3 DEF Cards
<1> HIDE DEF b
<1>3. /\ d \in Cards /\ d.fd = None /\ d.buffers = c.buffers /\ d.n = c.n
      /\ d.rgb = c.rgb /\ d.heap = c.heap \ {<<"buffers", c.buffers>>}
      /\ d.node.fds = {} /\ d.node.maps = {} /\ d.node.queued = {}
  <2> DEFINE node == Close(b.node, b.fd)
  <2>1. node \in Nodes
    BY <1>2, NodeTypes, SurfacesFacts DEF Cards
  <2>2. node.fds = {} /\ node.maps = {} /\ node.queued = {}
    <3>1. b.node.fds \ {b.fd} = {}
      BY <1>2 DEF Tidy
    <3> DEFINE e == [b.node EXCEPT !.fds = @ \ {b.fd}]
    <3>2. e \in Nodes /\ e.fds = {} /\ e.maps = {}
      BY <1>2, <3>1 DEF Cards, Nodes
    <3>3. node = Released(e)
      BY DEF Close
    <3> HIDE DEF e
    <3>4. Files(e) = {}
      BY <3>2 DEF Files
    <3>5. QED
      BY <3>2, <3>3, <3>4 DEF Released, Nodes
  <2> HIDE DEF node
  <2>3. d = [b EXCEPT !.node = node, !.fd = None]
    BY DEF closedevice, node
  <2>4. QED
    BY <1>2, <2>1, <2>2, <2>3 DEF Cards, Handles
<1>4. QED
  BY <1>3 DEF a, b

\* startcapturing gives the driver every buffer, or resets the camera.
LEMMA StartCapturing ==
  ASSUME NEW c \in Cards, NEW s \in Surfaces, Mapped(c, s), NEW r \in startcapturing(c)
  PROVE  /\ r \in Results /\ r.card.rgb = c.rgb /\ r.card.buffers = s
         /\ IF r.ok
              THEN /\ r.card.fd = s /\ r.card.n = BufferCount
                   /\ r.card.heap = {<<"buffers", s>>}
                   /\ r.card.node.fds = {s}
                   /\ r.card.node.maps = Buffers(s, BufferCount)
                   /\ r.card.node.queued \subseteq 0..(BufferCount - 1)
              ELSE r.card.fd = None /\ Tidy(r.card)
<1> DEFINE Q(n) == [c EXCEPT !.node = Queue(c.node, 0..(n - 1))]
           Reset(d) == closedevice(uninitdevice(stopcapturing(d)))
           starts == UNION {Fail(Reset(Q(n)), "start") : n \in 0..c.n}
           done == Result([Q(c.n) EXCEPT !.node = StreamOn(Q(c.n).node)], TRUE)
<1>1. c.n = BufferCount /\ c.buffers = s /\ c.fd = s
  BY DEF Mapped
<1>2. ASSUME NEW n \in 0..BufferCount
      PROVE  /\ Q(n) \in Cards /\ Q(n).fd = s /\ Q(n).buffers = s
             /\ Q(n).n = BufferCount /\ Q(n).rgb = c.rgb
             /\ Q(n).heap = {<<"buffers", s>>} /\ Q(n).node.fds = {s}
             /\ Q(n).node.maps = Buffers(s, BufferCount)
             /\ Q(n).node.queued = 0..(n - 1)
  <2>1. 0..(n - 1) \subseteq Indexes
    BY SingleAssumption DEF Indexes
  <2>2. /\ Queue(c.node, 0..(n - 1)) \in Nodes
        /\ Queue(c.node, 0..(n - 1)).fds = c.node.fds
        /\ Queue(c.node, 0..(n - 1)).maps = c.node.maps
        /\ Queue(c.node, 0..(n - 1)).queued = c.node.queued \cup 0..(n - 1)
    BY <2>1 DEF Queue, Cards, Nodes
  <2>3. QED
    BY <2>2 DEF Cards, Mapped
<1>3. CASE r \in starts
  <2>1. PICK n \in 0..BufferCount : r \in Fail(Reset(Q(n)), "start")
    BY <1>1, <1>3, Zenon
  <2> DEFINE q == Q(n)
  <2>2. /\ q \in Cards /\ q.fd = s /\ q.buffers = s /\ q.n = BufferCount
        /\ q.rgb = c.rgb /\ q.heap = {<<"buffers", s>>} /\ q.node.fds = {s}
        /\ q.node.maps = Buffers(s, BufferCount)
    BY <1>2
  <2>3. r = [card |-> Reset(q), ok |-> FALSE]
    BY <2>1, FailResult
  <2> HIDE DEF q
  <2>4. Tidy(q)
    BY <2>2 DEF Tidy
  <2> DEFINE d == Reset(q)
  <2>5. /\ d \in Cards /\ d.fd = None /\ d.buffers = q.buffers /\ d.rgb = q.rgb
        /\ d.heap = q.heap \ {<<"buffers", q.buffers>>}
        /\ d.node.fds = {} /\ d.node.maps = {}
    BY <2>2, <2>4, Resets
  <2>6. r = [card |-> d, ok |-> FALSE]
    BY <2>3
  <2> HIDE DEF d
  <2>7. Tidy(d)
    BY <2>2, <2>5 DEF Tidy
  <2>8. QED
    BY <2>2, <2>5, <2>6, <2>7 DEF Results
<1>4. CASE r = done
  <2> DEFINE q == Q(c.n)
  <2>1. /\ q \in Cards /\ q.fd = s /\ q.buffers = s
        /\ q.n = BufferCount /\ q.rgb = c.rgb
        /\ q.heap = {<<"buffers", s>>} /\ q.node.fds = {s}
        /\ q.node.maps = Buffers(s, BufferCount)
        /\ q.node.queued = 0..(BufferCount - 1)
    BY <1>1, <1>2, SurfacesFacts
  <2>2. r = [card |-> [q EXCEPT !.node = StreamOn(q.node)], ok |-> TRUE]
    BY <1>4 DEF Result
  <2> HIDE DEF q
  <2>3. /\ StreamOn(q.node) \in Nodes
        /\ StreamOn(q.node).fds = q.node.fds
        /\ StreamOn(q.node).maps = q.node.maps
        /\ StreamOn(q.node).queued = q.node.queued
    BY <2>1 DEF StreamOn, Cards, Nodes
  <2>4. QED
    BY <2>1, <2>2, <2>3 DEF Cards, Results
<1>5. startcapturing(c) = starts \cup {done}
  BY DEF startcapturing
<1> HIDE DEF starts, done
<1>6. r \in starts \/ r = done
  BY <1>5
<1>7. QED
  BY <1>3, <1>4, <1>6

\* prepareCamera makes an empty library ready, or fails.
LEMMA Prepared ==
  ASSUME NEW c \in Cards, Empty(c), NEW s \in Surfaces, NEW r \in prepared(c, s)
  PROVE  /\ r \in Results /\ Tidy(r.card)
         /\ IF r.ok THEN Ready(r.card) /\ r.card.buffers = s
                    ELSE Failed(c, r.card, s)
<1> DEFINE opened == IF plugged THEN opendevice(c, s) ELSE {Result(c, FALSE)}
           Inits(x) == IF x.ok THEN initdevice(x.card, s) ELSE {x}
           Starts(y) == IF y.ok THEN startcapturing(y.card) ELSE {y}
           P(z) == IF z.ok
             THEN Result([z.card EXCEPT !.rgb = s, !.heap = @ \cup {<<"rgb", s>>}], TRUE)
             ELSE z
           inited == UNION {Inits(x) : x \in opened}
           started == UNION {Starts(y) : y \in inited}
<1>1. r \in {P(z) : z \in started}
  BY Zenon DEF prepared
<1> HIDE DEF P, started
<1>2. PICK z \in started : r = P(z)
  BY <1>1, Zenon
<1> HIDE DEF Starts, inited
<1>3. PICK y \in inited : z \in Starts(y)
  BY <1>2, Zenon DEF started
<1> HIDE DEF Inits, opened
<1>4. PICK x \in opened : y \in Inits(x)
  BY <1>3, Zenon DEF inited
<1>5. /\ x \in Results /\ x.card.buffers = c.buffers
      /\ x.card.n = c.n /\ x.card.rgb = c.rgb
      /\ IF x.ok THEN Opened(x.card, s) ELSE Empty(x.card)
  <2>1. CASE plugged
    BY <2>1, <1>4, OpenDevice DEF opened
  <2>2. CASE ~plugged
    <3>1. x = [card |-> c, ok |-> FALSE]
      BY <2>2, <1>4 DEF opened, Result
    <3>2. QED
      BY <3>1 DEF Results
  <2>3. QED
    BY <2>1, <2>2
<1>6. Virgin(c) => Virgin(x.card)
  BY <1>5 DEF Virgin
<1>7. /\ y \in Results /\ y.card.rgb = c.rgb
      /\ IF y.ok THEN Mapped(y.card, s) ELSE Failed(c, y.card, s)
  <2>1. CASE x.ok
    <3>1. /\ y \in Results /\ y.card.rgb = x.card.rgb
          /\ IF y.ok THEN Mapped(y.card, s) ELSE Failed(x.card, y.card, s)
      BY <2>1, <1>4, <1>5, InitDevice DEF Inits, Results
    <3>2. QED
      BY <3>1, <1>5, <1>6 DEF Failed
  <2>2. CASE ~x.ok
    <3>1. y = x
      BY <2>2, <1>4 DEF Inits
    <3>2. x.card \in Cards /\ Failed(x.card, x.card, s)
      BY <2>2, <1>5, EmptyFails DEF Results
    <3>3. QED
      BY <2>2, <3>1, <3>2, <1>5, <1>6 DEF Failed
  <2>3. QED
    BY <2>1, <2>2
<1>8. CASE y.ok
  <2>1. /\ z \in Results /\ z.card.rgb = c.rgb /\ z.card.buffers = s
        /\ IF z.ok
             THEN /\ z.card.fd = s /\ z.card.n = BufferCount
                  /\ z.card.heap = {<<"buffers", s>>}
                  /\ z.card.node.fds = {s}
                  /\ z.card.node.maps = Buffers(s, BufferCount)
                  /\ z.card.node.queued \subseteq 0..(BufferCount - 1)
             ELSE z.card.fd = None /\ Tidy(z.card)
    BY <1>3, <1>7, <1>8, StartCapturing DEF Starts, Results
  <2>2. CASE z.ok
    <3> DEFINE h == z.card.heap \cup {<<"rgb", s>>}
               d == [z.card EXCEPT !.rgb = s, !.heap = h]
    <3>1. r = [card |-> d, ok |-> TRUE]
      BY <1>2, <2>2 DEF P, Result
    <3>2. h \in SUBSET ({"rgb", "buffers"} \X Surfaces)
      BY <2>1 DEF Results, Cards
    <3>3. h = {<<"buffers", s>>, <<"rgb", s>>}
      BY <2>1, <2>2
    <3> HIDE DEF h
    <3>4. /\ d \in Cards /\ d.fd = s /\ d.buffers = s /\ d.n = BufferCount
          /\ d.rgb = s /\ d.heap = h /\ d.node = z.card.node
      BY <2>1, <2>2, <3>2, SurfacesFacts DEF Results, Cards
    <3> HIDE DEF d
    <3>5. Tidy(d)
      BY <2>1, <2>2, <3>3, <3>4 DEF Tidy
    <3>6. Ready(d)
      BY <2>1, <2>2, <3>3, <3>4, SurfacesFacts DEF Ready
    <3>7. QED
      BY <3>1, <3>4, <3>5, <3>6 DEF Results
  <2>3. CASE ~z.ok
    <3>1. r = z
      BY <1>2, <2>3 DEF P
    <3>2. QED
      BY <2>1, <2>3, <3>1 DEF Failed
  <2>4. QED
    BY <2>2, <2>3
<1>9. CASE ~y.ok
  <2>1. z = y
    BY <1>3, <1>9 DEF Starts
  <2>2. r = y
    BY <1>2, <1>9, <2>1 DEF P
  <2>3. QED
    BY <1>7, <1>9, <2>2 DEF Failed
<1>10. QED
  BY <1>8, <1>9

\* stopCamera empties a tidy library, and keeps the pointers.
LEMMA Stopped ==
  ASSUME NEW c \in Cards, Tidy(c)
  PROVE  /\ stopped(c) \in Cards /\ Empty(stopped(c)) /\ Tidy(stopped(c))
         /\ stopped(c).buffers = c.buffers /\ stopped(c).n = c.n
         /\ stopped(c).rgb = c.rgb
<1> DEFINE d == closedevice(uninitdevice(stopcapturing(c)))
           h == d.heap \ {<<"rgb", c.rgb>>}
<1>1. /\ d \in Cards /\ d.fd = None /\ d.buffers = c.buffers /\ d.n = c.n
      /\ d.rgb = c.rgb /\ d.heap = c.heap \ {<<"buffers", c.buffers>>}
      /\ d.node.fds = {} /\ d.node.maps = {} /\ d.node.queued = {}
  BY Resets
<1>2. stopped(c) = [d EXCEPT !.heap = h]
  BY DEF stopped
<1> HIDE DEF d
<1>3. h = {}
  BY <1>1 DEF Tidy
<1> HIDE DEF h
<1>4. QED
  BY <1>1, <1>2, <1>3 DEF Cards, Empty, Tidy

-----------------------------------------------------------------------------
\* The thread of the surface there is, and no other, uses the camera, and it
\* has ended when the main thread has waited for it.
Turns ==
  /\ \A k \in Surfaces : InLoop(k) =>
       /\ k = made /\ surface /\ cameraExists
       /\ mpc = "idle" \/ (mpc = "wait" /\ shouldStop)
  /\ shouldStop => mpc = "wait"
  /\ mpc # "idle" => surface

\* The camera of a surface can be stopped and, if there is a thread, used.
Safe ==
  /\ undefined = {}
  /\ card.buffers = None => Virgin(card)
  /\ cameraExists => card.buffers # None
  /\ surface => Misuse(card) = {}
  /\ surface /\ cameraExists => Ready(card)
  /\ \A k \in Surfaces : tpc[k] = "convert" => buf[k] < card.n

IInv ==
  /\ TypeOK
  /\ Tidy(card)
  /\ ~surface => Empty(card)
  /\ Turns
  /\ strayed = {} => Safe

\* What is ready can be stopped.
LEMMA ReadyStops ==
  ASSUME NEW c, Ready(c)
  PROVE  Misuse(c) = {} \/ c.buffers = None
BY DEF Ready, Misuse

\* The invariant holds at the start.
LEMMA IInvInit == Init => IInv
<1> SUFFICES ASSUME Init PROVE IInv
  OBVIOUS
<1>1. NewCard \in Cards /\ Tidy(NewCard) /\ Empty(NewCard) /\ Virgin(NewCard)
  BY SurfacesFacts DEF NewCard, Cards, Nodes, NewNode, Handles, Tidy, Empty, Virgin
<1>2. 0 \in Indexes /\ 0 \in 0..MaxSurfaces
  BY SingleAssumption DEF Indexes
<1>3. TypeOK
  BY <1>1, <1>2 DEF Init, TypeOK
<1>4. Turns /\ Safe
  BY <1>1 DEF Init, Turns, InLoop, Safe
<1>5. QED
  BY <1>1, <1>3, <1>4 DEF Init, IInv

\* A new surface gets the camera ready and a thread, or finds the library
\* unprepared for the failure, or is left without both.
LEMMA CreatedKeeps == IInv /\ SurfaceCreated => IInv'
<1> SUFFICES ASSUME IInv, SurfaceCreated PROVE IInv'
  OBVIOUS
<1> DEFINE s == made + 1
<1>1. /\ mpc = "idle" /\ ~surface /\ made < MaxSurfaces
      /\ made' = s /\ surface' = TRUE
      /\ UNCHANGED <<plugged, mpc, shouldStop, buf, undefined>>
  BY DEF SurfaceCreated
<1>2. PICK r \in prepared(card, s) :
        /\ card' = r.card
        /\ cameraExists' = (cameraExists \/ r.ok)
        /\ strayed' = strayed
             \cup (IF ~r.ok /\ card.buffers # None THEN {"again"} ELSE {})
             \cup (IF ~r.ok /\ r.card.buffers = s /\ r.card.fd = None
                     THEN {"start"} ELSE {})
  BY Zenon DEF SurfaceCreated
<1>3. tpc' = [tpc EXCEPT ![s] = IF cameraExists' THEN "select" ELSE @]
  BY DEF SurfaceCreated
<1>4. TypeOK /\ Empty(card) /\ Turns /\ card \in Cards
  BY <1>1 DEF IInv, TypeOK
<1>5. made \in Nat /\ MaxSurfaces \in Nat /\ s \in Surfaces /\ s \in 0..MaxSurfaces
  BY <1>1, <1>4, SingleAssumption DEF TypeOK, Surfaces
<1> HIDE DEF s
<1>6. /\ r \in Results /\ Tidy(r.card)
      /\ IF r.ok THEN Ready(r.card) /\ r.card.buffers = s
                 ELSE Failed(card, r.card, s)
  BY <1>4, <1>5, Prepared
<1>7. /\ \A k \in Surfaces : ~InLoop(k) /\ (k # s => tpc'[k] = tpc[k])
      /\ tpc'[s] = IF cameraExists' THEN "select" ELSE tpc[s]
      /\ tpc \in [Surfaces -> {"none", "select", "dequeue", "convert", "copy",
                               "test", "ended"}]
  BY <1>1, <1>3, <1>4, <1>5 DEF Turns, TypeOK
<1>8. TypeOK'
  <2>1. card' \in Cards /\ cameraExists' \in BOOLEAN
    BY <1>2, <1>4, <1>6 DEF Results, TypeOK
  <2>2. tpc' \in [Surfaces -> {"none", "select", "dequeue", "convert", "copy",
                               "test", "ended"}]
    BY <1>3, <1>5, <1>7
  <2>3. strayed' \subseteq {"again", "start"}
    BY <1>2, <1>4 DEF TypeOK
  <2>4. QED
    BY <1>1, <1>4, <1>5, <2>1, <2>2, <2>3 DEF TypeOK
<1>9. Turns'
  <2>1. ASSUME NEW k \in Surfaces, InLoop(k)' PROVE k = s /\ cameraExists'
    BY <2>1, <1>7 DEF InLoop
  <2>2. ~shouldStop
    BY <1>1, <1>4 DEF Turns
  <2>3. QED
    BY <1>1, <2>1, <2>2 DEF Turns
<1>10. ASSUME strayed' = {} PROVE Safe'
  <2>1. strayed = {} /\ Safe
    BY <1>2, <1>10 DEF IInv
  <2>2. ~r.ok => card.buffers = None /\ ~(r.card.buffers = s /\ r.card.fd = None)
    BY <1>2, <1>10
  <2>3. ~r.ok => ~cameraExists /\ Virgin(card)
    BY <2>1, <2>2 DEF Safe
  <2>4. ~r.ok => Misuse(r.card) = {} /\ (r.card.buffers = None => Virgin(r.card))
    BY <1>6, <2>2, <2>3 DEF Failed
  <2>5. r.ok => Misuse(r.card) = {} /\ r.card.buffers # None
    BY <1>5, <1>6, ReadyStops, SurfacesFacts
  <2>6. \A k \in Surfaces : tpc'[k] # "convert"
    BY <1>7 DEF InLoop
  <2>7. cameraExists' => r.ok
    BY <1>2, <2>3
  <2>8. QED
    BY <1>1, <1>2, <1>6, <2>1, <2>4, <2>5, <2>6, <2>7 DEF Safe
<1>11. QED
  BY <1>1, <1>2, <1>6, <1>8, <1>9, <1>10 DEF IInv

\* The main thread asks the thread to stop, and sees that it has.
LEMMA WaitKeeps == IInv /\ (SurfaceDestroyed \/ Waited) => IInv'
<1> SUFFICES ASSUME IInv, SurfaceDestroyed \/ Waited PROVE IInv'
  OBVIOUS
<1>1. UNCHANGED <<card, plugged, made, surface, cameraExists, tpc, buf,
                  undefined, strayed>>
  BY DEF SurfaceDestroyed, Waited
<1>2. CASE SurfaceDestroyed
  <2>1. /\ mpc = "idle" /\ surface
        /\ cameraExists => shouldStop' = TRUE /\ mpc' = "wait"
        /\ ~cameraExists => mpc' = "stop" /\ shouldStop' = shouldStop
    BY <1>2 DEF SurfaceDestroyed
  <2>2. TypeOK'
    BY <1>1, <2>1 DEF IInv, TypeOK
  <2>3. Turns'
    BY <1>1, <2>1 DEF IInv, Turns, InLoop
  <2>4. QED
    BY <1>1, <2>2, <2>3 DEF IInv, Safe
<1>3. CASE Waited
  <2>1. mpc = "wait" /\ ~shouldStop /\ mpc' = "stop" /\ shouldStop' = shouldStop
    BY <1>3 DEF Waited
  <2>2. TypeOK'
    BY <1>1, <2>1 DEF IInv, TypeOK
  <2>3. Turns'
    BY <1>1, <2>1 DEF IInv, Turns, InLoop
  <2>4. QED
    BY <1>1, <2>2, <2>3 DEF IInv, Safe
<1>4. QED
  BY <1>2, <1>3

\* stopCamera is defined, and empties the library.
LEMMA StopKeeps == IInv /\ StopCamera => IInv'
<1> SUFFICES ASSUME IInv, StopCamera PROVE IInv'
  OBVIOUS
<1>1. /\ mpc = "stop" /\ mpc' = "idle" /\ surface' = FALSE
      /\ undefined' = undefined \cup Misuse(card) /\ card' = stopped(card)
      /\ UNCHANGED <<plugged, made, cameraExists, shouldStop, tpc, buf, strayed>>
  BY DEF StopCamera
<1>2. surface /\ ~shouldStop /\ \A k \in Surfaces : ~InLoop(k)
  BY <1>1 DEF IInv, Turns
<1>3. /\ card' \in Cards /\ Empty(card') /\ Tidy(card')
      /\ card'.buffers = card.buffers /\ card'.n = card.n /\ card'.rgb = card.rgb
  BY <1>1, Stopped DEF IInv, TypeOK
<1>4. undefined' \subseteq Undefined
  BY <1>1 DEF IInv, TypeOK, Undefined, Misuse
<1>5. TypeOK'
  BY <1>1, <1>3, <1>4 DEF IInv, TypeOK
<1>6. Turns'
  BY <1>1, <1>2 DEF Turns, InLoop
<1>7. strayed' = {} => Safe'
  BY <1>1, <1>2, <1>3 DEF IInv, Safe, Virgin, InLoop
<1>8. QED
  BY <1>3, <1>5, <1>6, <1>7 DEF IInv

Looping == {"select", "dequeue", "convert", "copy", "test"}

\* A thread that is in its loop takes a step: the camera is its own, and it is
\* ready if nothing has strayed.
LEMMA StepFacts ==
  ASSUME IInv, NEW k \in Surfaces, NEW from \in Looping,
         NEW to \in Looping \cup {"ended"}, ThreadStep(k, from, to)
  PROVE  /\ tpc[k] = from /\ tpc'[k] = to
         /\ \A j \in Surfaces : j # k => tpc'[j] = tpc[j]
         /\ \A j \in Surfaces : InLoop(j)' => InLoop(j)
         /\ tpc' \in [Surfaces -> {"none", "select", "dequeue", "convert", "copy",
                                   "test", "ended"}]
         /\ surface /\ cameraExists /\ (strayed = {} => Safe /\ Ready(card))
         /\ UNCHANGED <<plugged, mpc, made, surface, cameraExists, strayed>>
<1>1. /\ tpc[k] = from /\ tpc' = [tpc EXCEPT ![k] = to]
      /\ UNCHANGED <<plugged, mpc, made, surface, cameraExists, strayed>>
  BY DEF ThreadStep, mainvars
<1>2. tpc \in [Surfaces -> {"none", "select", "dequeue", "convert", "copy",
                            "test", "ended"}]
  BY DEF IInv, TypeOK
<1>3. InLoop(k)
  BY <1>1 DEF InLoop, Looping
<1>4. surface /\ cameraExists /\ (strayed = {} => Safe /\ Ready(card))
  BY <1>3 DEF IInv, Turns, Safe
<1>5. /\ tpc'[k] = to /\ \A j \in Surfaces : j # k => tpc'[j] = tpc[j]
  BY <1>1, <1>2
<1>6. \A j \in Surfaces : InLoop(j)' => InLoop(j)
  BY <1>3, <1>5 DEF InLoop
<1>7. tpc' \in [Surfaces -> {"none", "select", "dequeue", "convert", "copy",
                             "test", "ended"}]
  BY <1>1, <1>2 DEF Looping
<1>8. QED
  BY <1>1, <1>4, <1>5, <1>6, <1>7

\* A step that leaves shouldStop alone, and of the camera changes at most
\* which buffers are queued, keeps the invariant if it is safe.
LEMMA StepKeeps ==
  ASSUME IInv, NEW k \in Surfaces, NEW from \in Looping, NEW to \in Looping,
         ThreadStep(k, from, to), shouldStop' = shouldStop,
         NEW S \in SUBSET Indexes, card' = [card EXCEPT !.node.queued = S],
         buf' \in [Surfaces -> Indexes], undefined' \subseteq Undefined,
         strayed = {} => /\ undefined' = {} /\ S \subseteq 0..(card.n - 1)
                         /\ \A j \in Surfaces : tpc'[j] = "convert" => buf'[j] < card.n
  PROVE  IInv'
<1>1. /\ \A j \in Surfaces : InLoop(j)' => InLoop(j)
      /\ tpc' \in [Surfaces -> {"none", "select", "dequeue", "convert", "copy",
                                "test", "ended"}]
      /\ surface /\ cameraExists /\ (strayed = {} => Safe /\ Ready(card))
      /\ UNCHANGED <<plugged, mpc, made, surface, cameraExists, strayed>>
  BY StepFacts
<1>2. card \in Cards /\ card.node \in Nodes /\ Tidy(card)
  BY DEF IInv, TypeOK, Cards
<1>3. /\ card'.fd = card.fd /\ card'.buffers = card.buffers /\ card'.n = card.n
      /\ card'.rgb = card.rgb /\ card'.heap = card.heap
      /\ card'.node = [card.node EXCEPT !.queued = S]
  BY <1>2 DEF Cards
<1>4. /\ card'.node \in Nodes /\ card'.node.fds = card.node.fds
      /\ card'.node.maps = card.node.maps /\ card'.node.queued = S
  BY <1>2, <1>3 DEF Nodes
<1>5. card' \in Cards
  BY <1>2, <1>4 DEF Cards
<1>6. Tidy(card')
  BY <1>2, <1>3, <1>4 DEF Tidy
<1>7. TypeOK'
  BY <1>1, <1>5 DEF IInv, TypeOK
<1>8. Turns'
  BY <1>1 DEF IInv, Turns
<1>9. ASSUME strayed' = {} PROVE Safe'
  <2>1. Safe /\ Ready(card) /\ strayed = {}
    BY <1>1, <1>9
  <2>2. Ready(card')
    BY <1>3, <1>4, <2>1 DEF Ready
  <2>3. Misuse(card') = {}
    BY <1>3, <1>4, <2>1, <1>1 DEF Safe, Misuse
  <2>4. QED
    BY <1>1, <1>3, <2>1, <2>2, <2>3 DEF Safe
<1>10. QED
  BY <1>1, <1>6, <1>7, <1>8, <1>9 DEF IInv

\* A step that leaves the camera and the buffers alone, too.
LEMMA QuietStepKeeps ==
  ASSUME IInv, NEW k \in Surfaces, NEW from \in Looping, NEW to \in Looping,
         ThreadStep(k, from, to), shouldStop' = shouldStop,
         card' = card, buf' = buf, undefined' \subseteq Undefined,
         strayed = {} => undefined' = {}, to # "convert"
  PROVE  IInv'
<1>1. /\ tpc'[k] = to /\ \A j \in Surfaces : j # k => tpc'[j] = tpc[j]
      /\ strayed = {} => Safe /\ Ready(card)
  BY StepFacts
<1>2. card \in Cards /\ card.node \in Nodes /\ card.node.queued \in SUBSET Indexes
  BY DEF IInv, TypeOK, Cards, Nodes
<1>3. card' = [card EXCEPT !.node.queued = card.node.queued]
  BY <1>2 DEF Cards, Nodes
<1>4. buf' \in [Surfaces -> Indexes]
  BY DEF IInv, TypeOK
<1>5. strayed = {} => \A j \in Surfaces : tpc'[j] = "convert" => buf'[j] < card.n
  BY <1>1 DEF Safe
<1>6. strayed = {} => card.node.queued \subseteq 0..(card.n - 1)
  BY <1>1 DEF Ready
<1>7. QED
  BY <1>2, <1>3, <1>4, <1>5, <1>6, StepKeeps

\* Waiting for a frame, and giving up.
LEMMA SelectKeeps ==
  ASSUME IInv, NEW k \in Surfaces,
         SelectTimeout(k) \/ SelectReady(k) \/ DequeueFails(k) \/ Copy(k)
  PROVE  IInv'
<1>1. undefined \subseteq Undefined
  BY DEF IInv, TypeOK
<1>2. CASE SelectTimeout(k)
  <2>1. /\ ThreadStep(k, "select", "copy")
        /\ undefined' = undefined \cup IF card.fd = None THEN {"wild fd"} ELSE {}
        /\ UNCHANGED <<card, shouldStop, buf>>
    BY <1>2 DEF SelectTimeout
  <2>2. strayed = {} => Safe /\ Ready(card)
    BY <2>1, StepFacts DEF Looping
  <2>3. strayed = {} => undefined' = {}
    BY <2>1, <2>2 DEF Safe, Ready
  <2>4. undefined' \subseteq Undefined
    BY <1>1, <2>1 DEF Undefined
  <2>5. "select" \in Looping /\ "copy" \in Looping
    BY DEF Looping
  <2>6. QED
    BY <2>1, <2>3, <2>4, <2>5, QuietStepKeeps
<1>3. CASE SelectReady(k)
  <2>1. ThreadStep(k, "select", "dequeue")
        /\ UNCHANGED <<card, shouldStop, buf, undefined>>
    BY <1>3 DEF SelectReady
  <2>2. strayed = {} => undefined' = {}
    BY <2>1 DEF IInv, Safe
  <2>3. "select" \in Looping /\ "dequeue" \in Looping
    BY DEF Looping
  <2>4. QED
    BY <1>1, <2>1, <2>2, <2>3, QuietStepKeeps
<1>4. CASE DequeueFails(k)
  <2>1. ThreadStep(k, "dequeue", "select")
        /\ UNCHANGED <<card, shouldStop, buf, undefined>>
    BY <1>4 DEF DequeueFails
  <2>2. strayed = {} => undefined' = {}
    BY <2>1 DEF IInv, Safe
  <2>3. "select" \in Looping /\ "dequeue" \in Looping
    BY DEF Looping
  <2>4. QED
    BY <1>1, <2>1, <2>2, <2>3, QuietStepKeeps
<1>5. CASE Copy(k)
  <2>1. /\ ThreadStep(k, "copy", "test")
        /\ undefined' = undefined \cup
             IF card.rgb = None \/ <<"rgb", card.rgb>> \in card.heap
               THEN {} ELSE {"freed rgb"}
        /\ UNCHANGED <<card, shouldStop, buf>>
    BY <1>5 DEF Copy
  <2>2. strayed = {} => Safe /\ Ready(card)
    BY <2>1, StepFacts DEF Looping
  <2>3. strayed = {} => undefined' = {}
    BY <2>1, <2>2 DEF Safe, Ready
  <2>4. undefined' \subseteq Undefined
    BY <1>1, <2>1 DEF Undefined
  <2>5. "copy" \in Looping /\ "test" \in Looping
    BY DEF Looping
  <2>6. QED
    BY <2>1, <2>3, <2>4, <2>5, QuietStepKeeps
<1>6. QED
  BY <1>2, <1>3, <1>4, <1>5

\* The buffer that is dequeued is one that was queued, and is known.
LEMMA DequeueKeeps ==
  ASSUME IInv, NEW k \in Surfaces, Dequeue(k)
  PROVE  IInv'
<1>1. PICK b \in card.node.queued :
        /\ buf' = [buf EXCEPT ![k] = b]
        /\ card' = [card EXCEPT !.node.queued = @ \ {b}]
        /\ undefined' = undefined \cup IF b < card.n THEN {} ELSE {"assert"}
  BY Zenon DEF Dequeue
<1>2. ThreadStep(k, "dequeue", "convert") /\ shouldStop' = shouldStop
  BY DEF Dequeue
<1>3. "dequeue" \in Looping /\ "convert" \in Looping
  BY DEF Looping
<1>4. /\ tpc'[k] = "convert" /\ \A j \in Surfaces : j # k => tpc'[j] = tpc[j]
      /\ strayed = {} => Safe /\ Ready(card)
  BY <1>2, <1>3, StepFacts
<1>5. /\ card.node.queued \subseteq Indexes /\ buf \in [Surfaces -> Indexes]
      /\ undefined \subseteq Undefined /\ card.n \in 0..BufferCount
      /\ card \in Cards /\ card.node \in Nodes
  BY DEF IInv, TypeOK, Cards, Nodes
<1> DEFINE S == card.node.queued \ {b}
<1>6. S \in SUBSET Indexes /\ card' = [card EXCEPT !.node.queued = S]
  BY <1>1, <1>5 DEF Cards, Nodes
<1>7. buf' \in [Surfaces -> Indexes] /\ undefined' \subseteq Undefined
  BY <1>1, <1>5 DEF Undefined
<1>8. ASSUME strayed = {}
      PROVE  /\ undefined' = {} /\ S \subseteq 0..(card.n - 1)
             /\ \A j \in Surfaces : tpc'[j] = "convert" => buf'[j] < card.n
  <2>1. card.node.queued \subseteq 0..(card.n - 1) /\ undefined = {}
        /\ \A j \in Surfaces : tpc[j] = "convert" => buf[j] < card.n
    BY <1>4, <1>8 DEF Ready, Safe
  <2>2. b < card.n
    BY <1>5, <2>1, SingleAssumption
  <2>3. QED
    BY <1>1, <1>4, <1>5, <2>1, <2>2
<1> HIDE DEF S
<1>9. QED
  BY <1>2, <1>3, <1>6, <1>7, <1>8, StepKeeps

\* The frame is read where it is mapped, and its buffer goes back.
LEMMA ConvertKeeps ==
  ASSUME IInv, NEW k \in Surfaces, Convert(k)
  PROVE  IInv'
<1> DEFINE to == IF plugged THEN "copy" ELSE "select"
           S == IF plugged THEN card.node.queued \cup {buf[k]} ELSE card.node.queued
<1>1. /\ ThreadStep(k, "convert", to) /\ shouldStop' = shouldStop /\ buf' = buf
      /\ card' = IF plugged THEN [card EXCEPT !.node = Queue(@, {buf[k]})] ELSE card
      /\ undefined' = undefined
           \cup (IF <<card.buffers, buf[k]>> \in card.node.maps
                      /\ <<"buffers", card.buffers>> \in card.heap
                   THEN {} ELSE {"unmapped"})
           \cup (IF <<"rgb", card.rgb>> \in card.heap THEN {} ELSE {"freed rgb"})
  BY DEF Convert
<1>2. to \in Looping /\ to # "convert" /\ "convert" \in Looping
  BY DEF Looping
<1> HIDE DEF to
<1>3. /\ tpc[k] = "convert" /\ tpc'[k] = to
      /\ \A j \in Surfaces : j # k => tpc'[j] = tpc[j]
      /\ strayed = {} => Safe /\ Ready(card)
  BY <1>1, <1>2, StepFacts
<1>4. /\ card \in Cards /\ card.node \in Nodes /\ buf \in [Surfaces -> Indexes]
      /\ undefined \subseteq Undefined /\ card.n \in 0..BufferCount
      /\ card.node.queued \subseteq Indexes
  BY DEF IInv, TypeOK, Cards, Nodes
<1>5. S \in SUBSET Indexes /\ card' = [card EXCEPT !.node.queued = S]
  BY <1>1, <1>4 DEF Cards, Nodes, Queue
<1>6. undefined' \subseteq Undefined
  BY <1>1, <1>4 DEF Undefined
<1>7. ASSUME strayed = {}
      PROVE  /\ undefined' = {} /\ S \subseteq 0..(card.n - 1)
             /\ \A j \in Surfaces : tpc'[j] = "convert" => buf'[j] < card.n
  <2>1. Safe /\ Ready(card)
    BY <1>3, <1>7
  <2>2. buf[k] \in 0..(card.n - 1)
    BY <1>3, <1>4, <2>1, SingleAssumption DEF Safe, Indexes
  <2>3. <<card.buffers, buf[k]>> \in card.node.maps
    BY <2>1, <2>2 DEF Ready, Buffers
  <2>4. undefined' = {}
    BY <1>1, <2>1, <2>3 DEF Ready, Safe
  <2>5. S \subseteq 0..(card.n - 1)
    BY <2>1, <2>2 DEF Ready
  <2>6. QED
    BY <1>1, <1>2, <1>3, <2>1, <2>4, <2>5 DEF Safe
<1> HIDE DEF S
<1>8. buf' \in [Surfaces -> Indexes]
  BY <1>1, <1>4
<1>9. QED
  BY <1>1, <1>2, <1>5, <1>6, <1>7, <1>8, StepKeeps

\* The thread clears shouldStop, and leaves its loop if it was set.
LEMMA TestPreserves ==
  ASSUME IInv, NEW k \in Surfaces, Test(k)
  PROVE  IInv'
<1> DEFINE to == IF shouldStop THEN "ended" ELSE "select"
<1>1. /\ ThreadStep(k, "test", to) /\ shouldStop' = FALSE
      /\ UNCHANGED <<card, buf, undefined>>
  BY DEF Test
<1>2. to \in Looping \cup {"ended"} /\ "test" \in Looping
  BY DEF Looping
<1> HIDE DEF to
<1>3. /\ tpc[k] = "test" /\ tpc'[k] = to
      /\ \A j \in Surfaces : j # k => tpc'[j] = tpc[j]
      /\ \A j \in Surfaces : InLoop(j)' => InLoop(j)
      /\ tpc' \in [Surfaces -> {"none", "select", "dequeue", "convert", "copy",
                                "test", "ended"}]
      /\ UNCHANGED <<plugged, mpc, made, surface, cameraExists, strayed>>
  BY <1>1, <1>2, StepFacts
<1>4. TypeOK'
  BY <1>1, <1>3 DEF IInv, TypeOK
<1>5. Turns'
  <2>1. InLoop(k)
    BY <1>3 DEF InLoop
  <2>2. ASSUME NEW j \in Surfaces, InLoop(j)' PROVE j = k /\ ~shouldStop
    <3>1. InLoop(j)
      BY <1>3, <2>2
    <3>2. j = k
      BY <2>1, <3>1 DEF IInv, Turns
    <3>3. QED
      BY <1>3, <2>2, <3>2 DEF to, InLoop
  <2>3. QED
    BY <1>1, <1>3, <2>2 DEF IInv, Turns
<1>6. strayed' = {} => Safe'
  <2>1. to # "convert"
    BY DEF to
  <2>2. QED
    BY <1>1, <1>3, <2>1 DEF IInv, Safe
<1>7. QED
  BY <1>1, <1>3, <1>4, <1>5, <1>6 DEF IInv

\* The invariant is inductive.
LEMMA IInvNext == IInv /\ [Next]_vars => IInv'
<1> SUFFICES ASSUME IInv, [Next]_vars PROVE IInv'
  OBVIOUS
<1>1. CASE Main
  BY <1>1, CreatedKeeps, WaitKeeps, StopKeeps DEF Main
<1>2. CASE Unplug
  <2>1. plugged' \in BOOLEAN
        /\ UNCHANGED <<card, mpc, made, surface, cameraExists, shouldStop, tpc,
                       buf, undefined, strayed>>
    BY <1>2 DEF Unplug, mainvars
  <2>2. TypeOK' /\ Turns'
    BY <2>1 DEF IInv, TypeOK, Turns, InLoop
  <2>3. QED
    BY <2>1, <2>2 DEF IInv, Safe
<1>3. ASSUME NEW k \in Surfaces, Thread(k) PROVE IInv'
  BY <1>3, SelectKeeps, DequeueKeeps, ConvertKeeps, TestPreserves DEF Thread
<1>4. CASE UNCHANGED vars
  <2>1. UNCHANGED <<card, plugged, mpc, made, surface, cameraExists, shouldStop,
                    tpc, buf, undefined, strayed>>
    BY <1>4 DEF vars, mainvars
  <2>2. TypeOK' /\ Turns'
    BY <2>1 DEF IInv, TypeOK, Turns, InLoop
  <2>3. QED
    BY <2>1, <2>2 DEF IInv, Safe
<1>5. QED
  BY <1>1, <1>2, <1>3, <1>4 DEF Next

\* The invariant always holds.
THEOREM SingleInductive == Spec => []IInv
BY IInvInit, IInvNext, PTL DEF Spec

\* The variables keep their types, for any number of surfaces and buffers.
THEOREM SingleTypeCorrect == Spec => []TypeOK
<1>1. IInv => TypeOK
  BY DEF IInv
<1>2. QED
  BY <1>1, SingleInductive, PTL

\* The main thread prepares and stops the camera of SingleCameraPreview only
\* when no thread is using it.
THEOREM AloneAlways == Spec => []AloneWithCamera
<1>1. IInv => AloneWithCamera
  BY DEF IInv, Turns, AloneWithCamera
<1>2. QED
  BY <1>1, SingleInductive, PTL

\* No thread of the preview touches memory that is freed or unmapped, unless
\* prepareCamera meets a failure the library is not prepared for.
THEOREM MemorySafeAlways == Spec => []MemorySafe
<1>1. IInv => MemorySafe
  BY DEF IInv, Safe, MemorySafe
<1>2. QED
  BY <1>1, SingleInductive, PTL

\* surfaceDestroyed leaves nothing of the camera behind, whatever failed.
THEOREM DestroyReleasesAlways == Spec => []DestroyReleases
<1>1. IInv => DestroyReleases
  BY DEF IInv, Empty, DestroyReleases, Files
<1>2. QED
  BY <1>1, SingleInductive, PTL
=============================================================================
