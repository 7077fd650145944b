-------------------------- MODULE SdCleaner_proof ---------------------------
(***************************************************************************)
(* Theorems about FileOrder: as long as no two of the files are HalfInt    *)
(* milliseconds apart the comparator's cast does no harm, and a sort that  *)
(* goes by it puts the files in the order of their dates.                  *)
(*                                                                         *)
(* Theorems about SdCleaner, for any number of cleaner threads.  A thread  *)
(* is armed while it may still delete a file without measuring again.  The *)
(* invariant bounds the free space by what was measured last, and then by  *)
(* the target of the threads that are armed.                               *)
(***************************************************************************)
EXTENDS SdCleaner, FiniteSetTheorems, SequenceTheorems, WellFoundedInduction, TLAPS

\* A difference that fits into an int survives the cast.
LEMMA CastFits ==
  ASSUME NEW x \in (-HalfInt)..(HalfInt - 1)
  PROVE  CastToInt(x) = x
<1>1. HalfInt \in Nat /\ HalfInt > 0 /\ x \in Int
  BY OrderAssumption
<1> DEFINE a == x + HalfInt
           n == 2 * HalfInt
<1>2. a \in Nat /\ n \in Nat /\ a < n
  BY <1>1
<1>3. a % n = a
  BY <1>2
<1>4. QED
  BY <1>1, <1>3 DEF CastToInt

\* One that is HalfInt itself changes its sign: the comparator takes the
\* younger of two such files for the older one.
THEOREM CompareFlips ==
  ASSUME NEW b \in Beans, NEW c \in Beans, b.date - c.date = HalfInt
  PROVE  compare(b, c) < 0
<1>1. HalfInt \in Nat /\ HalfInt > 0
  BY OrderAssumption
<1> DEFINE n == 2 * HalfInt
<1>2. n \in Nat /\ n > 0 /\ n % n = 0
  BY <1>1
<1>3. CastToInt(HalfInt) = -HalfInt
  BY <1>1, <1>2 DEF CastToInt
<1>4. QED
  BY <1>1, <1>3 DEF compare

\* The dates in the list are less than HalfInt apart.
Close(s) == \A i, j \in DOMAIN s : s[i].date - s[j].date < HalfInt

\* Then the comparator is right about every two of them.
LEMMA CompareByDate ==
  ASSUME NEW s \in Seq(Beans), Close(s), NEW i \in DOMAIN s, NEW j \in DOMAIN s
  PROVE  compare(s[i], s[j]) = s[i].date - s[j].date
<1>1. s[i] \in Beans /\ s[j] \in Beans
  OBVIOUS
<1>2. s[i].date \in Nat /\ s[j].date \in Nat /\ HalfInt \in Nat
  BY <1>1, OrderAssumption DEF Beans
<1>3. s[i].date - s[j].date < HalfInt /\ s[j].date - s[i].date < HalfInt
  BY DEF Close
<1>4. s[i].date - s[j].date \in (-HalfInt)..(HalfInt - 1)
  BY <1>2, <1>3
<1>5. QED
  BY <1>4, CastFits DEF compare

\* What a sort makes of a list are the elements of the list.
LEMMA SortedBeans ==
  ASSUME NEW s \in Seq(Beans), NEW t \in Sorted(s)
  PROVE  /\ t \in [1..Len(s) -> Beans] /\ t \in Seq(Beans)
         /\ \E p \in [DOMAIN s -> DOMAIN s] :
              /\ \A i \in DOMAIN s : t[i] = s[p[i]]
              /\ \A i \in 1..(Len(s) - 1) : compare(t[i], t[i + 1]) <= 0
<1>1. PICK p \in Orders(DOMAIN s) :
        /\ t = [i \in DOMAIN s |-> s[p[i]]]
        /\ \A i \in 1..(Len(s) - 1) : compare(s[p[i]], s[p[i + 1]]) <= 0
  BY DEF Sorted
<1>2. p \in [DOMAIN s -> DOMAIN s]
  BY <1>1 DEF Orders
<1>3. Len(s) \in Nat /\ DOMAIN s = 1..Len(s)
  OBVIOUS
<1>4. \A i \in DOMAIN s : t[i] = s[p[i]] /\ t[i] \in Beans
  BY <1>1, <1>2
<1>5. t \in [1..Len(s) -> Beans]
  BY <1>1, <1>3, <1>4
<1>6. t \in Seq(Beans)
  BY <1>3, <1>5
<1>7. \A i \in 1..(Len(s) - 1) : i \in DOMAIN s /\ i + 1 \in DOMAIN s
  BY <1>3
<1>8. QED
  BY <1>1, <1>2, <1>4, <1>5, <1>6, <1>7

\* And every list a sort may make of them is in the order of their dates, so
\* that the cleaner, which goes through it from the front, deletes the oldest
\* first.
THEOREM SortedByDate ==
  ASSUME NEW l \in Seq(Beans), Close(l), NEW s \in Sorted(l)
  PROVE  \A i, j \in 1..Len(l) : i < j => s[i].date <= s[j].date
<1> DEFINE n == Len(l)
<1>1. n \in Nat /\ DOMAIN l = 1..n
  OBVIOUS
<1>2. \A i \in 1..n : s[i] \in Beans /\ s[i].date \in Nat
  <2>1. s \in [1..n -> Beans]
    BY SortedBeans
  <2>2. QED
    BY <2>1 DEF Beans
<1>3. \A i \in 1..(n - 1) : s[i].date <= s[i + 1].date
  <2> SUFFICES ASSUME NEW i \in 1..(n - 1)
               PROVE  s[i].date <= s[i + 1].date
    OBVIOUS
  <2>1. i \in 1..n /\ i + 1 \in 1..n
    BY <1>1
  <2>2. PICK p \in [DOMAIN l -> DOMAIN l] :
          /\ \A h \in DOMAIN l : s[h] = l[p[h]]
          /\ \A h \in 1..(Len(l) - 1) : compare(s[h], s[h + 1]) <= 0
    BY SortedBeans
  <2>3. /\ s[i] = l[p[i]] /\ s[i + 1] = l[p[i + 1]]
        /\ p[i] \in DOMAIN l /\ p[i + 1] \in DOMAIN l
    BY <1>1, <2>1, <2>2
  <2>4. compare(s[i], s[i + 1]) = s[i].date - s[i + 1].date
    BY <2>3, CompareByDate
  <2>5. compare(s[i], s[i + 1]) <= 0
    BY <2>2
  <2>6. QED
    BY <1>2, <2>1, <2>4, <2>5
<1> HIDE DEF n
\* Of the places that come after a later date, the first would come directly
\* after one.
<1> DEFINE late == {j \in 1..n : \E i \in 1..n : i < j /\ s[i].date > s[j].date}
<1>4. late = {}
  <2> SUFFICES ASSUME late # {} PROVE FALSE
    OBVIOUS
  <2>1. PICK j \in late : \A k \in late : ~(<<k, j>> \in OpToRel(<, Nat))
    <3>1. late \subseteq Nat
      BY <1>1
    <3>2. QED
      BY <3>1, NatLessThanWellFounded, WFMin
  <2>2. \A k \in late : ~(k < j)
    <3>1. \A k \in late : <<k, j>> \in Nat \X Nat /\ <<k, j>>[1] = k /\ <<k, j>>[2] = j
      BY <1>1
    <3>2. QED
      BY <2>1, <3>1 DEF OpToRel
  <2>3. j \in 1..n
    OBVIOUS
  <2>4. PICK i \in 1..n : i < j /\ s[i].date > s[j].date
    OBVIOUS
  <2>5. /\ j - 1 \in 1..(n - 1) /\ j - 1 \in 1..n /\ j - 1 < j
        /\ (j - 1) + 1 = j /\ (i = j - 1 \/ i < j - 1)
    BY <1>1, <2>3, <2>4
  <2>6. s[j - 1].date <= s[j].date
    BY <1>3, <2>5
  <2>7. j - 1 \notin late
    BY <2>2, <2>5
  <2>8. s[i].date <= s[j - 1].date
    <3>1. CASE i = j - 1
      BY <1>2, <2>5, <3>1
    <3>2. CASE i < j - 1
      BY <1>2, <2>5, <2>7, <3>2
    <3>3. QED
      BY <2>5, <3>1, <3>2
  <2>9. s[i].date \in Nat /\ s[j].date \in Nat /\ s[j - 1].date \in Nat
    BY <1>2, <2>3, <2>5
  <2>10. QED
    BY <2>4, <2>6, <2>8, <2>9
<1>5. QED
  <2> SUFFICES ASSUME NEW i \in 1..n, NEW j \in 1..n, i < j
               PROVE  s[i].date <= s[j].date
    BY DEF n
  <2>1. ~(s[i].date > s[j].date)
    BY <1>4
  <2>2. QED
    BY <1>2, <2>1
-----------------------------------------------------------------------------

Measuring == {k \in Cleaners : thread[k] = "measure"}

\* What has been freed since the last measurement is known: a file for each
\* thread that has still to measure, and what others have freed.
Measured == Free <= freeSize + Cardinality(Measuring) + moves

\* While threads are armed there is no more room than they may still make.
Room ==
  Armed # {} => Free + Cardinality(Armed) <= cleanSize + Cardinality(Cleaners) + moves

IInv == SdTypeOK /\ Measured /\ Room

\* The constants are natural numbers.
LEMMA ConstantFacts ==
  /\ Capacity \in Nat /\ minFreeSize \in Nat /\ cleanSize \in Nat
  /\ MaxRequests \in Nat /\ MaxMoves \in Nat /\ minFreeSize <= cleanSize
  /\ 1 <= MaxRequests /\ Len(Dates) <= Capacity
  /\ Len(Dates) \in Nat /\ IsFiniteSet(Cleaners) /\ Cardinality(Cleaners) \in Nat
BY CleanerAssumption, OrderAssumption, FS_CardinalityType

\* There are finitely many files, and the free space is in the card's range.
LEMMA SpaceFacts ==
  ASSUME SdTypeOK
  PROVE  /\ IsFiniteSet(files) /\ Cardinality(files) \in Nat
         /\ Free = Capacity - other - Cardinality(files)
         /\ Free \in 0..Capacity /\ other \in 0..Capacity
         /\ created \in Nat /\ moves \in Nat /\ freeSize \in Nat
<1>1. created \in Nat
  BY ConstantFacts DEF SdTypeOK
<1>2. IsFiniteSet(1..created)
  BY <1>1, FS_Interval
<1>3. files \in SUBSET (1..created)
  BY DEF SdTypeOK
<1>4. IsFiniteSet(files)
  BY <1>2, <1>3, FS_Subset
<1>5. Cardinality(files) \in Nat
  BY <1>4, FS_CardinalityType
<1>6. QED
  BY <1>1, <1>4, <1>5, ConstantFacts DEF SdTypeOK, Free

\* There are finitely many threads of each kind, and no thread is of both.
LEMMA ThreadFacts ==
  /\ IsFiniteSet(Armed) /\ IsFiniteSet(Measuring)
  /\ Cardinality(Armed) \in Nat /\ Cardinality(Measuring) \in Nat
  /\ Cardinality(Armed) + Cardinality(Measuring) <= Cardinality(Cleaners)
  /\ \A k \in Cleaners : k \notin Armed /\ k \notin Measuring =>
       Cardinality(Armed) + Cardinality(Measuring) + 1 <= Cardinality(Cleaners)
<1>1. Armed \in SUBSET Cleaners /\ Measuring \in SUBSET Cleaners
  BY DEF Armed, Measuring
<1>2. /\ IsFiniteSet(Armed) /\ IsFiniteSet(Measuring)
      /\ Cardinality(Armed) \in Nat /\ Cardinality(Measuring) \in Nat
  BY <1>1, ConstantFacts, FS_Subset, FS_CardinalityType
<1> DEFINE both == Armed \cup Measuring
<1>3. Armed \cap Measuring = {}
  BY DEF Armed, Measuring
<1>4. IsFiniteSet(both) /\ Cardinality(both) = Cardinality(Armed) + Cardinality(Measuring)
  <2>1. Cardinality(Armed \cap Measuring) = 0
    BY <1>3, FS_EmptySet
  <2>2. /\ IsFiniteSet(both)
        /\ Cardinality(both) = Cardinality(Armed) + Cardinality(Measuring)
                                - Cardinality(Armed \cap Measuring)
    BY <1>2, FS_Union
  <2>3. QED
    BY <1>2, <2>1, <2>2
<1>5. both \in SUBSET Cleaners
  BY <1>1
<1>6. Cardinality(both) <= Cardinality(Cleaners)
  BY <1>5, ConstantFacts, FS_Subset
<1>7. ASSUME NEW k \in Cleaners, k \notin Armed, k \notin Measuring
      PROVE  Cardinality(Armed) + Cardinality(Measuring) + 1 <= Cardinality(Cleaners)
  <2>1. both \cup {k} \in SUBSET Cleaners /\ k \notin both
    BY <1>5, <1>7
  <2> HIDE DEF both
  <2>2. Cardinality(both \cup {k}) = Cardinality(both) + 1
    BY <1>4, <2>1, FS_AddElement
  <2>3. Cardinality(both \cup {k}) <= Cardinality(Cleaners)
    BY <2>1, ConstantFacts, FS_Subset
  <2>4. QED
    BY <1>4, <2>2, <2>3
<1>8. QED
  BY <1>2, <1>4, <1>6, <1>7

\* The invariant holds at the start.
LEMMA IInvInit == Init => IInv
<1> SUFFICES ASSUME Init PROVE IInv
  OBVIOUS
<1>1. created \in 0..Len(Dates) /\ files = 1..created
      /\ other \in 0..(Capacity - created) /\ moves = 0 /\ freeSize = Free
  BY DEF Init
<1>2. created \in Nat /\ Cardinality(files) = created /\ created <= Capacity
  <2>1. created \in Nat /\ created <= Capacity
    BY <1>1, ConstantFacts
  <2>2. Cardinality(1..created) = created
    BY <2>1, FS_Interval
  <2>3. QED
    BY <1>1, <2>1, <2>2
<1>3. Free \in 0..Capacity /\ other \in 0..Capacity
  BY <1>1, <1>2, ConstantFacts DEF Free
<1>4. requests \in 0..MaxRequests
  BY ConstantFacts DEF Init
<1>5. SdTypeOK
  <2>1. thread \in [Cleaners -> ThreadSteps] /\ waiter \in [Waiters -> WaiterSteps]
    BY DEF Init, ThreadSteps, WaiterSteps
  <2>2. ListOK
    <3>1. filelists \in Lists
      BY ConstantFacts DEF Init, Lists
    <3>2. /\ heap \in [Lists -> [size : Nat, array : Seq(Beans \cup {NoBean})]]
          /\ \A l \in Lists : heap[l].size <= Len(heap[l].array)
      BY DEF Init, EmptyList
    <3>3. own \in [Cleaners -> Locals]
      BY DEF Init, Nothing, Locals
    <3>4. \A k \in Cleaners : thread[k] = "idle"
      BY DEF Init
    <3>5. broken = {}
      BY DEF Init
    <3>6. QED
      BY <3>1, <3>2, <3>3, <3>4, <3>5 DEF ListOK
  <2>3. /\ activity \in BOOLEAN /\ rewrite \in BOOLEAN
        /\ isCleaningNow \in BOOLEAN /\ mainAlive \in BOOLEAN
    BY Zenon DEF Init
  <2>4. freeSize \in 0..Capacity /\ moves \in 0..MaxMoves
    BY <1>1, <1>3, ConstantFacts
  <2>6. QED
    BY <1>1, <1>3, <1>4, <2>1, <2>2, <2>3, <2>4, ConstantFacts DEF SdTypeOK
<1>6. Armed = {}
  BY DEF Init, Armed
<1>7. Measured
  BY <1>1, <1>3, ThreadFacts DEF Measured
<1>8. QED
  BY <1>5, <1>6, <1>7 DEF IInv, Room

\* The arithmetic of the two bounds.
LEMMA Bounds ==
  ASSUME NEW f \in Nat, NEW g \in Nat, NEW m \in Nat, NEW n \in Nat,
         g - n <= f - m
  PROVE  /\ \A z, y, c \in Nat :
              f <= z + c + m /\ (y = z \/ y = g) => g <= y + c + n
         /\ \A a, b, c, d \in Nat :
              f + a <= c + d + m /\ b <= a => g + b <= c + d + n
<1>1. \A z, y, c \in Nat :
        f <= z + c + m /\ (y = z \/ y = g) => g <= y + c + n
  OBVIOUS
<1>2. \A a, b, c, d \in Nat :
        f + a <= c + d + m /\ b <= a => g + b <= c + d + n
  OBVIOUS
<1>3. QED
  BY <1>1, <1>2

\* No more threads are armed, nothing is freed but by others, and the
\* threads that have to measure are the same.
LEMMA SpaceKeeps ==
  ASSUME IInv, SdTypeOK', freeSize' = freeSize \/ freeSize' = Free',
         Free' - moves' <= Free - moves, Measuring' = Measuring,
         Armed' \subseteq Armed
  PROVE  IInv'
<1>1. /\ Free \in Nat /\ moves \in Nat /\ freeSize \in Nat
      /\ Free' \in Nat /\ moves' \in Nat /\ freeSize' \in Nat
  <2>1. Free \in Nat /\ moves \in Nat /\ freeSize \in Nat
    BY SpaceFacts, ConstantFacts DEF IInv
  <2>2. (Free \in Nat /\ moves \in Nat /\ freeSize \in Nat)'
    <3>1. (Free \in 0..Capacity /\ moves \in Nat /\ freeSize \in Nat)'
      BY SpaceFacts, PTL
    <3>2. QED
      BY <3>1, ConstantFacts
  <2>3. QED
    BY <2>1, <2>2
<1>2. /\ Cardinality(Measuring) \in Nat /\ Cardinality(Armed) \in Nat
      /\ IsFiniteSet(Armed)
  BY ThreadFacts
<1> DEFINE g == Free'
           n == moves'
           y == freeSize'
           b == Cardinality(Armed')
<1>3. /\ g \in Nat /\ n \in Nat /\ y \in Nat /\ (y = freeSize \/ y = g)
  BY <1>1
<1>4. g - n <= Free - moves
  BY Zenon
<1> HIDE DEF g, n, y, b
<1>5. Measured'
  <2>1. Free <= freeSize + Cardinality(Measuring) + moves
    BY DEF IInv, Measured
  <2>2. g <= y + Cardinality(Measuring) + n
    BY <1>1, <1>2, <1>3, <1>4, <2>1, Bounds
  <2>3. Free' <= freeSize' + Cardinality(Measuring') + moves'
    BY <2>2, Zenon DEF g, y, n
  <2>4. QED
    BY <2>3, Zenon DEF Measured
<1>6. Room'
  <2>1. b <= Cardinality(Armed) /\ b \in Nat
    <3>1. IsFiniteSet(Armed')
      BY <1>2, FS_Subset
    <3>2. QED
      BY <1>2, <3>1, FS_Subset, FS_CardinalityType DEF b
  <2>2. ASSUME Armed' # {}
        PROVE  g + b <= cleanSize + Cardinality(Cleaners) + n
    <3>1. Free + Cardinality(Armed) <= cleanSize + Cardinality(Cleaners) + moves
      BY <2>2 DEF IInv, Room
    <3>2. QED
      BY <1>1, <1>2, <1>3, <1>4, <2>1, <3>1, ConstantFacts, Bounds
  <2>3. Armed' # {} => Free' + Cardinality(Armed')
                         <= cleanSize + Cardinality(Cleaners) + moves'
    BY <2>2, Zenon DEF g, b, n
  <2>4. QED
    BY <2>3, Zenon DEF Room
<1>7. QED
  BY <1>5, <1>6 DEF IInv

\* The card: files are created, and others take and free space.
LEMMA CardKeeps == IInv /\ (NewFile \/ OtherData \/ DeleteByHand) => IInv'
<1> SUFFICES ASSUME IInv, NewFile \/ OtherData \/ DeleteByHand PROVE IInv'
  OBVIOUS
<1>1. UNCHANGED <<activity, rewrite, freeSize, requests, cleaner, waiter, mainAlive>>
  BY DEF NewFile, OtherData, DeleteByHand
<1>2. Armed' = Armed /\ Measuring' = Measuring
  BY <1>1 DEF cleaner, Armed, Measuring
<1>3. SdTypeOK
  BY DEF IInv
<1>4. /\ IsFiniteSet(files) /\ Cardinality(files) \in Nat /\ other \in Nat
      /\ Free = Capacity - other - Cardinality(files) /\ Free \in Nat
      /\ created \in Nat /\ moves \in Nat
      /\ Free' = Capacity - other' - Cardinality(files')
  BY <1>3, SpaceFacts, ConstantFacts DEF Free
<1>5. ListOK'
  BY <1>1, <1>3 DEF SdTypeOK, ListOK, cleaner, lists
<1>6. CASE NewFile
  <2>1. /\ created < Len(Dates) /\ Free > 0 /\ created' = created + 1
        /\ files' = files \cup {created + 1} /\ UNCHANGED <<other, moves>>
    BY <1>6 DEF NewFile
  <2>2. created + 1 \notin files
    BY <1>3, <1>4 DEF SdTypeOK
  <2>3. Cardinality(files') = Cardinality(files) + 1
    BY <1>4, <2>1, <2>2, FS_AddElement
  <2>4. Free' = Free - 1
    BY <1>4, <2>1, <2>3, ConstantFacts
  <2>5. files' \subseteq 1..created' /\ created' \in 0..Len(Dates)
    BY <1>3, <1>4, <2>1, ConstantFacts DEF SdTypeOK
  <2>6. SdTypeOK'
    BY <1>1, <1>3, <1>4, <1>5, <2>1, <2>4, <2>5 DEF SdTypeOK, cleaner
  <2>7. QED
    BY <1>1, <1>2, <1>4, <2>1, <2>4, <2>6, SpaceKeeps
<1>7. CASE OtherData
  <2>1. /\ moves < MaxMoves /\ moves' = moves + 1
        /\ other' \in {other - 1, other + 1}
        /\ other' \in 0..(Capacity - Cardinality(files))
        /\ UNCHANGED <<files, created>>
    BY <1>7 DEF OtherData
  <2>2. Free' >= 0 /\ Free' - moves' <= Free - moves
    <3>1. \A c, n, o, p, m \in Nat :
            p <= c - n /\ (p = o - 1 \/ p = o + 1) =>
              c - p - n >= 0 /\ (c - p - n) - (m + 1) <= (c - o - n) - m
      OBVIOUS
    <3>2. Cardinality(files') = Cardinality(files)
      BY <2>1
    <3>3. other' \in Nat /\ other' <= Capacity - Cardinality(files)
      BY <1>4, <2>1, ConstantFacts
    <3>4. other' = other - 1 \/ other' = other + 1
      BY <2>1
    <3>5. /\ Capacity - other' - Cardinality(files) >= 0
          /\ (Capacity - other' - Cardinality(files)) - (moves + 1) <=
               (Capacity - other - Cardinality(files)) - moves
      BY <1>4, <3>1, <3>3, <3>4, ConstantFacts
    <3>6. QED
      BY <1>4, <2>1, <3>2, <3>5
  <2>3. other' \in 0..Capacity /\ moves' \in 0..MaxMoves
    BY <1>4, <2>1, ConstantFacts
  <2>4. SdTypeOK'
    BY <1>1, <1>3, <1>5, <2>1, <2>2, <2>3 DEF SdTypeOK, cleaner
  <2>5. QED
    BY <1>1, <1>2, <2>2, <2>4, SpaceKeeps
<1>8. CASE DeleteByHand
  <2>1. /\ moves < MaxMoves /\ moves' = moves + 1 /\ UNCHANGED <<created, other>>
    BY <1>8 DEF DeleteByHand
  <2>2. PICK f \in files : files' = files \ {f}
    BY <1>8 DEF DeleteByHand
  <2>3. Cardinality(files') = Cardinality(files) - 1
    BY <1>4, <2>2, FS_RemoveElement
  <2>4. Free' = Free + 1
    BY <1>4, <2>1, <2>3, ConstantFacts
  <2>5. moves' \in 0..MaxMoves /\ files' \subseteq 1..created
    BY <1>3, <1>4, <2>1, <2>2, ConstantFacts DEF SdTypeOK
  <2>6. SdTypeOK'
    BY <1>1, <1>3, <1>4, <1>5, <2>1, <2>4, <2>5 DEF SdTypeOK, cleaner
  <2>7. QED
    BY <1>1, <1>2, <1>4, <2>1, <2>4, <2>6, SpaceKeeps
<1>9. QED
  BY <1>6, <1>7, <1>8

\* The main thread and RecordManager touch neither the files nor the list.
LEMMA MainKeeps ==
  ASSUME IInv, \/ OpenDesktop \/ ToggleRewrite \/ Track \/ DeliverRequest
               \/ \E w \in Waiters : PressRecord(w) \/ DeliverComplete(w)
  PROVE  IInv'
<1>1. SdTypeOK
  BY DEF IInv
<1>2. UNCHANGED <<card, filelists, heap, own, broken, isCleaningNow>>
  BY DEF OpenDesktop, ToggleRewrite, Track, DeliverRequest, PressRecord,
         DeliverComplete, cleaner, lists
<1>3. Free' = Free /\ UNCHANGED <<files, created, other, moves>>
  BY <1>2 DEF card, Free
<1>4. Free \in 0..Capacity /\ moves \in Nat
  BY <1>1, SpaceFacts
<1>5. /\ freeSize' = freeSize \/ freeSize' = Free'
      /\ freeSize' \in 0..Capacity
  <2>1. freeSize' = freeSize \/ freeSize' = Free
    BY DEF OpenDesktop, ToggleRewrite, Track, DeliverRequest, PressRecord,
           DeliverComplete
  <2>2. QED
    BY <1>1, <1>3, <1>4, <2>1 DEF SdTypeOK
<1>6. requests' \in 0..MaxRequests
  <2>1. \/ requests' = requests
        \/ requests < MaxRequests /\ requests' = requests + 1
        \/ requests > 0 /\ requests' = requests - 1
    BY DEF OpenDesktop, ToggleRewrite, Track, DeliverRequest, PressRecord,
           DeliverComplete, Ask
  <2>2. QED
    BY <1>1, <2>1, ConstantFacts DEF SdTypeOK
<1>7. /\ thread' \in [Cleaners -> ThreadSteps]
      /\ Armed' = Armed /\ Measuring' = Measuring /\ ListOK'
  <2>1. CASE UNCHANGED thread
    BY <1>1, <1>2, <2>1 DEF SdTypeOK, ListOK, Armed, Measuring
  <2>2. CASE \E k \in Cleaners :
               thread[k] = "idle" /\ thread' = [thread EXCEPT ![k] = "test"]
    BY <1>1, <1>2, <2>2 DEF SdTypeOK, ListOK, Armed, Measuring, ThreadSteps
  <2>3. QED
    BY <2>1, <2>2 DEF OpenDesktop, ToggleRewrite, Track, DeliverRequest,
                      PressRecord, DeliverComplete, cleaner
<1>8. waiter' \in [Waiters -> WaiterSteps]
  <2>1. CASE UNCHANGED waiter
    BY <1>1, <2>1 DEF SdTypeOK
  <2>2. CASE \E w \in Waiters : PressRecord(w) \/ DeliverComplete(w)
    BY <1>1, <2>2 DEF SdTypeOK, PressRecord, DeliverComplete, WaiterSteps
  <2>3. QED
    BY <2>1, <2>2 DEF OpenDesktop, ToggleRewrite, Track, DeliverRequest
<1>9. activity' \in BOOLEAN /\ rewrite' \in BOOLEAN /\ mainAlive' \in BOOLEAN
  BY <1>1, Zenon DEF SdTypeOK, OpenDesktop, ToggleRewrite, Track, DeliverRequest,
                     PressRecord, DeliverComplete
<1>10. SdTypeOK'
  BY <1>1, <1>2, <1>3, <1>5, <1>6, <1>7, <1>8, <1>9 DEF SdTypeOK
<1>11. QED
  BY <1>3, <1>4, <1>5, <1>7, <1>10, SpaceKeeps, ConstantFacts

\* What every step of a thread leaves alone, and what it does to its place.
LEMMA StepFacts ==
  ASSUME NEW k \in Cleaners, NEW from \in ThreadSteps, NEW to \in ThreadSteps,
         SdTypeOK, Move(k, from, to)
  PROVE  /\ thread[k] = from /\ thread' \in [Cleaners -> ThreadSteps]
         /\ thread'[k] = to
         /\ \A j \in Cleaners : j # k => thread'[j] = thread[j]
         /\ UNCHANGED <<created, other, moves, activity, rewrite, requests, mainAlive>>
BY DEF Move, SdTypeOK

HeapOK ==
  /\ heap \in [Lists -> [size : Nat, array : Seq(Beans \cup {NoBean})]]
  /\ \A l \in Lists : heap[l].size <= Len(heap[l].array)

\* A step of a thread that gives its locals values of their types.
LEMMA LocalStep ==
  ASSUME SdTypeOK, NEW k \in Cleaners,
         NEW from \in ThreadSteps, NEW to \in ThreadSteps, Move(k, from, to),
         NEW x \in Locals, own' = [own EXCEPT ![k] = x],
         to = "load" => x.names # <<>>, to = "store" => x.beans # <<>>,
         filelists' \in Lists \cup {Null}, HeapOK', broken' \subseteq Cleaners
  PROVE  ListOK'
<1>1. /\ thread'[k] = to /\ \A j \in Cleaners : j # k => thread'[j] = thread[j]
  BY StepFacts
<1>2. /\ own \in [Cleaners -> Locals]
      /\ \A j \in Cleaners : /\ thread[j] = "load" => own[j].names # <<>>
                             /\ thread[j] = "store" => own[j].beans # <<>>
  BY DEF SdTypeOK, ListOK
<1>3. /\ own' \in [Cleaners -> Locals] /\ own'[k] = x
      /\ \A j \in Cleaners : j # k => own'[j] = own[j]
  BY <1>2
<1>4. ASSUME NEW j \in Cleaners
      PROVE  /\ thread'[j] = "load" => own'[j].names # <<>>
             /\ thread'[j] = "store" => own'[j].beans # <<>>
  <2>1. CASE j = k
    BY <1>1, <1>3, <2>1
  <2>2. CASE j # k
    BY <1>1, <1>2, <1>3, <2>2
  <2>3. QED
    BY <2>1, <2>2
<1>5. QED
  BY <1>3, <1>4 DEF ListOK, HeapOK

\* What a list holds.
LEMMA HeapFacts ==
  ASSUME SdTypeOK, NEW l \in Lists
  PROVE  /\ heap[l].size \in Nat /\ heap[l].array \in Seq(Beans \cup {NoBean})
         /\ heap[l].size <= Len(heap[l].array)
         /\ Len(heap[l].array) \in Nat /\ DOMAIN heap[l].array = 1..Len(heap[l].array)
<1>1. heap[l] \in [size : Nat, array : Seq(Beans \cup {NoBean})]
  BY DEF SdTypeOK, ListOK
<1>2. QED
  BY <1>1 DEF SdTypeOK, ListOK

\* A thread's locals.
LEMMA LocalFacts ==
  ASSUME SdTypeOK, NEW k \in Cleaners
  PROVE  /\ own[k] \in Locals /\ Nothing \in Locals
         /\ own[k].list \in Lists \cup {Null} /\ own[k].n \in Nat
         /\ own[k].names \in Seq(VideoFiles) /\ own[k].beans \in Seq(Beans)
<1>1. own[k] \in Locals
  BY DEF SdTypeOK, ListOK
<1>2. Nothing \in Locals
  BY DEF Nothing, Locals
<1>3. QED
  BY <1>1, <1>2 DEF Locals

\* A thread that dies has no locals any more.
LEMMA DiesTypes ==
  ASSUME SdTypeOK, NEW k \in Cleaners, NEW from \in ThreadSteps, Dies(k, from),
         filelists' \in Lists \cup {Null}, HeapOK'
  PROVE  ListOK'
<1>1. Move(k, from, "idle") /\ "idle" \in ThreadSteps
  BY DEF Dies, ListStep, ThreadSteps
<1>2. Nothing \in Locals
  BY LocalFacts
<1>3. own' = [own EXCEPT ![k] = Nothing] /\ broken' \subseteq Cleaners
  BY DEF Dies, SdTypeOK, ListOK
<1>4. QED
  BY <1>1, <1>2, <1>3, LocalStep

\* A list gets another size and another array.
LEMMA HeapStep ==
  ASSUME SdTypeOK, NEW l \in Lists, NEW n \in Nat, NEW a \in Seq(Beans \cup {NoBean}),
         n <= Len(a), heap' = [heap EXCEPT ![l] = [size |-> n, array |-> a]]
  PROVE  HeapOK'
BY DEF SdTypeOK, ListOK, HeapOK
-----------------------------------------------------------------------------

\* The types of the list and of the locals, step by step: the steps that fill
\* the list.
LEMMA FillTypes ==
  ASSUME SdTypeOK, NEW k \in Cleaners, Fill(k)
  PROVE  ListOK'
<1>1. /\ own[k] \in Locals /\ Nothing \in Locals
      /\ own[k].list \in Lists \cup {Null} /\ own[k].n \in Nat
      /\ own[k].names \in Seq(VideoFiles) /\ own[k].beans \in Seq(Beans)
  BY LocalFacts
<1>2. filelists \in Lists \cup {Null} /\ HeapOK /\ broken \subseteq Cleaners
      /\ own \in [Cleaners -> Locals]
  BY DEF SdTypeOK, ListOK, HeapOK
<1>3. {"idle", "scan", "add", "load", "store", "log"} \subseteq ThreadSteps
  BY DEF ThreadSteps
<1>4. UNCHANGED heap => HeapOK'
  BY <1>2 DEF HeapOK
<1>5. CASE ListFiles(k)
  <2>1. PICK f \in [1..Cardinality(files) -> files] : own' = [own EXCEPT ![k].names = f]
    BY <1>5 DEF ListFiles
  <2> DEFINE n == Cardinality(files)
  <2>2. n \in Nat /\ files \subseteq VideoFiles
    BY SpaceFacts, ConstantFacts DEF SdTypeOK, VideoFiles
  <2>3. f \in [1..n -> VideoFiles]
    BY <2>1, <2>2
  <2> HIDE DEF n
  <2>4. f \in Seq(VideoFiles)
    BY <2>2, <2>3
  <2>5. [own[k] EXCEPT !.names = f] \in Locals
    BY <1>1, <2>4 DEF Locals
  <2>6. own' = [own EXCEPT ![k] = [own[k] EXCEPT !.names = f]]
    BY <2>1
  <2>7. Move(k, "scan", "add") /\ UNCHANGED <<lists, broken>>
    BY <1>5 DEF ListFiles, Quietly, ListStep
  <2>8. QED
    BY <1>2, <1>3, <1>4, <2>5, <2>6, <2>7, LocalStep DEF lists
<1>6. CASE AddTest(k)
  <2>1. UNCHANGED <<lists, broken>>
    BY <1>6 DEF AddTest, Quietly
  <2>2. CASE own[k].names = <<>>
    <3>1. Move(k, "add", "log") /\ own' = [own EXCEPT ![k] = own[k]]
      BY <1>2, <1>6, <2>2 DEF AddTest, Quietly, ListStep
    <3>2. QED
      BY <1>1, <1>2, <1>3, <1>4, <2>1, <3>1, LocalStep DEF lists
  <2>3. CASE own[k].names # <<>> /\ filelists = Null
    <3>1. /\ Move(k, "add", "add")
          /\ own' = [own EXCEPT ![k] = [own[k] EXCEPT !.names = Tail(own[k].names)]]
      BY <1>2, <1>6, <2>3 DEF AddTest, Quietly, ListStep
    <3>2. Tail(own[k].names) \in Seq(VideoFiles)
      BY <1>1, <2>3
    <3>3. [own[k] EXCEPT !.names = Tail(own[k].names)] \in Locals
      BY <1>1, <3>2 DEF Locals
    <3>4. QED
      BY <1>2, <1>3, <1>4, <2>1, <3>1, <3>3, LocalStep DEF lists
  <2>4. CASE own[k].names # <<>> /\ filelists # Null
    <3>1. Move(k, "add", "load") /\ own' = [own EXCEPT ![k] = own[k]]
      BY <1>2, <1>6, <2>4 DEF AddTest, Quietly, ListStep
    <3>2. QED
      BY <1>1, <1>2, <1>3, <1>4, <2>1, <2>4, <3>1, LocalStep DEF lists
  <2>5. QED
    BY <2>2, <2>3, <2>4
<1>7. CASE AddLoad(k)
  <2>1. UNCHANGED lists
    BY <1>7 DEF AddLoad
  <2>2. CASE filelists = Null
    BY <1>2, <1>3, <1>4, <1>7, <2>1, <2>2, DiesTypes DEF AddLoad, lists
  <2>3. CASE filelists # Null
    <3> DEFINE x == [list |-> filelists, n |-> heap[filelists].size,
                     names |-> Tail(own[k].names),
                     beans |-> <<Bean(Head(own[k].names))>>]
    <3>1. Move(k, "load", "store") /\ own' = [own EXCEPT ![k] = x] /\ UNCHANGED broken
      BY <1>7, <2>3 DEF AddLoad, Quietly, ListStep
    <3>2. own[k].names # <<>>
      <4>1. thread[k] = "load"
        BY <3>1 DEF Move
      <4>2. ListOK
        BY DEF SdTypeOK
      <4>3. QED
        BY <4>1, <4>2 DEF ListOK
    <3>3. Tail(own[k].names) \in Seq(VideoFiles) /\ Head(own[k].names) \in VideoFiles
      BY <1>1, <3>2, HeadTailProperties
    <3>4. Bean(Head(own[k].names)) \in Beans
      BY <3>3, OrderAssumption DEF Bean, Beans, VideoFiles
    <3>5. filelists \in Lists /\ heap[filelists].size \in Nat
      BY <1>2, <2>3, HeapFacts
    <3>6. x \in Locals /\ x.beans # <<>>
      BY <3>3, <3>4, <3>5 DEF Locals
    <3> HIDE DEF x
    <3>7. QED
      BY <1>2, <1>3, <1>4, <2>1, <3>1, <3>6, LocalStep DEF lists
  <2>4. QED
    BY <2>2, <2>3
<1>8. CASE AddStore(k)
  <2> DEFINE l == own[k].list
             at == own[k].n + 1
             len == Len(heap[l].array)
             m == IF at > len THEN at ELSE len
             a == [i \in 1..m |-> IF i = at THEN own[k].beans[1]
                                  ELSE IF i <= len THEN heap[l].array[i] ELSE NoBean]
             x == [Nothing EXCEPT !.names = own[k].names]
  <2>1. /\ Move(k, "store", "add") /\ own' = [own EXCEPT ![k] = x]
        /\ heap' = [heap EXCEPT ![l] = [size |-> at, array |-> a]]
        /\ broken' = broken \cup Modified(l) /\ UNCHANGED filelists
    BY <1>2, <1>8 DEF AddStore, ListStep, HeapOK
  <2>2. own[k].beans # <<>>
    BY <2>1 DEF SdTypeOK, ListOK, Move
  <2>3. own[k].beans[1] \in Beans
    BY <1>1, <2>2
  <2>4. HeapOK'
    <3>1. CASE l \in Lists
      <4>1. len \in Nat /\ heap[l].array \in Seq(Beans \cup {NoBean}) /\ at \in Nat
        BY <1>1, <3>1, HeapFacts
      <4>2. m \in Nat /\ at <= m
        BY <4>1
      <4>3. \A i \in 1..m : a[i] \in Beans \cup {NoBean}
        BY <2>3, <4>1
      <4> HIDE DEF m
      <4>4. a \in [1..m -> Beans \cup {NoBean}]
        BY <4>3
      <4> HIDE DEF a
      <4>5. a \in Seq(Beans \cup {NoBean}) /\ Len(a) = m
        BY <4>2, <4>4
      <4> HIDE DEF l, at
      <4>6. QED
        BY <2>1, <3>1, <4>1, <4>2, <4>5, HeapStep
    <3>2. CASE l \notin Lists
      <4>1. heap' = heap
        BY <1>2, <2>1, <3>2 DEF HeapOK
      <4>2. QED
        BY <1>4, <4>1
    <3>3. QED
      BY <3>1, <3>2
  <2>5. x \in Locals
    BY <1>1 DEF Locals, Nothing
  <2>6. broken' \subseteq Cleaners
    BY <1>2, <2>1 DEF Modified
  <2> HIDE DEF x
  <2>7. QED
    BY <1>2, <1>3, <2>1, <2>4, <2>5, <2>6, LocalStep
<1>9. QED
  BY <1>5, <1>6, <1>7, <1>8 DEF Fill

\* The steps that log, sort and delete.
LEMMA DeleteTypes ==
  ASSUME SdTypeOK, NEW k \in Cleaners, DeleteOldFile(k)
  PROVE  ListOK'
<1>1. /\ own[k] \in Locals /\ Nothing \in Locals
      /\ own[k].list \in Lists \cup {Null} /\ own[k].n \in Nat
      /\ own[k].names \in Seq(VideoFiles) /\ own[k].beans \in Seq(Beans)
  BY LocalFacts
<1>2. filelists \in Lists \cup {Null} /\ HeapOK /\ broken \subseteq Cleaners
      /\ own \in [Cleaners -> Locals]
  BY DEF SdTypeOK, ListOK, HeapOK
<1>3. {"idle", "log", "logging", "sort", "write", "first", "iterate", "delete",
       "measure", "clear"} \subseteq ThreadSteps
  BY DEF ThreadSteps
<1>4. UNCHANGED heap => HeapOK'
  BY <1>2 DEF HeapOK
<1>5. ASSUME NEW from \in ThreadSteps, Dies(k, from), UNCHANGED lists
      PROVE  ListOK'
  BY <1>2, <1>4, <1>5, DiesTypes DEF lists
<1>6. ASSUME NEW from \in ThreadSteps, NEW to \in ThreadSteps, Quietly(k, from, to),
             to \notin {"load", "store"}, UNCHANGED lists,
             NEW x \in Locals, own' = [own EXCEPT ![k] = x]
      PROVE  ListOK'
  <2>1. Move(k, from, to) /\ UNCHANGED broken
    BY <1>6 DEF Quietly, ListStep
  <2>2. filelists' \in Lists \cup {Null} /\ HeapOK' /\ broken' \subseteq Cleaners
    BY <1>2, <1>4, <1>6, <2>1 DEF lists
  <2>3. QED
    BY <1>6, <2>1, <2>2, LocalStep
<1>7. own = [own EXCEPT ![k] = own[k]]
  BY <1>2
<1>8. filelists # Null => filelists \in Lists /\ Iterator \in Locals
  <2> SUFFICES ASSUME filelists # Null PROVE filelists \in Lists /\ Iterator \in Locals
    OBVIOUS
  <2>1. filelists \in Lists /\ heap[filelists].size \in Nat
    BY <1>2, HeapFacts
  <2>2. QED
    BY <1>1, <2>1 DEF Iterator, Locals
<1>9. CASE LogStart(k)
  <2>1. UNCHANGED lists
    BY <1>9 DEF LogStart
  <2>2. CASE filelists = Null
    BY <1>3, <1>5, <1>9, <2>1, <2>2 DEF LogStart
  <2>3. CASE filelists # Null
    BY <1>3, <1>6, <1>8, <1>9, <2>1, <2>3 DEF LogStart
  <2>4. QED
    BY <2>2, <2>3
<1>10. CASE LogEnd(k)
  <2>1. UNCHANGED lists
    BY <1>10 DEF LogEnd
  <2>2. CASE Dies(k, "logging")
    BY <1>3, <1>5, <2>1, <2>2
  <2>3. CASE ~Dies(k, "logging")
    <3>1. /\ Move(k, "logging", "sort") /\ own' = [own EXCEPT ![k] = Nothing]
          /\ broken' = broken \ {k}
      BY <1>10, <2>3 DEF LogEnd, ListStep
    <3>2. broken' \subseteq Cleaners /\ filelists' \in Lists \cup {Null} /\ HeapOK'
      BY <1>2, <1>4, <2>1, <3>1 DEF lists
    <3>3. QED
      BY <1>1, <1>3, <3>1, <3>2, LocalStep
  <2>4. QED
    BY <2>2, <2>3
<1>11. CASE SortCopy(k)
  <2>1. UNCHANGED lists
    BY <1>11 DEF SortCopy
  <2>2. CASE Dies(k, "sort")
    BY <1>3, <1>5, <2>1, <2>2
  <2>3. CASE ~Dies(k, "sort")
    <3>1. /\ filelists # Null /\ ~HasNull(filelists) /\ Quietly(k, "sort", "write")
      BY <1>11, <2>3 DEF SortCopy
    <3> DEFINE e == Elements(filelists)
               n == heap[filelists].size
               a == heap[filelists].array
    <3>2. PICK s \in Sorted(e) :
            own' = [own EXCEPT ![k] = [Nothing EXCEPT !.list = filelists, !.beans = s]]
      BY <1>11, <2>3 DEF SortCopy
    <3>3. filelists \in Lists
      BY <1>8, <3>1
    <3>4. /\ n \in Nat /\ a \in Seq(Beans \cup {NoBean}) /\ n <= Len(a)
          /\ Len(a) \in Nat /\ DOMAIN a = 1..Len(a)
      BY <3>3, HeapFacts
    <3>5. \A i \in 1..n : a[i] # NoBean
      BY <3>1 DEF HasNull
    <3>6. e = SubSeq(a, 1, n)
      BY DEF Elements
    <3> HIDE DEF e, n, a
    <3>7. \A i \in 1..n : a[i] \in Beans
      BY <3>4, <3>5
    <3>8. e = [i \in 1..n |-> a[i]]
      BY <3>4, <3>6
    <3>9. e \in Seq(Beans)
      <4>1. e \in [1..n -> Beans]
        BY <3>7, <3>8
      <4>2. QED
        BY <3>4, <4>1
    <3>10. s \in Seq(Beans)
      BY <3>2, <3>9, SortedBeans
    <3>11. [Nothing EXCEPT !.list = filelists, !.beans = s] \in Locals
      BY <1>1, <3>3, <3>10 DEF Locals
    <3>12. QED
      BY <1>3, <1>6, <2>1, <3>1, <3>2, <3>11
  <2>4. QED
    BY <2>2, <2>3
<1>12. CASE SortWrite(k)
  <2> DEFINE l == own[k].list
             s == own[k].beans
             n == heap[l].size
             a == heap[l].array
             b == [i \in DOMAIN a |-> IF i <= n /\ i <= Len(s) THEN s[i] ELSE a[i]]
  <2>1. HeapOK' /\ UNCHANGED filelists
    <3>1. UNCHANGED filelists /\ heap' = [heap EXCEPT ![l].array =
            [i \in DOMAIN @ |-> IF i <= n /\ i <= Len(s) THEN s[i] ELSE @[i]]]
      BY <1>12 DEF SortWrite
    <3>2. CASE l \in Lists
      <4>1. /\ n \in Nat /\ a \in Seq(Beans \cup {NoBean}) /\ n <= Len(a)
            /\ Len(a) \in Nat /\ DOMAIN a = 1..Len(a)
        BY <3>2, HeapFacts
      <4>2. heap[l] = [size |-> n, array |-> a]
        <5>1. heap[l] \in [size : Nat, array : Seq(Beans \cup {NoBean})]
          BY <1>2, <3>2 DEF HeapOK
        <5>2. QED
          BY <5>1
      <4>3. heap' = [heap EXCEPT ![l] = [size |-> n, array |-> b]]
        <5>1. heap' = [heap EXCEPT ![l] = [heap[l] EXCEPT !.array = b]]
          BY <3>1
        <5> HIDE DEF b, n, a, s
        <5>2. [heap[l] EXCEPT !.array = b] = [size |-> n, array |-> b]
          BY <4>2
        <5>3. QED
          BY <5>1, <5>2
      <4>4. s \in Seq(Beans)
        BY <1>1
      <4>5. \A i \in 1..Len(a) : b[i] \in Beans \cup {NoBean}
        <5> HIDE DEF a, s, n
        <5>1. \A i \in 1..Len(a) : a[i] \in Beans \cup {NoBean}
          BY <4>1
        <5>2. \A i \in 1..Len(a) : i <= Len(s) => s[i] \in Beans
          BY <4>1, <4>4
        <5>3. QED
          BY <4>1, <5>1, <5>2
      <4>6. DOMAIN b = 1..Len(a)
        BY <4>1
      <4>7. b = [i \in 1..Len(a) |-> b[i]]
        BY <4>1
      <4> HIDE DEF b
      <4>8. b \in [1..Len(a) -> Beans \cup {NoBean}]
        BY <4>5, <4>7
      <4> HIDE DEF a, n, l
      <4>9. b \in Seq(Beans \cup {NoBean}) /\ Len(b) = Len(a)
        BY <4>1, <4>8
      <4>10. QED
        BY <3>1, <3>2, <4>1, <4>3, <4>9, HeapStep
    <3>3. CASE l \notin Lists
      <4>1. heap' = heap
        BY <1>2, <3>1, <3>3 DEF HeapOK
      <4>2. QED
        BY <1>4, <3>1, <4>1
    <3>4. QED
      BY <3>2, <3>3
  <2>2. CASE Dies(k, "write")
    BY <1>2, <1>3, <2>1, <2>2, DiesTypes
  <2>3. CASE ~Dies(k, "write")
    <3>1. /\ Move(k, "write", "first") /\ own' = [own EXCEPT ![k] = Nothing]
          /\ UNCHANGED broken
      BY <1>12, <2>3 DEF SortWrite, Quietly, ListStep
    <3>2. QED
      BY <1>1, <1>2, <1>3, <2>1, <3>1, LocalStep
  <2>4. QED
    BY <2>2, <2>3
<1>13. CASE GetFirst(k)
  <2>1. UNCHANGED lists
    BY <1>13 DEF GetFirst
  <2>2. Dies(k, "first") \/ (Quietly(k, "first", "iterate") /\ UNCHANGED own)
    BY <1>13 DEF GetFirst
  <2>3. QED
    BY <1>1, <1>3, <1>5, <1>6, <1>7, <2>1, <2>2
<1>14. CASE Iterate(k)
  <2>1. UNCHANGED lists
    BY <1>14 DEF Iterate
  <2>2. CASE filelists = Null
    BY <1>3, <1>5, <1>14, <2>1, <2>2 DEF Iterate
  <2>3. CASE filelists # Null
    BY <1>3, <1>6, <1>8, <1>14, <2>1, <2>3 DEF Iterate
  <2>4. QED
    BY <2>2, <2>3
<1>15. CASE Delete(k)
  <2>1. /\ Move(k, "delete", "measure") /\ UNCHANGED <<lists, broken>> /\ own[k].n > 0
        /\ own' = [own EXCEPT ![k].n = @ - 1]
    BY <1>15 DEF Delete, ListStep
  <2>2. own' = [own EXCEPT ![k] = [own[k] EXCEPT !.n = own[k].n - 1]]
    BY <2>1
  <2>3. own[k].n - 1 \in Nat
    BY <1>1, <2>1
  <2>4. [own[k] EXCEPT !.n = own[k].n - 1] \in Locals
    BY <1>1, <2>3 DEF Locals
  <2>5. QED
    <3>1. filelists' \in Lists \cup {Null} /\ HeapOK' /\ broken' \subseteq Cleaners
      BY <1>2, <1>4, <2>1 DEF lists
    <3> DEFINE x == [own[k] EXCEPT !.n = own[k].n - 1]
    <3>2. x \in Locals /\ own' = [own EXCEPT ![k] = x]
      BY <2>2, <2>4
    <3> HIDE DEF x
    <3>3. Move(k, "delete", "measure")
      BY <2>1
    <3>4. QED
      BY <1>3, <3>1, <3>2, <3>3, LocalStep
<1>16. CASE NothingLeft(k)
  BY <1>1, <1>3, <1>6, <1>7, <1>16 DEF NothingLeft, lists
<1>17. CASE IteratorThrows(k)
  BY <1>3, <1>5, <1>17 DEF IteratorThrows
<1>18. CASE Measure(k)
  <2>1. PICK to \in {"clear", "delete"} : Move(k, "measure", to)
    BY <1>18 DEF Measure
  <2>2. UNCHANGED <<lists, own, broken>>
    BY <1>18 DEF Measure
  <2>3. QED
    BY <1>1, <1>2, <1>3, <1>4, <1>7, <2>1, <2>2, LocalStep DEF lists
<1>19. QED
  BY <1>9, <1>10, <1>11, <1>12, <1>13, <1>14, <1>15, <1>16, <1>17, <1>18 DEF DeleteOldFile

\* The steps that clear the list and renew it.
LEMMA RenewTypes ==
  ASSUME SdTypeOK, NEW k \in Cleaners, Renew(k)
  PROVE  ListOK'
<1>1. own[k] \in Locals /\ Nothing \in Locals
  BY LocalFacts
<1>2. filelists \in Lists \cup {Null} /\ HeapOK /\ broken \subseteq Cleaners
      /\ own \in [Cleaners -> Locals]
  BY DEF SdTypeOK, ListOK, HeapOK
<1>3. {"idle", "clear", "empty", "null", "new", "reset"} \subseteq ThreadSteps
  BY DEF ThreadSteps
<1>4. UNCHANGED heap => HeapOK'
  BY <1>2 DEF HeapOK
<1>5. own = [own EXCEPT ![k] = own[k]]
  BY <1>2
<1>6. CASE ClearTest(k)
  <2>1. PICK to \in {"reset", "empty"} : Move(k, "clear", to)
    BY <1>6 DEF ClearTest, ListStep
  <2>2. /\ own' = [own EXCEPT ![k] = Nothing] /\ broken' = broken \ {k}
        /\ UNCHANGED lists
    BY <1>6 DEF ClearTest
  <2>3. broken' \subseteq Cleaners /\ filelists' \in Lists \cup {Null} /\ HeapOK'
    BY <1>2, <1>4, <2>2 DEF lists
  <2>4. QED
    BY <1>1, <1>3, <2>1, <2>2, <2>3, LocalStep
<1>7. CASE Empty(k)
  <2>1. UNCHANGED filelists
    BY <1>7 DEF Empty
  <2>2. CASE filelists = Null
    BY <1>2, <1>3, <1>4, <1>7, <2>1, <2>2, DiesTypes DEF Empty
  <2>3. CASE filelists # Null
    <3> DEFINE n == heap[filelists].size
               a == heap[filelists].array
               b == [i \in DOMAIN a |-> IF i <= n THEN NoBean ELSE a[i]]
    <3>1. /\ Move(k, "empty", "null") /\ UNCHANGED own
          /\ broken' = broken \/ broken' = broken \cup Modified(filelists)
          /\ heap' = [heap EXCEPT ![filelists] = [size |-> 0, array |-> b]]
      BY <1>2, <1>7, <2>3 DEF Empty, ListStep, HeapOK
    <3>2. filelists \in Lists
      BY <1>2, <2>3
    <3>3. /\ n \in Nat /\ a \in Seq(Beans \cup {NoBean})
          /\ Len(a) \in Nat /\ DOMAIN a = 1..Len(a)
      BY <3>2, HeapFacts
    <3>4. \A i \in 1..Len(a) : b[i] \in Beans \cup {NoBean}
      BY <3>3
    <3>5. b = [i \in 1..Len(a) |-> b[i]]
      BY <3>3
    <3> HIDE DEF b
    <3>6. b \in [1..Len(a) -> Beans \cup {NoBean}]
      BY <3>4, <3>5
    <3> HIDE DEF a, n
    <3>7. b \in Seq(Beans \cup {NoBean}) /\ 0 <= Len(b)
      BY <3>3, <3>6
    <3>8. HeapOK'
      BY <3>1, <3>2, <3>7, HeapStep
    <3>9. broken' \subseteq Cleaners
      BY <1>2, <3>1 DEF Modified
    <3>10. QED
      BY <1>1, <1>2, <1>3, <1>5, <2>1, <3>1, <3>8, <3>9, LocalStep
  <2>4. QED
    BY <2>2, <2>3
<1>8. CASE SetNull(k)
  <2>1. /\ Move(k, "null", "new") /\ UNCHANGED <<heap, own, broken>> /\ filelists' = Null
    BY <1>8 DEF SetNull, Quietly, ListStep
  <2>2. QED
    BY <1>1, <1>2, <1>3, <1>4, <1>5, <2>1, LocalStep
<1>9. CASE NewList(k)
  <2>1. Move(k, "new", "reset") /\ UNCHANGED <<own, broken>>
    BY <1>9 DEF NewList, Quietly, ListStep
  <2>2. PICK l \in Lists : filelists' = l /\ heap' = [heap EXCEPT ![l] = EmptyList]
    BY <1>9 DEF NewList
  <2>3. HeapOK'
    <3>1. <<>> \in Seq(Beans \cup {NoBean}) /\ 0 <= Len(<<>>)
      OBVIOUS
    <3>2. QED
      BY <2>2, <3>1, HeapStep DEF EmptyList
  <2>4. QED
    BY <1>1, <1>2, <1>3, <1>5, <2>1, <2>2, <2>3, LocalStep
<1>10. QED
  BY <1>6, <1>7, <1>8, <1>9 DEF Renew

-----------------------------------------------------------------------------

\* A step of a cleaner thread that neither deletes, nor measures, nor decides
\* to go on.
Quiet(k) ==
  \E from, to \in ThreadSteps :
    /\ Move(k, from, to) /\ UNCHANGED <<files, freeSize>>
    /\ from # "measure" /\ to # "measure"
    /\ to \in {"scan", "add", "load", "store", "log", "logging", "sort", "write",
               "first", "iterate", "delete"} =>
         from \in {"scan", "add", "load", "store", "log", "logging", "sort", "write",
                   "first", "iterate", "delete"}

\* All the steps that work on the list are quiet, but for the deletion itself
\* and the measurement.
LEMMA ListStepsAreQuiet ==
  ASSUME NEW k \in Cleaners, Fill(k) \/ DeleteOldFile(k) \/ Renew(k),
         ~Delete(k), ~Measure(k)
  PROVE  Quiet(k) /\ UNCHANGED <<isCleaningNow, waiter>>
<1>1. ASSUME NEW from \in ThreadSteps, NEW to \in ThreadSteps,
             Quietly(k, from, to), from # "measure", to # "measure",
             to \in {"scan", "add", "load", "store", "log", "logging", "sort", "write",
                     "first", "iterate", "delete"} =>
               from \in {"scan", "add", "load", "store", "log", "logging", "sort",
                         "write", "first", "iterate", "delete"}
      PROVE  Quiet(k) /\ UNCHANGED <<isCleaningNow, waiter>>
  BY <1>1 DEF Quietly, ListStep, Quiet
<1>2. ASSUME NEW from \in ThreadSteps, Dies(k, from), from # "measure"
      PROVE  Quiet(k) /\ UNCHANGED <<isCleaningNow, waiter>>
  BY <1>2 DEF Dies, ListStep, Quiet, ThreadSteps
<1>3. CASE ListFiles(k)
  BY <1>1, <1>3 DEF ListFiles, ThreadSteps
<1>4. CASE AddTest(k)
  BY <1>1, <1>4 DEF AddTest, ThreadSteps
<1>5. CASE AddLoad(k)
  BY <1>1, <1>2, <1>5 DEF AddLoad, ThreadSteps
<1>6. CASE AddStore(k)
  BY <1>6 DEF AddStore, ListStep, Quiet, ThreadSteps
<1>7. CASE LogStart(k)
  BY <1>1, <1>2, <1>7 DEF LogStart, ThreadSteps
<1>8. CASE LogEnd(k)
  BY <1>2, <1>8 DEF LogEnd, ListStep, Quiet, ThreadSteps
<1>9. CASE SortCopy(k)
  BY <1>1, <1>2, <1>9 DEF SortCopy, ThreadSteps
<1>10. CASE SortWrite(k)
  BY <1>1, <1>2, <1>10 DEF SortWrite, ThreadSteps
<1>11. CASE GetFirst(k)
  BY <1>1, <1>2, <1>11 DEF GetFirst, ThreadSteps
<1>12. CASE Iterate(k)
  BY <1>1, <1>2, <1>12 DEF Iterate, ThreadSteps
<1>13. CASE NothingLeft(k)
  BY <1>1, <1>13 DEF NothingLeft, ThreadSteps
<1>14. CASE IteratorThrows(k)
  BY <1>2, <1>14 DEF IteratorThrows, ThreadSteps
<1>15. CASE ClearTest(k)
  BY <1>15 DEF ClearTest, ListStep, Quiet, ThreadSteps
<1>16. CASE Empty(k)
  BY <1>2, <1>16 DEF Empty, ListStep, Quiet, ThreadSteps
<1>17. CASE SetNull(k)
  BY <1>1, <1>17 DEF SetNull, ThreadSteps
<1>18. CASE NewList(k)
  BY <1>1, <1>18 DEF NewList, ThreadSteps
<1>19. QED
  BY <1>3, <1>4, <1>5, <1>6, <1>7, <1>8, <1>9, <1>10, <1>11, <1>12, <1>13, <1>14,
     <1>15, <1>16, <1>17, <1>18 DEF Fill, DeleteOldFile, Renew

\* Quiet steps keep the invariant if the types are kept.
LEMMA QuietKeeps ==
  ASSUME IInv, NEW k \in Cleaners, Quiet(k), ListOK', isCleaningNow' \in BOOLEAN,
         waiter' \in [Waiters -> WaiterSteps]
  PROVE  IInv'
<1>1. SdTypeOK
  BY DEF IInv
<1>2. PICK from \in ThreadSteps, to \in ThreadSteps :
        /\ Move(k, from, to) /\ UNCHANGED <<files, freeSize>>
        /\ from # "measure" /\ to # "measure"
        /\ to \in {"scan", "add", "load", "store", "log", "logging", "sort", "write",
                   "first", "iterate", "delete"} =>
             from \in {"scan", "add", "load", "store", "log", "logging", "sort", "write",
                       "first", "iterate", "delete"}
  BY DEF Quiet
<1>3. /\ thread[k] = from /\ thread' \in [Cleaners -> ThreadSteps]
      /\ thread'[k] = to
      /\ \A j \in Cleaners : j # k => thread'[j] = thread[j]
      /\ UNCHANGED <<created, other, moves, activity, rewrite, requests, mainAlive>>
  BY <1>1, <1>2, StepFacts
<1>4. Armed' \subseteq Armed
  BY <1>2, <1>3 DEF Armed
<1>5. Measuring' = Measuring
  BY <1>2, <1>3 DEF Measuring
<1>6. Free' = Free
  BY <1>2, <1>3 DEF Free
<1>7. SdTypeOK'
  BY <1>1, <1>2, <1>3, <1>6 DEF SdTypeOK
<1>8. Free \in Nat /\ moves \in Nat
  BY <1>1, SpaceFacts, ConstantFacts
<1>9. QED
  BY <1>2, <1>3, <1>4, <1>5, <1>6, <1>7, <1>8, SpaceKeeps

\* The steps that test and set the flag, and the broadcast at the end.
LEMMA FlagKeeps ==
  ASSUME IInv, NEW k \in Cleaners,
         TestFlag(k) \/ SetFlag(k) \/ ResetFlag(k) \/ SendComplete(k)
  PROVE  IInv'
<1>1. SdTypeOK
  BY DEF IInv
<1>2. UNCHANGED <<files, freeSize, lists, own, broken>>
  BY DEF TestFlag, SetFlag, ResetFlag, SendComplete
<1>3. PICK from \in {"test", "set", "reset", "send"}, to \in {"idle", "set", "decide", "send"} :
        Move(k, from, to)
  BY DEF TestFlag, SetFlag, ResetFlag, SendComplete
<1>4. from \in ThreadSteps /\ to \in ThreadSteps
  BY DEF ThreadSteps
<1>5. Quiet(k)
  BY <1>2, <1>3, <1>4 DEF Quiet
<1>6. ListOK'
  <2>1. /\ own[k] \in Locals /\ own = [own EXCEPT ![k] = own[k]]
        /\ filelists \in Lists \cup {Null} /\ HeapOK /\ broken \subseteq Cleaners
    BY <1>1, LocalFacts DEF SdTypeOK, ListOK, HeapOK
  <2>2. filelists' \in Lists \cup {Null} /\ HeapOK' /\ broken' \subseteq Cleaners
    BY <1>2, <2>1 DEF HeapOK, lists
  <2>3. own' = [own EXCEPT ![k] = own[k]]
    BY <1>2, <2>1
  <2>4. QED
    BY <1>1, <1>3, <1>4, <2>1, <2>2, <2>3, LocalStep
<1>7. isCleaningNow' \in BOOLEAN
  BY <1>1 DEF SdTypeOK, TestFlag, SetFlag, ResetFlag, SendComplete
<1>8. waiter' \in [Waiters -> WaiterSteps]
  BY <1>1 DEF SdTypeOK, WaiterSteps, TestFlag, SetFlag, ResetFlag, SendComplete
<1>9. QED
  BY <1>5, <1>6, <1>7, <1>8, QuietKeeps

\* And so do the steps that work on the list.
LEMMA ListStepsKeep ==
  ASSUME IInv, NEW k \in Cleaners, Fill(k) \/ DeleteOldFile(k) \/ Renew(k),
         ~Delete(k), ~Measure(k)
  PROVE  IInv'
<1>1. SdTypeOK
  BY DEF IInv
<1>2. ListOK'
  BY <1>1, FillTypes, DeleteTypes, RenewTypes
<1>3. Quiet(k) /\ UNCHANGED <<isCleaningNow, waiter>>
  BY ListStepsAreQuiet
<1>4. isCleaningNow' \in BOOLEAN /\ waiter' \in [Waiters -> WaiterSteps]
  BY <1>1, <1>3 DEF SdTypeOK
<1>5. QED
  BY <1>2, <1>3, <1>4, QuietKeeps

\* A thread decides to clean when less than minFreeSize was measured.
LEMMA DecideKeeps == ASSUME IInv, NEW k \in Cleaners, Decide(k) PROVE IInv'
<1>1. SdTypeOK
  BY DEF IInv
<1> DEFINE to == IF rewrite /\ freeSize < minFreeSize /\ activity THEN "scan" ELSE "idle"
<1>2. Move(k, "decide", to) /\ to \in ThreadSteps /\ "decide" \in ThreadSteps
  BY DEF Decide, ThreadSteps
<1>3. UNCHANGED <<files, freeSize, isCleaningNow, lists, own, broken, waiter>>
  BY DEF Decide
<1>4. to = "idle" \/ (to = "scan" /\ freeSize < minFreeSize)
  OBVIOUS
<1> HIDE DEF to
<1>5. /\ thread[k] = "decide" /\ thread' \in [Cleaners -> ThreadSteps]
      /\ thread'[k] = to
      /\ \A j \in Cleaners : j # k => thread'[j] = thread[j]
      /\ UNCHANGED <<created, other, moves, activity, rewrite, requests, mainAlive>>
  BY <1>1, <1>2, StepFacts
<1>6. Free' = Free /\ Measuring' = Measuring
  BY <1>3, <1>4, <1>5 DEF Free, Measuring
<1>7. SdTypeOK'
  <2>1. ListOK'
    <3>1. /\ own[k] \in Locals /\ own = [own EXCEPT ![k] = own[k]]
          /\ filelists \in Lists \cup {Null} /\ HeapOK /\ broken \subseteq Cleaners
      BY <1>1, LocalFacts DEF SdTypeOK, ListOK, HeapOK
    <3>2. filelists' \in Lists \cup {Null} /\ HeapOK' /\ broken' \subseteq Cleaners
      BY <1>3, <3>1 DEF HeapOK, lists
    <3>3. own' = [own EXCEPT ![k] = own[k]]
      BY <1>3, <3>1
    <3>4. QED
      BY <1>1, <1>2, <1>4, <3>1, <3>2, <3>3, LocalStep
  <2>2. QED
    BY <1>1, <1>3, <1>5, <1>6, <2>1 DEF SdTypeOK
<1>8. Free \in Nat /\ moves \in Nat /\ freeSize \in Nat
  BY <1>1, SpaceFacts, ConstantFacts
<1>9. CASE to = "idle"
  <2>1. Armed' \subseteq Armed
    BY <1>5, <1>9 DEF Armed
  <2>2. QED
    BY <1>3, <1>5, <1>6, <1>7, <1>8, <2>1, SpaceKeeps
<1>10. CASE to = "scan" /\ freeSize < minFreeSize
  <2>1. Armed' = Armed \cup {k} /\ k \notin Armed /\ k \notin Measuring
    BY <1>5, <1>10 DEF Armed, Measuring
  <2>2. Cardinality(Armed') = Cardinality(Armed) + 1
    BY <2>1, ThreadFacts, FS_AddElement
  <2>3. Free <= freeSize + Cardinality(Measuring) + moves
    BY DEF IInv, Measured
  <2>4. Cardinality(Armed) + Cardinality(Measuring) + 1 <= Cardinality(Cleaners)
    BY <2>1, ThreadFacts
  <2>5. Free + (Cardinality(Armed) + 1) <= cleanSize + Cardinality(Cleaners) + moves
    BY <1>8, <1>10, <2>3, <2>4, ThreadFacts, ConstantFacts
  <2>6. Room'
    BY <1>5, <1>6, <2>2, <2>5 DEF Room
  <2>7. Measured'
    BY <1>3, <1>5, <1>6, <2>3 DEF Measured
  <2>8. QED
    BY <1>7, <2>6, <2>7 DEF IInv
<1>11. QED
  BY <1>4, <1>9, <1>10

\* A deletion: the thread is no longer armed, and has to measure.
LEMMA DeleteFacts ==
  ASSUME IInv, NEW k \in Cleaners, Delete(k)
  PROVE  /\ SdTypeOK' /\ UNCHANGED <<freeSize, moves>>
         /\ Free' \in Nat /\ Free' <= Free + 1
         /\ k \in Armed /\ Armed' = Armed \ {k}
         /\ Measuring' = Measuring \cup {k} /\ k \notin Measuring
<1>1. SdTypeOK
  BY DEF IInv
<1>2. Move(k, "delete", "measure") /\ "delete" \in ThreadSteps /\ "measure" \in ThreadSteps
  BY DEF Delete, ListStep, ThreadSteps
<1>3. /\ files' = files \ {NextBean(k).file}
      /\ UNCHANGED <<freeSize, isCleaningNow, waiter>>
  BY DEF Delete, ListStep
<1>4. /\ thread[k] = "delete" /\ thread' \in [Cleaners -> ThreadSteps]
      /\ thread'[k] = "measure"
      /\ \A j \in Cleaners : j # k => thread'[j] = thread[j]
      /\ UNCHANGED <<created, other, moves, activity, rewrite, requests, mainAlive>>
  BY <1>1, <1>2, StepFacts
<1>5. /\ k \in Armed /\ Armed' = Armed \ {k}
      /\ Measuring' = Measuring \cup {k} /\ k \notin Measuring
  BY <1>4 DEF Armed, Measuring
<1>6. /\ IsFiniteSet(files) /\ Cardinality(files) \in Nat
      /\ Free = Capacity - other - Cardinality(files)
      /\ Free \in Nat /\ other \in Nat /\ created \in Nat
  BY <1>1, SpaceFacts, ConstantFacts
<1> DEFINE f == NextBean(k).file
<1>7. files' = files \/ (f \in files /\ files' = files \ {f})
  BY <1>3
<1>8. Cardinality(files') = Cardinality(files) \/ Cardinality(files') = Cardinality(files) - 1
  BY <1>6, <1>7, FS_RemoveElement
<1>9. Free' = Free \/ Free' = Free + 1
  BY <1>4, <1>6, <1>8, ConstantFacts DEF Free
<1>10. ListOK'
  BY <1>1, DeleteTypes DEF DeleteOldFile
<1>11. SdTypeOK'
  <2>1. /\ activity' \in BOOLEAN /\ rewrite' \in BOOLEAN /\ mainAlive' \in BOOLEAN
        /\ isCleaningNow' \in BOOLEAN
    BY <1>1, <1>3, <1>4, Zenon DEF SdTypeOK
  <2>2. files' \subseteq 1..created
    BY <1>1, <1>7 DEF SdTypeOK
  <2>3. Free' >= 0
    BY <1>6, <1>9
  <2>4. QED
    BY <1>1, <1>3, <1>4, <1>10, <2>1, <2>2, <2>3 DEF SdTypeOK
<1>12. QED
  BY <1>3, <1>4, <1>5, <1>6, <1>9, <1>11

\* A deletion keeps both bounds, and stays within the target.
LEMMA DeleteKeeps ==
  ASSUME IInv, NEW k \in Cleaners, Delete(k)
  PROVE  /\ IInv'
         /\ Free' + Cardinality(Armed') <= cleanSize + Cardinality(Cleaners) + moves
<1> DEFINE g == Free'
           a == Cardinality(Armed)
           b == Cardinality(Measuring)
<1>1. /\ Free \in Nat /\ moves \in Nat /\ freeSize \in Nat /\ g \in Nat
      /\ g <= Free + 1 /\ a \in Nat /\ b \in Nat
  BY DeleteFacts, SpaceFacts, ThreadFacts, ConstantFacts DEF IInv
<1>2. UNCHANGED <<freeSize, moves>> /\ SdTypeOK'
  BY DeleteFacts
<1>3. Cardinality(Armed') = a - 1 /\ a >= 1
  <2>1. k \in Armed /\ Armed' = Armed \ {k}
    BY DeleteFacts
  <2>2. Cardinality(Armed') = a - 1 /\ IsFiniteSet(Armed')
    BY <2>1, ThreadFacts, FS_RemoveElement
  <2>3. a # 0
    BY <2>1, ThreadFacts, FS_EmptySet
  <2>4. QED
    BY <1>1, <2>2, <2>3
<1>4. Cardinality(Measuring') = b + 1
  BY DeleteFacts, ThreadFacts, FS_AddElement
<1> HIDE DEF g, a, b
<1>5. Free <= freeSize + b + moves /\ Free + a <= cleanSize + Cardinality(Cleaners) + moves
  <2>1. Armed # {}
    BY DeleteFacts
  <2>2. QED
    BY <2>1 DEF IInv, Measured, Room, a, b
<1>6. g <= freeSize + (b + 1) + moves
  BY <1>1, <1>5
<1>7. g + (a - 1) <= cleanSize + Cardinality(Cleaners) + moves
  BY <1>1, <1>3, <1>5, ConstantFacts
<1>8. Measured'
  <2>1. Free' <= freeSize' + Cardinality(Measuring') + moves'
    BY <1>2, <1>4, <1>6, Zenon DEF g
  <2>2. QED
    BY <2>1, Zenon DEF Measured
<1>9. Room'
  <2>1. Free' + Cardinality(Armed') <= cleanSize + Cardinality(Cleaners) + moves'
    BY <1>2, <1>3, <1>7, Zenon DEF g
  <2>2. QED
    BY <2>1, Zenon DEF Room
<1>10. QED
  BY <1>2, <1>3, <1>7, <1>8, <1>9, Zenon DEF IInv, g

\* A measurement: the thread goes on, and is armed, when there is little space.
LEMMA MeasureKeeps == ASSUME IInv, NEW k \in Cleaners, Measure(k) PROVE IInv'
<1>1. SdTypeOK
  BY DEF IInv
<1> DEFINE to == IF Free > cleanSize THEN "clear" ELSE "delete"
<1>2. Move(k, "measure", to) /\ to \in ThreadSteps /\ "measure" \in ThreadSteps
  BY DEF Measure, ThreadSteps
<1>3. /\ freeSize' = Free
      /\ UNCHANGED <<files, isCleaningNow, waiter>>
  BY DEF Measure
<1>4. /\ Free \in 0..Capacity /\ Free \in Nat /\ moves \in Nat
  BY <1>1, SpaceFacts, ConstantFacts
<1>5. (to = "clear" /\ Free > cleanSize) \/ (to = "delete" /\ Free <= cleanSize)
  BY <1>4, ConstantFacts
<1> HIDE DEF to
<1>6. /\ thread[k] = "measure" /\ thread' \in [Cleaners -> ThreadSteps]
      /\ thread'[k] = to
      /\ \A j \in Cleaners : j # k => thread'[j] = thread[j]
      /\ UNCHANGED <<created, other, moves, activity, rewrite, requests, mainAlive>>
  BY <1>1, <1>2, StepFacts
<1>7. Free' = Free
  BY <1>3, <1>6 DEF Free
<1>8. SdTypeOK'
  <2>1. /\ activity' \in BOOLEAN /\ rewrite' \in BOOLEAN /\ mainAlive' \in BOOLEAN
        /\ isCleaningNow' \in BOOLEAN
    BY <1>1, <1>3, <1>6, Zenon DEF SdTypeOK
  <2>2. ListOK'
    BY <1>1, DeleteTypes DEF DeleteOldFile
  <2>3. QED
    BY <1>1, <1>3, <1>4, <1>6, <1>7, <2>1, <2>2 DEF SdTypeOK
<1>9. Measured'
  <2>1. Measuring' = Measuring \ {k} /\ k \in Measuring
    BY <1>5, <1>6 DEF Measuring
  <2>2. IsFiniteSet(Measuring')
    BY <2>1, ThreadFacts, FS_Subset
  <2> DEFINE b == Cardinality(Measuring')
  <2>3. b \in Nat
    BY <2>2, FS_CardinalityType
  <2> HIDE DEF b
  <2>4. Free <= Free + b + moves
    BY <1>4, <2>3
  <2>5. Free' <= freeSize' + Cardinality(Measuring') + moves'
    BY <1>3, <1>6, <1>7, <2>4, Zenon DEF b
  <2>6. QED
    BY <2>5, Zenon DEF Measured
<1>10. Room'
  <2>1. CASE to = "clear"
    <3>1. Armed' = Armed
      BY <1>6, <2>1 DEF Armed
    <3>2. QED
      BY <1>6, <1>7, <3>1 DEF IInv, Room
  <2>2. CASE to = "delete" /\ Free <= cleanSize
    <3>1. Armed' \in SUBSET Cleaners
      BY DEF Armed
    <3> DEFINE b == Cardinality(Armed')
    <3>2. b \in Nat /\ b <= Cardinality(Cleaners)
      BY <3>1, ConstantFacts, FS_Subset, FS_CardinalityType
    <3> HIDE DEF b
    <3>3. Free + b <= cleanSize + Cardinality(Cleaners) + moves
      BY <1>4, <2>2, <3>2, ConstantFacts
    <3>4. Free' + Cardinality(Armed') <= cleanSize + Cardinality(Cleaners) + moves'
      BY <1>6, <1>7, <3>3, Zenon DEF b
    <3>5. QED
      BY <3>4, Zenon DEF Room
  <2>3. QED
    BY <1>5, <2>1, <2>2
<1>11. QED
  BY <1>8, <1>9, <1>10 DEF IInv

\* Every step keeps the invariant.
LEMMA IInvNext == IInv /\ [Next]_vars => IInv'
<1> SUFFICES ASSUME IInv, [Next]_vars PROVE IInv'
  OBVIOUS
<1>1. CASE NewFile \/ OtherData \/ DeleteByHand
  BY <1>1, CardKeeps
<1>2. CASE \/ OpenDesktop \/ ToggleRewrite \/ Track \/ DeliverRequest
           \/ \E w \in Waiters : PressRecord(w) \/ DeliverComplete(w)
  BY <1>2, MainKeeps
<1>3. ASSUME NEW k \in Cleaners, Clean(k) PROVE IInv'
  BY <1>3, FlagKeeps, ListStepsKeep, DecideKeeps, DeleteKeeps, MeasureKeeps DEF Clean
<1>4. CASE UNCHANGED vars
  <2>1. SdTypeOK' /\ freeSize' = freeSize /\ Free' = Free /\ moves' = moves
        /\ Armed' = Armed /\ Measuring' = Measuring
    BY <1>4 DEF vars, card, cleaner, lists, IInv, SdTypeOK, ListOK, Free, Armed, Measuring
  <2>2. QED
    BY <2>1 DEF IInv, Measured, Room
<1>5. QED
  BY <1>1, <1>2, <1>3, <1>4 DEF Next

\* The inductive invariant: types, and both bounds on the free space.
THEOREM SdInductive == Spec => []IInv
BY IInvInit, IInvNext, PTL DEF Spec

\* The variables keep their types: the files stay on the card, and the
\* measurement in its range.
THEOREM SdTypeCorrect == Spec => []SdTypeOK
<1>1. IInv => SdTypeOK
  BY DEF IInv
<1>2. QED
  BY <1>1, SdInductive, PTL

\* Whatever cleaner threads share the list and the flag, however they
\* interleave and whatever they find in the list: after a deletion the room,
\* and a file more for each thread that is about to delete without another
\* look, goes beyond the target by at most one file for each thread and what
\* others have freed.
THEOREM OvershootAlways == Spec => OvershootBounded
<1>1. IInv /\ [Next]_vars =>
        [\A k \in Cleaners :
           thread[k] = "delete" /\ thread'[k] = "measure" /\ files' # files =>
             Free' + Cardinality(Armed') <= cleanSize + Cardinality(Cleaners) + moves]_vars
  <2> SUFFICES ASSUME IInv, Next, NEW k \in Cleaners,
                      thread[k] = "delete", thread'[k] = "measure", files' # files
               PROVE  Free' + Cardinality(Armed') <= cleanSize + Cardinality(Cleaners) + moves
    OBVIOUS
  <2>1. \E j \in Cleaners : Clean(j)
    <3>1. thread' # thread /\ files' # files
      OBVIOUS
    <3>2. QED
      BY <3>1 DEF Next, NewFile, OtherData, OpenDesktop, ToggleRewrite, DeleteByHand,
         Track, DeliverRequest, PressRecord, DeliverComplete, cleaner, card
  <2>2. PICK j \in Cleaners : Clean(j)
    BY <2>1
  <2>3. Delete(j)
    <3>1. CASE TestFlag(j) \/ SetFlag(j) \/ Decide(j) \/ ResetFlag(j) \/ SendComplete(j)
      BY <3>1 DEF TestFlag, SetFlag, Decide, ResetFlag, SendComplete
    <3>2. CASE Measure(j)
      BY <3>2 DEF Measure
    <3>3. CASE (Fill(j) \/ DeleteOldFile(j) \/ Renew(j)) /\ ~Delete(j) /\ ~Measure(j)
      BY <3>3, ListStepsAreQuiet DEF Quiet
    <3>4. QED
      BY <2>2, <3>1, <3>2, <3>3 DEF Clean
  <2>4. QED
    BY <2>3, DeleteKeeps
<1>2. QED
  BY <1>1, SdInductive, PTL DEF Spec, OvershootBounded
=============================================================================
