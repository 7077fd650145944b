----------------------------- MODULE FileOrder -----------------------------
(***************************************************************************)
(* The order in which video files are deleted.  VideoFileBeanComparator    *)
(* subtracts two dates in milliseconds as longs and casts the difference   *)
(* to int, which keeps its low 32 bits; Collections.sort is given that     *)
(* comparator.                                                             *)
(***************************************************************************)
EXTENDS Integers, Sequences, FiniteSets, TLC

CONSTANTS
  HalfInt,  \* 2^31 ms, about 24.8 days: the ints are -HalfInt..HalfInt-1
  Dates     \* lastModified of file n, n = 1, 2, ... in the order of creation

ASSUME OrderAssumption ==
  /\ HalfInt \in Nat \ {0}
  /\ Dates \in Seq(Nat)
  /\ \A i, j \in 1..Len(Dates) : i < j => Dates[i] <= Dates[j]

\* The (int) cast.
CastToInt(x) == ((x + HalfInt) % (2 * HalfInt)) - HalfInt

\* A VideoFileBean: the file, and its date when it was looked at.
Beans == [file : 1..Len(Dates), date : Nat]

compare(b, c) == CastToInt(b.date - c.date)

\* The rearrangements of the places of a list.
Orders(D) == Permutations(D) \cap [D -> D]

\* What a sort that goes by the comparator may make of the sequence s: it
\* leaves no two neighbours in an order the comparator objects to.
Sorted(s) ==
  {[i \in DOMAIN s |-> s[p[i]]] : p \in
     {q \in Orders(DOMAIN s) :
        \A i \in 1..(Len(s) - 1) : compare(s[q[i]], s[q[i + 1]]) <= 0}}
=============================================================================
