---------------------------- MODULE MCSdCleaner ----------------------------
(* Instances of SdCleaner for TLC. *)
EXTENDS SdCleaner, TLC

\* The dates of a day of recording, and two files more than HalfInt apart.
OneDay == <<1, 2, 3>>
FarApart == <<1, 10>>

\* At the start the card holds nothing but two videos; a directory gives its
\* files in the order of creation, the setting is not taken back, and others
\* free or take space only while a thread may delete.  The rest makes the
\* instance larger, and no worse.
OnlyVideos == Init /\ other = 0 /\ created = 2
OnlyVideosSpec == OnlyVideos /\ [][Next]_vars
SmallSteps ==
  /\ \A k \in Cleaners : \A i, j \in DOMAIN own'[k].names :
       i < j => own'[k].names[i] < own'[k].names[j]
  /\ rewrite => rewrite'
  /\ moves' # moves => Armed # {}

Symmetry == Permutations(Cleaners) \cup Permutations(Waiters)
=============================================================================
