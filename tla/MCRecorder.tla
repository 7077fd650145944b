----------------------------- MODULE MCRecorder -----------------------------
(* Instances of Recorder for TLC. *)
EXTENDS Recorder

\* The seconds between two names: each file has its own name, or a name may
\* be given twice within a second.
Apart == {1}
MayCollide == {0, 1}
=============================================================================
