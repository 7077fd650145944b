--------------------------- MODULE MCSingleCamera ---------------------------
(* Instances of SingleCamera for TLC. *)
EXTENDS SingleCamera

AllFailures == Steps
=============================================================================
