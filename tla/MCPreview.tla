----------------------------- MODULE MCPreview ------------------------------
(* Instances of Preview for TLC: three pictures are the one in hand, the one *)
(* shown last and the one shown before that.                                 *)
EXTENDS Preview

ThreePictures == 3
=============================================================================
