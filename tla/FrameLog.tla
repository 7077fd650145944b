------------------------------ MODULE FrameLog ------------------------------
(***************************************************************************)
(* What recording promises about the frames of a channel, whatever threads *)
(* carry them: a frame the camera has produced is written to at most one   *)
(* file and never again, and the frames of a file are in the order the     *)
(* camera produced them.  A frame may be in no file: the buffer gives      *)
(* frames up when it is full, and an exception of the recorder loses one.  *)
(***************************************************************************)
EXTENDS Integers

CONSTANTS MaxFrames,  \* bound: frames produced
          Files,      \* the files, one for each recorder
          Ordered     \* FALSE: the order within a file is not promised

VARIABLES produced,   \* frames produced so far
          logged      \* the file of each frame, 0 for none

Frames == 1..MaxFrames

Init ==
  /\ produced = 0
  /\ logged = [f \in Frames |-> 0]

Produce ==
  /\ produced < MaxFrames
  /\ produced' = produced + 1
  /\ UNCHANGED logged

Log(f, v) ==
  /\ f <= produced
  /\ logged[f] = 0
  /\ Ordered => \A g \in Frames : logged[g] = v => g < f
  /\ logged' = [logged EXCEPT ![f] = v]
  /\ UNCHANGED produced

Next == Produce \/ \E f \in Frames, v \in Files : Log(f, v)

Spec == Init /\ [][Next]_<<produced, logged>>
=============================================================================
