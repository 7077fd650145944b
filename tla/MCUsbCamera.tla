---------------------------- MODULE MCUsbCamera -----------------------------
(* Instances of UsbCamera for TLC. *)
EXTENDS UsbCamera

AllFailures == Steps
NoFailures == {}
=============================================================================
