---------------------------- MODULE MCCaptureRing ----------------------------
(* Finite instances of CaptureRing for TLC.                                *)
EXTENDS CaptureRing

=============================================================================
