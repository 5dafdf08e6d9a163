--------------------------- MODULE MCCaptureBackend ---------------------------
(***************************************************************************)
(* Instances of CaptureBackend for TLC.  Two runs show what one leaves     *)
(* behind for the next; the other thread is main(), which may receive the  *)
(* signal while the capture thread is in run_impl().                       *)
(***************************************************************************)
EXTENDS CaptureBackend
=============================================================================
