----------------------------- MODULE MCMicCapture -----------------------------
(* A small instance of MicCapture for TLC. *)
EXTENDS MicCapture

=============================================================================
