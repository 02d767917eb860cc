------------------------------ MODULE MCRunEvents ------------------------------
(* A small instance of RunEvents for TLC. *)
EXTENDS RunEvents, TLC

CONSTANT alice

\* All runs are one install's.
MCOwnerOf == [r \in Runs |-> alice]

=============================================================================
