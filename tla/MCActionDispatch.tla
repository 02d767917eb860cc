--------------------------- MODULE MCActionDispatch ---------------------------
(* Small instances of ActionDispatch for TLC. *)
EXTENDS ActionDispatch, TLC

CONSTANTS e1, e2, e3, k1, k2

\* Requests with one key, which is also cancelled, and one with another.
MCKeyOf == [x \in Executes \cup Cancels |-> IF x = e3 THEN k2 ELSE k1]

\* The two requests with the same key are interchangeable.
SameKey == Permutations({e1, e2})

=============================================================================
