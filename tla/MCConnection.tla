----------------------------- MODULE MCConnection -----------------------------
(* Small instances of Connection for TLC. *)
EXTENDS Connection, TLC

\* Starts, sockets and (when all are chunks, or none) events are not told apart.
Interchangeable == Permutations(Starts) \cup Permutations(Sockets) \cup Permutations(Events)

=============================================================================
