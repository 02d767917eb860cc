---------------------------- MODULE MCSessionInit ----------------------------
(* Small instances of SessionInit for TLC. *)
EXTENDS SessionInit, TLC


\* All the fetches are of one browser.
MCBrowserOf == [f \in Fetches |-> CHOOSE b \in Browsers : TRUE]

\* A client's clock is right, or four ticks ahead.
MCSkews == {0, 4}

\* Everything is set up; minting is switched off; the websocket URL is missing.
MCConfigs == [minting: BOOLEAN, ready: BOOLEAN] \ {[minting |-> FALSE, ready |-> FALSE]}

\* Fetches of one browser are interchangeable, and so are addresses.
Interchangeable == Permutations(Fetches) \cup Permutations(Addresses)

=============================================================================
