------------------------------- MODULE EventLog -------------------------------
(***************************************************************************)
(* What the event bus promises (packages/orchestrator/src/events.ts):     *)
(* every run has a log that only grows; a reader is given the newest      *)
(* Window entries of one log at once ("bounded per-run history so a late  *)
(* SSE subscriber can replay what already happened") and from then on     *)
(* every entry as it is appended, once and in order, until the log        *)
(* reports the end of its run, or the reader leaves.                      *)
(*                                                                         *)
(* There are no subscribers, buffers or flags here: RunEvents has those,  *)
(* and is shown to implement this.                                        *)
(***************************************************************************)
EXTENDS Integers, Sequences

CONSTANTS
  Runs, Readers,
  Window,      \* how much of a log a late reader is given
  EndKinds     \* the kinds of entries that report the end of a run

VARIABLES
  log,         \* all that was published of each run
  read,        \* what each reader was given
  follows      \* the run each reader follows: a set of one run or none

vars == <<log, read, follows>>

\* The last n elements of s, or all of them.
Newest(s, n) == SubSeq(s, IF Len(s) > n THEN Len(s) - n + 1 ELSE 1, Len(s))

HasEnd(s) == \E i \in DOMAIN s : s[i].kind \in EndKinds

\* What a step appends to a log.
News(r) == SubSeq(log'[r], Len(log[r]) + 1, Len(log'[r]))

Init ==
  /\ log = [r \in Runs |-> <<>>]
  /\ read = [s \in Readers |-> <<>>]
  /\ follows = [s \in Readers |-> {}]

\* Entries are appended, and every follower of the run is given them; the end of
\* the run is the end of following it.
Publish(r) ==
  /\ Len(log'[r]) > Len(log[r])
  /\ log' = [log EXCEPT ![r] = log[r] \o News(r)]
  /\ read' = [s \in Readers |-> IF r \in follows[s] THEN read[s] \o News(r) ELSE read[s]]
  /\ follows' = [s \in Readers |-> IF HasEnd(News(r)) THEN follows[s] \ {r} ELSE follows[s]]

\* A reader joins: it is given what there is, and follows the run if it goes on.
Join(s, r) ==
  /\ read[s] = <<>> /\ log[r] # <<>>
  /\ read' = [read EXCEPT ![s] = Newest(log[r], Window)]
  /\ follows' = [follows EXCEPT ![s] = IF HasEnd(log[r]) THEN {} ELSE {r}]
  /\ UNCHANGED log

Leave(s) ==
  /\ follows' = [follows EXCEPT ![s] = {}]
  /\ UNCHANGED <<log, read>>

Next ==
  \/ \E r \in Runs : Publish(r)
  \/ \E s \in Readers, r \in Runs : Join(s, r)
  \/ \E s \in Readers : Leave(s)

Spec == Init /\ [][Next]_vars

=============================================================================
