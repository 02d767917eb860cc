--------------------------- MODULE MCConsolidation ----------------------------
(* Small instances of Consolidation for TLC. *)
EXTENDS Consolidation

Event(kind, of, label, domain, entities) ==
  [kind |-> kind, session |-> "s", of |-> of, label |-> label, domain |-> domain, entities |-> entities,
   done |-> FALSE]

Started == Event("session_started", None, "s", None, <<>>)
Acted == Event("action_taken", None, "a", None, <<>>)
Prefers(v) == Event("preference", "theme", v, None, <<>>)
Done(t) == [Event("task_planned", t, "task", None, <<>>) EXCEPT !.done = TRUE]
Named(x) == [name |-> x, sort |-> "Account", label |-> "redacted"]
Observed(x) == Event("observation", None, "o", None, <<Named(x)>>)

\* Each batch is work for one of the jobs.
Given ==
  {<<Started, Acted, Acted>>,
   <<Observed("ann"), Observed("bob")>>,
   <<Done("t1"), Done("t2")>>,
   <<Prefers("light"), Prefers("dark"), Prefers("light")>>}

AllNames ==
  {"s", "a", "o", "task", "t1", "t2", "ann", "bob", "Account", "redacted", "shop",
   "theme", "light", "dark", "episode"}

Interchangeable == Permutations(Jobs)
=============================================================================
