------------------------------ MODULE AtomicStore ------------------------------
(***************************************************************************)
(* What the port of the knowledge graph promises of its writes             *)
(* (packages/orchestrator/src/memory/graphStore.ts): a batch is "applied   *)
(* atomically", a deletion "cascades to all incident edges", a call that   *)
(* is rejected has done nothing.                                           *)
(*                                                                         *)
(* With TornDeletes it promises less, namely what PostgresStore keeps: a   *)
(* deletion may pass over rows written by calls that ended while it ran.   *)
(***************************************************************************)
CONSTANTS
  Calls,        \* calls of the port that write
  Nodes, Edges, \* rows, of one install
  EndsOf,       \* the two nodes of each edge
  None,         \* no row
  TornDeletes   \* whether a deletion may pass over rows

Rows == Nodes \cup Edges

VARIABLES
  rows,         \* who wrote each row last, None if there is no such row
  op,           \* what each call is asked to do
  stage,        \* of each call: "new", "running", "ok", "failed"
  during        \* the calls that were applied while each call ran

vars == <<rows, op, stage, during>>

Incident(nodes) == {e \in Edges : EndsOf[e] \cap nodes # {}}

\* The rows an operation deletes, the edges of deleted nodes among them; it may
\* have written them just before.
Deleted(o) == o.delEdges \cup o.delNodes \cup Incident(o.delNodes)

\* The rows after call c has been applied, but for the rows in spared.
After(c, spared) ==
  [x \in Rows |-> IF x \in spared THEN rows[x]
                  ELSE IF x \in Deleted(op[c]) THEN None
                  ELSE IF x \in op[c].upserts THEN c
                  ELSE rows[x]]

\* What a deletion may pass over.
Spareable(c) ==
  IF TornDeletes THEN {x \in Deleted(op[c]) : rows[x] \in during[c]} ELSE {}

Begin(c) ==
  /\ stage[c] = "new"
  /\ stage' = [stage EXCEPT ![c] = "running"]
  /\ UNCHANGED <<rows, op, during>>

\* A call is applied; its caller is told, or is told that it failed (the answer was
\* lost).
Apply(c) ==
  /\ stage[c] = "running"
  /\ \E spared \in SUBSET Spareable(c) : rows' = After(c, spared)
  /\ stage' \in {[stage EXCEPT ![c] = outcome] : outcome \in {"ok", "failed"}}
  /\ during' = [d \in Calls |-> IF stage'[d] = "running" THEN during[d] \cup {c} ELSE during[d]]
  /\ UNCHANGED op

\* A call fails and has done nothing.
Fail(c) ==
  /\ stage[c] = "running"
  /\ stage' = [stage EXCEPT ![c] = "failed"]
  /\ UNCHANGED <<rows, op, during>>

Init ==
  /\ rows \in [Rows -> Calls \cup {None, "before"}]
  /\ stage = [c \in Calls |-> "new"]
  /\ during = [c \in Calls |-> {}]

Next == \E c \in Calls : Begin(c) \/ Apply(c) \/ Fail(c)

Spec == Init /\ [][Next]_vars

=============================================================================
