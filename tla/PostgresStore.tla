----------------------------- MODULE PostgresStore -----------------------------
(***************************************************************************)
(* The writes of PostgresGraphStore                                        *)
(* (packages/orchestrator/src/memory/postgresGraphStore.ts), statement by  *)
(* statement: applyBatch, deleteNodes, deleteEdges, upserts and touch, each *)
(* with its client of the pool, the transaction around it, and the         *)
(* migrations that all calls wait for.                                     *)
(*                                                                         *)
(* The database is external, and modelled from how the code uses it:       *)
(* READ COMMITTED, as no statement asks for more.  A statement works on    *)
(* the rows that were committed, or its own, when it began; it takes them  *)
(* one by one, waits for the transaction that holds one, and looks at what *)
(* that has left of it.  A transaction keeps its rows to its end.  When    *)
(* transactions wait for each other, one of them is aborted.               *)
(***************************************************************************)
EXTENDS Integers, Sequences, SequencesExt

CONSTANTS
  Calls,        \* calls of the store that write
  Nodes, Edges, \* rows, of one install
  EndsOf,       \* the two nodes of each edge
  None,         \* no row
  Workloads,    \* what the calls are asked to do: the choices there are
  Before,       \* the rows there are before all calls
  PoolSize,     \* clients of the pool
  MaxFaults     \* bound: database calls that are rejected

Rows == Nodes \cup Edges

\* A batch in the order of its statements.  deleteNodes, deleteEdges, upsertNode and
\* upsertEdge are batches with one part; touch updates rows without changing what
\* is modelled of them.
Op == [upserts: Seq(Rows), delEdges: SUBSET Edges, delNodes: SUBSET Nodes, touch: SUBSET Nodes]

ASSUME StoreAssumption ==
  /\ EndsOf \in [Edges -> SUBSET Nodes]
  /\ None \notin Calls \cup {"before"} /\ Before \subseteq Rows
  /\ PoolSize \in Nat \ {0} /\ MaxFaults \in Nat
  /\ \A w \in Workloads : DOMAIN w = Calls /\ \A c \in Calls : w[c] \in Op

VARIABLES
  rows,         \* committed: who wrote each row last, None if there is no such row
  initialized,  \* the promise of init(): "none", "waiting" for a client, "running",
                \* "ok" or "failed"
  clients,      \* clients of the pool that are free
  op,           \* what each call is asked to do
  call,         \* where each call is, see Call
  during,       \* history: the calls that were committed while each call ran
  faults        \* database calls that have been rejected

vars == <<rows, initialized, clients, op, call, during, faults>>

\* stmt: the statement a call is at; want, todo: the row it takes next, and the others;
\* mine: the rows it has taken, with what it has made of them.
Call == [at: {"new", "init", "connect", "issue", "taking", "commit", "rollback", "ok", "failed"},
         stmt: Nat, want: Rows \cup {None}, todo: SUBSET Rows,
         mine: UNION {[S -> Calls \cup {None, "before"}] : S \in SUBSET Rows}]

-----------------------------------------------------------------------------
(* The statements of an operation                                          *)

Incident(nodes) == {e \in Edges : EndsOf[e] \cap nodes # {}}

Statement(kind, set) == IF set = {} THEN <<>> ELSE <<[kind |-> kind, rows |-> set]>>

Upserts(o) == [i \in DOMAIN o.upserts |-> [kind |-> "upsert", rows |-> {o.upserts[i]}]]

\* Mutant: the edges of deleted nodes are left.
DeletesNodesOnly(o) == Statement("delete", o.delEdges) \o Statement("delete", o.delNodes)

\* Edges by their id; then, if nodes are to be deleted, the edges at them, and they
\* themselves.
Deletes(o) ==
  Statement("delete", o.delEdges)
    \o (IF o.delNodes = {} THEN <<>> ELSE Statement("delete", Incident(o.delNodes)))
    \o Statement("delete", o.delNodes)

Statements(o) == Upserts(o) \o Deletes(o) \o Statement("touch", o.touch)

-----------------------------------------------------------------------------
(* The database                                                            *)

\* A row as call c sees it, and who else has taken it.
Sees(c, x) == IF x \in DOMAIN call[c].mine THEN call[c].mine[x] ELSE rows[x]
Holders(c, x) == {d \in Calls \ {c} : x \in DOMAIN call[d].mine}

\* c waits for a row of d; there is a chain of such waits from c to d.
WaitsFor(c, d) == call[c].at = "taking" /\ d \in Holders(c, call[c].want)
Deadlocked(c) ==
  LET next(S) == {d \in Calls : \E b \in S : WaitsFor(b, d)}
      reach[n \in 0 .. Len(SetToSeq(Calls))] ==
        IF n = 0 THEN next({c}) ELSE reach[n - 1] \cup next(reach[n - 1])
  IN  c \in reach[Len(SetToSeq(Calls))]

\* The statement's target rows when it begins.
Targets(c, statement) ==
  IF statement.kind = "upsert" THEN statement.rows
  ELSE {x \in statement.rows : Sees(c, x) # None}

\* What a statement makes of a row it has taken.
Made(c, statement, x) ==
  CASE statement.kind = "upsert" -> c
    [] statement.kind = "delete" -> None
    [] statement.kind = "touch"  -> Sees(c, x)

\* The call goes on with one of the rows that are left, or with its next statement.
GoOn(c, left, mine) ==
  LET done == call[c].stmt = Len(Statements(op[c])) IN
  IF left # {}
  THEN \E x \in left :
         call' = [call EXCEPT ![c] = [call[c] EXCEPT
                    !.at = "taking", !.want = x, !.todo = left \ {x}, !.mine = mine]]
  ELSE call' = [call EXCEPT ![c] = [call[c] EXCEPT
                  !.at = IF done THEN "commit" ELSE "issue", !.want = None, !.todo = {},
                  !.stmt = IF done THEN @ ELSE @ + 1, !.mine = mine]]

-----------------------------------------------------------------------------
(* init                                                                    *)

Becomes(c, at) == call' = [call EXCEPT ![c].at = at]

\* A call of the store: the first one of all begins the migrations.
Invoke(c) ==
  /\ call[c].at = "new" /\ Becomes(c, "init")
  /\ initialized' = IF initialized = "none" THEN "waiting" ELSE initialized
  /\ UNCHANGED <<rows, clients, op, during, faults>>

MigrationConnects ==
  /\ initialized = "waiting" /\ clients > 0
  /\ initialized' = "running" /\ clients' = clients - 1
  /\ UNCHANGED <<rows, op, call, during, faults>>

\* They end, and their client is released: the promise is kept, resolved or rejected.
MigrationEnds ==
  /\ initialized = "running"
  /\ \/ initialized' = "ok" /\ UNCHANGED faults
     \/ faults < MaxFaults /\ faults' = faults + 1 /\ initialized' = "failed"
  /\ clients' = clients + 1
  /\ UNCHANGED <<rows, op, call, during>>

\* The call resumes after init().
InitSettles(c) ==
  /\ call[c].at = "init"
  /\ \/ initialized = "ok" /\ Becomes(c, "connect")
     \/ initialized = "failed" /\ Becomes(c, "failed")
  /\ UNCHANGED <<rows, initialized, clients, op, during, faults>>

-----------------------------------------------------------------------------
(* A transaction, or a single statement                                    *)

\* A client is free: BEGIN, and the first statement is next, if a batch has any.
Connect(c) ==
  /\ call[c].at = "connect" /\ clients > 0 /\ clients' = clients - 1
  /\ call' = [call EXCEPT ![c].at = IF Statements(op[c]) = <<>> THEN "commit" ELSE "issue",
                         ![c].stmt = 1]
  /\ UNCHANGED <<rows, initialized, op, during, faults>>

\* A statement begins.
Issue(c) ==
  /\ call[c].at = "issue"
  /\ GoOn(c, Targets(c, Statements(op[c])[call[c].stmt]), call[c].mine)
  /\ UNCHANGED <<rows, initialized, clients, op, during, faults>>

\* It takes a row nobody else has; a row it was to delete or update may be gone by now.
TakeRow(c) ==
  /\ call[c].at = "taking" /\ Holders(c, call[c].want) = {}
  /\ LET statement == Statements(op[c])[call[c].stmt]
         x == call[c].want
         gone == statement.kind # "upsert" /\ Sees(c, x) = None
     IN  GoOn(c, call[c].todo,
              IF gone THEN call[c].mine
              ELSE [y \in DOMAIN call[c].mine \cup {x} |->
                      IF y = x THEN Made(c, statement, x) ELSE call[c].mine[y]])
  /\ UNCHANGED <<rows, initialized, clients, op, during, faults>>

\* The call is at an end, and what it has taken is free.
Ends(c, at) ==
  call' = [call EXCEPT ![c] = [call[c] EXCEPT !.at = at, !.want = None, !.todo = {}, !.mine = <<>>]]

Publish(c) ==
  /\ rows' = [x \in Rows |-> Sees(c, x)]
  /\ during' = [d \in Calls |-> IF d # c /\ call[d].at \notin {"new", "rollback", "ok", "failed"}
                                THEN during[d] \cup {c} ELSE during[d]]

\* COMMIT is answered, or its answer is lost.
Commit(c) ==
  /\ call[c].at = "commit" /\ Publish(c)
  /\ \/ Ends(c, "ok") /\ clients' = clients + 1 /\ UNCHANGED faults
     \/ faults < MaxFaults /\ faults' = faults + 1 /\ Ends(c, "rollback") /\ UNCHANGED clients
  /\ UNCHANGED <<initialized, op>>

\* A statement is rejected: the database has undone the transaction.
QueryFails(c) ==
  /\ call[c].at \in {"issue", "taking", "commit"} /\ Ends(c, "rollback")
  /\ \/ Deadlocked(c) /\ UNCHANGED faults
     \/ faults < MaxFaults /\ faults' = faults + 1
  /\ UNCHANGED <<rows, initialized, clients, op, during>>

\* connect() is rejected: there is no client to give back.
ConnectFails(c) ==
  /\ call[c].at = "connect" /\ faults < MaxFaults
  /\ faults' = faults + 1 /\ Becomes(c, "failed")
  /\ UNCHANGED <<rows, initialized, clients, op, during>>

\* Mutants: the client of a call that fails is not released; it is released twice.
Forgotten(n) == n
ReleasedTwice(n) == n + 2

\* The free clients when one is released.
Released(n) == n + 1

\* ROLLBACK is answered or rejected; either way the client is released and the error
\* passed on.
RolledBack(c) ==
  /\ call[c].at = "rollback" /\ Becomes(c, "failed")
  /\ clients' = Released(clients)
  /\ UNCHANGED <<rows, initialized, op, during, faults>>

-----------------------------------------------------------------------------

Init ==
  /\ rows = [x \in Rows |-> IF x \in Before THEN "before" ELSE None]
  /\ initialized = "none" /\ clients = PoolSize /\ faults = 0
  /\ op \in Workloads
  /\ call = [c \in Calls |-> [at |-> "new", stmt |-> 0, want |-> None, todo |-> {}, mine |-> <<>>]]
  /\ during = [c \in Calls |-> {}]

\* What the store, the pool and the database do once a call has been made.
CallStep(c) ==
  \/ InitSettles(c) \/ Connect(c) \/ ConnectFails(c) \/ Issue(c) \/ TakeRow(c)
  \/ Commit(c) \/ QueryFails(c) \/ RolledBack(c)
Migrate == MigrationConnects \/ MigrationEnds

Next == Migrate \/ \E c \in Calls : Invoke(c) \/ CallStep(c)

Spec == Init /\ [][Next]_vars

\* The database answers, aborts one of those that wait for each other, and the pool
\* serves who waits for a client.
FairSpec == Spec /\ WF_vars(Migrate) /\ \A c \in Calls : WF_vars(CallStep(c))

-----------------------------------------------------------------------------
(* Properties                                                              *)

\* The type invariant of the rows, the pool and the calls: nobody has more clients
\* than there are, and no row is held by two.
TypeOK ==
  /\ rows \in [Rows -> Calls \cup {None, "before"}]
  /\ initialized \in {"none", "waiting", "running", "ok", "failed"}
  /\ clients \in 0 .. PoolSize
  /\ op \in Workloads
  /\ call \in [Calls -> Call]
  /\ during \in [Calls -> SUBSET Calls]
  /\ faults \in 0 .. MaxFaults
  /\ \A c, d \in Calls : c # d => DOMAIN call[c].mine \cap DOMAIN call[d].mine = {}

Stage(c) ==
  IF call[c].at \in {"new", "ok", "failed"} THEN call[c].at
  ELSE IF call[c].at = "rollback" THEN "failed" ELSE "running"

\* The store implements the port with torn deletions: a call that succeeds is applied
\* at once and in full to what the earlier ones left, one that fails has done
\* nothing unless the answer to its COMMIT was lost, and a deletion passes over a
\* row only if the row was written by a call that ended while it ran.
Store == INSTANCE AtomicStore WITH
           TornDeletes <- TRUE,
           op <- [c \in Calls |-> [upserts |-> ToSet(op[c].upserts), delEdges |-> op[c].delEdges,
                                   delNodes |-> op[c].delNodes]],
           stage <- [c \in Calls |-> Stage(c)]

AppliesBatches == Store!Spec

\* Every call returns or is rejected: clients find their way back to the pool, and waits
\* for rows end, in whatever order and with whatever failures the calls meet.
EveryCallSettles == \A c \in Calls : call[c].at # "new" ~> call[c].at \in {"ok", "failed"}

\* graphStore.ts:51 "Applies all upserts/deletes atomically (single transaction in
\* Postgres)": what is left when all calls have returned is what they leave when they
\* are made one after the other, in some order.
Serializable ==
  (\A c \in Calls : call[c].at = "ok") =>
    \E order \in SetToSeqs(Calls) :
      LET after(state, c) ==
            [x \in Rows |->
               IF x \in op[c].delEdges \cup op[c].delNodes \cup Incident(op[c].delNodes) THEN None
               ELSE IF x \in ToSet(op[c].upserts) THEN c ELSE state[x]]
      IN  rows = FoldLeft(after, [x \in Rows |-> IF x \in Before THEN "before" ELSE None], order)

=============================================================================
