-------------------------- MODULE PostgresStoreProofs --------------------------
(***************************************************************************)
(* Proofs about PostgresStore, for every number of calls, rows and clients, *)
(* every batch and every number of failures: the pool gets its clients     *)
(* back, no row is held by two, and the store implements AtomicStore.      *)
(***************************************************************************)
EXTENDS PostgresStore, FiniteSetTheorems, TLAPS
LOCAL INSTANCE SequenceTheorems

-----------------------------------------------------------------------------
(* The statements of an operation                                          *)

SqlStatement == [kind: {"upsert", "delete", "touch"}, rows: SUBSET Rows]

\* The rows that the statements of one kind are about, and the order of the kinds.
RowsOf(s, kind) == {x \in Rows : \E i \in DOMAIN s : s[i].kind = kind /\ x \in s[i].rows}
NoUpsert(s) == \A i \in DOMAIN s : s[i].kind # "upsert"
UpsertsFirst(s) ==
  \A i, j \in DOMAIN s : i < j /\ s[j].kind = "upsert" => s[i].kind = "upsert"

LEMMA Concat ==
  ASSUME NEW s \in Seq(SqlStatement), NEW t \in Seq(SqlStatement)
  PROVE  /\ s \o t \in Seq(SqlStatement)
         /\ Len(s) \in Nat /\ Len(t) \in Nat
         /\ DOMAIN s = 1 .. Len(s) /\ DOMAIN t = 1 .. Len(t)
         /\ DOMAIN (s \o t) = 1 .. Len(s) + Len(t)
         /\ \A i \in 1 .. Len(s) : (s \o t)[i] = s[i]
         /\ \A i \in Len(s) + 1 .. Len(s) + Len(t) : (s \o t)[i] = t[i - Len(s)]
<1>1. /\ s \o t \in Seq(SqlStatement)
      /\ Len(s \o t) = Len(s) + Len(t)
      /\ \A i \in 1 .. Len(s) + Len(t) : (s \o t)[i] = IF i <= Len(s) THEN s[i] ELSE t[i - Len(s)]
  BY ConcatProperties
<1>2. Len(s) \in Nat /\ Len(t) \in Nat /\ DOMAIN s = 1 .. Len(s) /\ DOMAIN t = 1 .. Len(t)
  BY LenProperties
<1>3. DOMAIN (s \o t) = 1 .. Len(s \o t)
  BY <1>1, LenProperties
<1> QED BY <1>1, <1>2, <1>3

LEMMA ConcatRows ==
  ASSUME NEW s \in Seq(SqlStatement), NEW t \in Seq(SqlStatement), NEW kind
  PROVE  RowsOf(s \o t, kind) = RowsOf(s, kind) \cup RowsOf(t, kind)
<1>1. ASSUME NEW x \in Rows, NEW i \in DOMAIN (s \o t), (s \o t)[i].kind = kind,
             x \in (s \o t)[i].rows
      PROVE  x \in RowsOf(s, kind) \cup RowsOf(t, kind)
  <2>1. CASE i \in 1 .. Len(s)
    BY <1>1, <2>1, Concat DEF RowsOf
  <2>2. CASE i \in Len(s) + 1 .. Len(s) + Len(t)
    <3>1. i - Len(s) \in DOMAIN t
      BY <2>2, Concat
    <3> QED BY <1>1, <2>2, <3>1, Concat DEF RowsOf
  <2> QED BY <2>1, <2>2, Concat
<1>2. ASSUME NEW x \in Rows, NEW i \in DOMAIN s, s[i].kind = kind, x \in s[i].rows
      PROVE  x \in RowsOf(s \o t, kind)
  <2>1. i \in DOMAIN (s \o t) /\ (s \o t)[i] = s[i]
    BY Concat
  <2> QED BY <1>2, <2>1 DEF RowsOf
<1>3. ASSUME NEW x \in Rows, NEW i \in DOMAIN t, t[i].kind = kind, x \in t[i].rows
      PROVE  x \in RowsOf(s \o t, kind)
  <2>1. Len(s) + i \in DOMAIN (s \o t) /\ Len(s) + i \in Len(s) + 1 .. Len(s) + Len(t)
        /\ (Len(s) + i) - Len(s) = i
    BY Concat
  <2>2. (s \o t)[Len(s) + i] = t[i]
    BY <2>1, Concat
  <2> QED BY <1>3, <2>1, <2>2 DEF RowsOf
<1>4. RowsOf(s \o t, kind) \subseteq RowsOf(s, kind) \cup RowsOf(t, kind)
  BY <1>1 DEF RowsOf
<1>5. /\ RowsOf(s, kind) \subseteq RowsOf(s \o t, kind)
      /\ RowsOf(t, kind) \subseteq RowsOf(s \o t, kind)
  BY <1>2, <1>3 DEF RowsOf
<1> QED BY <1>4, <1>5

\* The two kinds the proofs are about.
LEMMA ConcatMeans ==
  ASSUME NEW s \in Seq(SqlStatement), NEW t \in Seq(SqlStatement)
  PROVE  /\ s \o t \in Seq(SqlStatement)
         /\ RowsOf(s \o t, "upsert") = RowsOf(s, "upsert") \cup RowsOf(t, "upsert")
         /\ RowsOf(s \o t, "delete") = RowsOf(s, "delete") \cup RowsOf(t, "delete")
         /\ NoUpsert(s) /\ NoUpsert(t) => NoUpsert(s \o t)
<1>1. s \o t \in Seq(SqlStatement)
  BY Concat
<1>2. \A kind : RowsOf(s \o t, kind) = RowsOf(s, kind) \cup RowsOf(t, kind)
  BY ConcatRows
<1>3. ASSUME NoUpsert(s), NoUpsert(t), NEW i \in DOMAIN (s \o t)
      PROVE  (s \o t)[i].kind # "upsert"
  <2>1. CASE i \in 1 .. Len(s)
    BY <1>3, <2>1, Concat DEF NoUpsert
  <2>2. CASE i \in Len(s) + 1 .. Len(s) + Len(t)
    <3>1. i - Len(s) \in DOMAIN t
      BY <2>2, Concat
    <3> QED BY <1>3, <2>2, <3>1, Concat DEF NoUpsert
  <2> QED BY <2>1, <2>2, Concat
<1> QED BY <1>1, <1>2, <1>3 DEF NoUpsert

LEMMA NoRows ==
  <<>> \in Seq(SqlStatement) /\ NoUpsert(<<>>) /\ \A kind : RowsOf(<<>>, kind) = {}
<1>1. \A i \in DOMAIN <<>> : FALSE
  OBVIOUS
<1>2. ASSUME NEW kind PROVE RowsOf(<<>>, kind) = {}
  BY <1>1 DEF RowsOf
<1> QED BY <1>1, <1>2 DEF NoUpsert

LEMMA StatementRows ==
  ASSUME NEW k \in {"delete", "touch"}, NEW set \in SUBSET Rows
  PROVE  /\ Statement(k, set) \in Seq(SqlStatement) /\ NoUpsert(Statement(k, set))
         /\ \A kind : RowsOf(Statement(k, set), kind) = IF kind = k THEN set ELSE {}
<1>1. CASE set = {}
  <2>1. Statement(k, set) = <<>>
    BY <1>1 DEF Statement
  <2> QED BY <1>1, <2>1, NoRows
<1>2. CASE set # {}
  <2> DEFINE one == [kind |-> k, rows |-> set]
  <2>1. Statement(k, set) = <<one>> /\ one \in SqlStatement
    BY <1>2 DEF Statement, SqlStatement
  <2>2. one.kind = k /\ one.rows = set
    OBVIOUS
  <2> HIDE DEF one
  <2>3. DOMAIN <<one>> = {1} /\ <<one>>[1] = one /\ <<one>> \in Seq(SqlStatement)
    BY <2>1
  <2>4. ASSUME NEW kind
        PROVE  RowsOf(Statement(k, set), kind) = IF kind = k THEN set ELSE {}
    <3>1. \A x \in Rows : x \in RowsOf(Statement(k, set), kind) <=> kind = k /\ x \in set
      BY <2>1, <2>2, <2>3 DEF RowsOf
    <3>2. RowsOf(Statement(k, set), kind) \subseteq Rows
      BY DEF RowsOf
    <3> QED BY <3>1, <3>2
  <2>5. NoUpsert(Statement(k, set))
    BY <2>1, <2>2, <2>3 DEF NoUpsert
  <2> QED BY <2>1, <2>3, <2>4, <2>5
<1> QED BY <1>1, <1>2

LEMMA UpsertRows ==
  ASSUME NEW o \in Op
  PROVE  /\ Upserts(o) \in Seq(SqlStatement)
         /\ \A i \in DOMAIN Upserts(o) : Upserts(o)[i].kind = "upsert"
         /\ RowsOf(Upserts(o), "upsert") = ToSet(o.upserts)
         /\ RowsOf(Upserts(o), "delete") = {}
<1>1. o.upserts \in Seq(Rows)
  BY DEF Op
<1>2. /\ Len(o.upserts) \in Nat /\ DOMAIN o.upserts = 1 .. Len(o.upserts)
      /\ \A i \in DOMAIN o.upserts : o.upserts[i] \in Rows
  BY <1>1
<1> DEFINE u == o.upserts
<1> HIDE DEF u
<1>3. /\ Upserts(o) = [i \in DOMAIN u |-> [kind |-> "upsert", rows |-> {u[i]}]]
      /\ DOMAIN Upserts(o) = 1 .. Len(u)
      /\ \A i \in 1 .. Len(u) : Upserts(o)[i].kind = "upsert" /\ Upserts(o)[i].rows = {u[i]}
  BY <1>2 DEF Upserts, u
<1>4. Upserts(o) \in Seq(SqlStatement)
  <2>1. \A i \in 1 .. Len(u) : [kind |-> "upsert", rows |-> {u[i]}] \in SqlStatement
    BY <1>2 DEF SqlStatement, u
  <2> QED BY <1>2, <1>3, <2>1 DEF u
<1>5. RowsOf(Upserts(o), "upsert") = {u[i] : i \in 1 .. Len(u)}
  <2>1. \A i \in 1 .. Len(u) : u[i] \in Rows
    BY <1>2 DEF u
  <2>2. ASSUME NEW x \in Rows
        PROVE  x \in RowsOf(Upserts(o), "upsert") <=> \E i \in 1 .. Len(u) : x = u[i]
    <3>1. x \in RowsOf(Upserts(o), "upsert") <=>
            \E i \in 1 .. Len(u) : Upserts(o)[i].kind = "upsert" /\ x \in Upserts(o)[i].rows
      BY <1>3 DEF RowsOf
    <3>2. \A i \in 1 .. Len(u) :
            Upserts(o)[i].kind = "upsert" /\ (x \in Upserts(o)[i].rows <=> x = u[i])
      BY <1>3
    <3> QED BY <3>1, <3>2
  <2>3. RowsOf(Upserts(o), "upsert") \subseteq Rows
    BY DEF RowsOf
  <2> QED BY <2>1, <2>2, <2>3
<1>6. ToSet(u) = {u[i] : i \in 1 .. Len(u)}
  BY <1>2 DEF ToSet, u
<1>7. RowsOf(Upserts(o), "delete") = {}
  BY <1>3 DEF RowsOf
<1> QED BY <1>3, <1>4, <1>5, <1>6, <1>7 DEF u

\* What the statements of an operation are about, and in which order.
LEMMA StatementsMean ==
  ASSUME NEW o \in Op
  PROVE  /\ Statements(o) \in Seq(SqlStatement)
         /\ RowsOf(Statements(o), "upsert") = ToSet(o.upserts)
         /\ RowsOf(Statements(o), "delete") = o.delEdges \cup o.delNodes \cup Incident(o.delNodes)
         /\ UpsertsFirst(Statements(o))
<1>1. /\ o.delEdges \in SUBSET Rows /\ o.delNodes \in SUBSET Rows /\ o.touch \in SUBSET Rows
      /\ Incident(o.delNodes) \in SUBSET Rows
  BY DEF Op, Rows, Incident
<1> DEFINE cascade == IF o.delNodes = {} THEN <<>> ELSE Statement("delete", Incident(o.delNodes))
           A == Statement("delete", o.delEdges)
           C == Statement("delete", o.delNodes)
           T == Statement("touch", o.touch)
           U == Upserts(o)
<1>2. /\ A \in Seq(SqlStatement) /\ C \in Seq(SqlStatement) /\ T \in Seq(SqlStatement)
      /\ NoUpsert(A) /\ NoUpsert(C) /\ NoUpsert(T)
      /\ RowsOf(A, "upsert") = {} /\ RowsOf(C, "upsert") = {} /\ RowsOf(T, "upsert") = {}
      /\ RowsOf(A, "delete") = o.delEdges /\ RowsOf(C, "delete") = o.delNodes
      /\ RowsOf(T, "delete") = {}
  BY <1>1, StatementRows
<1>3. /\ cascade \in Seq(SqlStatement) /\ NoUpsert(cascade) /\ RowsOf(cascade, "upsert") = {}
      /\ RowsOf(cascade, "delete") = Incident(o.delNodes)
  <2>1. CASE o.delNodes = {}
    <3>1. Incident(o.delNodes) = {} /\ cascade = <<>>
      BY <2>1 DEF Incident
    <3> QED BY <3>1, NoRows
  <2>2. CASE o.delNodes # {}
    BY <1>1, <2>2, StatementRows
  <2> QED BY <2>1, <2>2
<1>4. /\ U \in Seq(SqlStatement)
      /\ RowsOf(U, "upsert") = ToSet(o.upserts) /\ RowsOf(U, "delete") = {}
      /\ \A i \in DOMAIN U : U[i].kind = "upsert"
  BY UpsertRows
<1>5. Statements(o) = U \o (A \o cascade \o C) \o T
  BY DEF Statements, Deletes
<1> HIDE DEF cascade, A, C, T, U
<1> DEFINE AB == A \o cascade
           D == AB \o C
           V == U \o D
<1>6. AB \in Seq(SqlStatement) /\ NoUpsert(AB) /\ RowsOf(AB, "upsert") = {}
      /\ RowsOf(AB, "delete") = o.delEdges \cup Incident(o.delNodes)
  BY <1>2, <1>3, ConcatMeans
<1>7. D \in Seq(SqlStatement) /\ NoUpsert(D) /\ RowsOf(D, "upsert") = {}
      /\ RowsOf(D, "delete") = o.delEdges \cup o.delNodes \cup Incident(o.delNodes)
  <2> HIDE DEF AB
  <2> QED BY <1>2, <1>6, ConcatMeans
<1> HIDE DEF D
<1>8. V \in Seq(SqlStatement) /\ RowsOf(V, "upsert") = ToSet(o.upserts)
      /\ RowsOf(V, "delete") = o.delEdges \cup o.delNodes \cup Incident(o.delNodes)
  <2>1. /\ V \in Seq(SqlStatement)
        /\ RowsOf(V, "upsert") = RowsOf(U, "upsert") \cup RowsOf(D, "upsert")
        /\ RowsOf(V, "delete") = RowsOf(U, "delete") \cup RowsOf(D, "delete")
    BY <1>4, <1>7, ConcatMeans
  <2> HIDE DEF V
  <2> QED BY <1>4, <1>7, <2>1
<1> HIDE DEF V
<1>9. /\ Statements(o) \in Seq(SqlStatement)
      /\ RowsOf(Statements(o), "upsert") = ToSet(o.upserts)
      /\ RowsOf(Statements(o), "delete") = o.delEdges \cup o.delNodes \cup Incident(o.delNodes)
  <2>1. Statements(o) = V \o T
    BY <1>5 DEF V, D, AB
  <2>2. /\ V \o T \in Seq(SqlStatement)
        /\ RowsOf(V \o T, "upsert") = RowsOf(V, "upsert") \cup RowsOf(T, "upsert")
        /\ RowsOf(V \o T, "delete") = RowsOf(V, "delete") \cup RowsOf(T, "delete")
    BY <1>2, <1>8, ConcatMeans
  <2>3. /\ Statements(o) \in Seq(SqlStatement)
        /\ RowsOf(Statements(o), "upsert") = RowsOf(V, "upsert") \cup RowsOf(T, "upsert")
        /\ RowsOf(Statements(o), "delete") = RowsOf(V, "delete") \cup RowsOf(T, "delete")
    BY <2>1, <2>2
  <2> QED BY <1>2, <1>8, <2>3
<1>10. UpsertsFirst(Statements(o))
  <2> DEFINE n == Len(U)
  <2>1. /\ n \in Nat /\ Len(V) \in Nat /\ DOMAIN U = 1 .. n /\ DOMAIN V = 1 .. Len(V)
        /\ DOMAIN V = 1 .. n + Len(D) /\ Len(D) \in Nat
        /\ \A i \in 1 .. n : V[i] = U[i]
        /\ \A i \in n + 1 .. n + Len(D) : V[i] = D[i - n]
    BY <1>4, <1>7, <1>8, Concat DEF V
  <2>2. /\ DOMAIN Statements(o) = 1 .. Len(V) + Len(T)
        /\ \A i \in 1 .. Len(V) : Statements(o)[i] = V[i]
        /\ \A i \in Len(V) + 1 .. Len(V) + Len(T) : Statements(o)[i] = T[i - Len(V)]
    <3>1. Statements(o) = V \o T
      BY <1>5 DEF V, D, AB
    <3> QED BY <1>2, <1>8, <3>1, Concat
  <2>3. ASSUME NEW i \in DOMAIN Statements(o), i <= n
        PROVE  Statements(o)[i].kind = "upsert"
    BY <1>4, <2>1, <2>2, <2>3
  <2>4. ASSUME NEW i \in DOMAIN Statements(o), Statements(o)[i].kind = "upsert"
        PROVE  i <= n
    <3>1. CASE i \in n + 1 .. n + Len(D)
      <4>1. Statements(o)[i] = D[i - n] /\ i - n \in 1 .. Len(D)
        BY <2>1, <2>2, <3>1
      <4>2. DOMAIN D = 1 .. Len(D)
        BY <1>7
      <4> QED BY <1>7, <2>4, <4>1, <4>2 DEF NoUpsert
    <3>2. CASE i \in Len(V) + 1 .. Len(V) + Len(T)
      <4>1. Statements(o)[i] = T[i - Len(V)] /\ i - Len(V) \in 1 .. Len(T)
        BY <1>2, <2>1, <2>2, <3>2
      <4>2. DOMAIN T = 1 .. Len(T)
        BY <1>2
      <4> QED BY <1>2, <2>4, <4>1, <4>2 DEF NoUpsert
    <3> QED BY <2>1, <2>2, <3>1, <3>2
  <2> QED BY <2>1, <2>2, <2>3, <2>4 DEF UpsertsFirst
<1> QED BY <1>9, <1>10

-----------------------------------------------------------------------------
(* The invariant                                                           *)

Script(c) == Statements(op[c])
Busy == {"issue", "taking", "commit"}
Holding == {c \in Calls : call[c].at \in Busy \cup {"rollback"}}

\* Every client is free, or held by one call or by the migrations.
PoolOK ==
  /\ IsFiniteSet(Holding) /\ clients \in Nat
  /\ Cardinality(Holding) + clients + (IF initialized = "running" THEN 1 ELSE 0) = PoolSize

\* No row is held by two, and none by a call that is not in a transaction.
LocksOK ==
  /\ \A c, d \in Calls : c # d => DOMAIN call[c].mine \cap DOMAIN call[d].mine = {}
  /\ \A c \in Calls : call[c].at \notin Busy => DOMAIN call[c].mine = {}

\* A call is at one of its statements, or has made them all.
CursorOK ==
  \A c \in Calls :
    /\ call[c].at \in {"issue", "taking"} => call[c].stmt \in DOMAIN Script(c)
    /\ call[c].at = "taking" =>
         /\ call[c].want \in Script(c)[call[c].stmt].rows
         /\ call[c].todo \subseteq Script(c)[call[c].stmt].rows \ {call[c].want}
    /\ call[c].at = "commit" => \A i \in DOMAIN Script(c) : i <= call[c].stmt

\* A statement of a kind has dealt with row x: one before the k-th of s, or the
\* k-th itself, with some rows left.
Reached(s, k, left, kind, x) ==
  \E i \in DOMAIN s :
    s[i].kind = kind /\ x \in s[i].rows /\ (i < k \/ (i = k /\ x \notin left))

\* The rows the current statement has still to deal with.
Left(c) ==
  CASE call[c].at = "issue"  -> Rows
    [] call[c].at = "taking" -> call[c].todo \cup {call[c].want}
    [] OTHER                 -> {}

\* What c has made of row x, with m what it has taken: written rows are held; a row
\* that was to be deleted is gone, or was written by a call that was committed
\* meanwhile; any other row is as c has written it, or as it was.
RowOK(c, x, k, left, m) ==
  LET sees == IF x \in DOMAIN m THEN m[x] ELSE rows[x]
  IN  /\ Reached(Script(c), k, left, "upsert", x) => x \in DOMAIN m
      /\ IF Reached(Script(c), k, left, "delete", x)
         THEN sees = None \/ (sees = rows[x] /\ rows[x] \in during[c])
         ELSE sees = IF Reached(Script(c), k, left, "upsert", x) THEN c ELSE rows[x]

WorkOK ==
  \A c \in Calls : call[c].at \in Busy =>
    \A x \in Rows : RowOK(c, x, call[c].stmt, Left(c), call[c].mine)

Inv == TypeOK /\ PoolOK /\ LocksOK /\ CursorOK /\ WorkOK

-----------------------------------------------------------------------------
(* Types                                                                   *)

Values == Calls \cup {None, "before"}
Takings == UNION {[S -> Values] : S \in SUBSET Rows}
Places == {"new", "init", "connect", "issue", "taking", "commit", "rollback", "ok", "failed"}

LEMMA CallSet ==
  Call = [at: Places, stmt: Nat, want: Rows \cup {None}, todo: SUBSET Rows, mine: Takings]
BY DEF Call, Places, Takings, Values

LEMMA CallType ==
  ASSUME TypeOK, NEW c \in Calls
  PROVE  /\ call[c] \in Call /\ call[c].at \in Places /\ call[c].stmt \in Nat
         /\ call[c].want \in Rows \cup {None} /\ call[c].todo \in SUBSET Rows
         /\ call[c].mine \in Takings
BY CallSet DEF TypeOK

LEMMA TakingsMean ==
  ASSUME NEW m \in Takings
  PROVE  /\ DOMAIN m \subseteq Rows /\ \A x \in DOMAIN m : m[x] \in Values
<1>1. PICK S \in SUBSET Rows : m \in [S -> Values]
  BY DEF Takings
<1> QED BY <1>1

LEMMA TakingsMade ==
  ASSUME NEW S \in SUBSET Rows, NEW m \in [S -> Values]
  PROVE  m \in Takings
BY DEF Takings

LEMMA NothingTaken == <<>> \in Takings /\ DOMAIN <<>> = {}
<1>1. <<>> \in [{} -> Values] /\ DOMAIN <<>> = {}
  OBVIOUS
<1> QED BY <1>1, TakingsMade

LEMMA ScriptType ==
  ASSUME TypeOK, NEW c \in Calls
  PROVE  /\ op[c] \in Op /\ Script(c) \in Seq(SqlStatement)
         /\ Len(Script(c)) \in Nat /\ DOMAIN Script(c) = 1 .. Len(Script(c))
         /\ \A i \in DOMAIN Script(c) : Script(c)[i] \in SqlStatement
         /\ UpsertsFirst(Script(c))
<1>1. op[c] \in Op
  BY StoreAssumption DEF TypeOK
<1>2. Script(c) \in Seq(SqlStatement) /\ UpsertsFirst(Script(c))
  BY <1>1, StatementsMean DEF Script
<1> QED BY <1>1, <1>2

LEMMA SeesType ==
  ASSUME TypeOK, NEW c \in Calls, NEW x \in Rows
  PROVE  Sees(c, x) \in Values
BY CallType, TakingsMean DEF Sees, TypeOK, Values

-----------------------------------------------------------------------------
(* A call goes on                                                          *)

\* The call c has become r, and the others are as they were.
LEMMA OneCall ==
  ASSUME TypeOK, NEW c \in Calls, NEW r \in Call, call' = [call EXCEPT ![c] = r]
  PROVE  /\ call' \in [Calls -> Call] /\ call'[c] = r
         /\ \A d \in Calls \ {c} : call'[d] = call[d]
BY DEF TypeOK

LEMMA GoOnMeans ==
  ASSUME TypeOK, NEW c \in Calls, call[c].stmt \in DOMAIN Script(c),
         NEW left \in SUBSET Rows, NEW m \in Takings, GoOn(c, left, m)
  PROVE  /\ call' \in [Calls -> Call] /\ call'[c].mine = m
         /\ \A d \in Calls \ {c} : call'[d] = call[d]
         /\ \/ /\ call'[c].at = "taking" /\ call'[c].stmt = call[c].stmt
               /\ call'[c].want \in left /\ left = call'[c].todo \cup {call'[c].want}
               /\ call'[c].want \notin call'[c].todo
            \/ /\ call'[c].at = "commit" /\ call'[c].stmt = call[c].stmt /\ left = {}
               /\ call[c].stmt = Len(Script(c))
            \/ /\ call'[c].at = "issue" /\ call'[c].stmt = call[c].stmt + 1 /\ left = {}
               /\ call[c].stmt + 1 \in DOMAIN Script(c)
<1>1. /\ call[c] \in Call /\ call[c].stmt \in Nat /\ Len(Script(c)) \in Nat
      /\ DOMAIN Script(c) = 1 .. Len(Script(c))
  BY CallType, ScriptType
<1>2. CASE left # {}
  <2>1. PICK x \in left :
          call' = [call EXCEPT ![c] = [call[c] EXCEPT !.at = "taking", !.want = x,
                                                     !.todo = left \ {x}, !.mine = m]]
    BY <1>2 DEF GoOn
  <2> DEFINE r == [call[c] EXCEPT !.at = "taking", !.want = x, !.todo = left \ {x}, !.mine = m]
  <2>2. r \in Call /\ r.at = "taking" /\ r.want = x /\ r.todo = left \ {x} /\ r.mine = m
        /\ r.stmt = call[c].stmt
    BY <1>1, CallSet DEF Places
  <2> HIDE DEF r
  <2>3. call'[c] = r /\ call' \in [Calls -> Call] /\ \A d \in Calls \ {c} : call'[d] = call[d]
    BY <2>1, <2>2, OneCall DEF r
  <2> QED BY <2>2, <2>3
<1>3. CASE left = {}
  <2> DEFINE done == call[c].stmt = Len(Statements(op[c]))
             r == [call[c] EXCEPT !.at = IF done THEN "commit" ELSE "issue", !.want = None,
                                  !.todo = {}, !.stmt = IF done THEN call[c].stmt ELSE call[c].stmt + 1,
                                  !.mine = m]
  <2>1. call' = [call EXCEPT ![c] = r]
    BY <1>3 DEF GoOn
  <2>2. r \in Call /\ r.at = (IF done THEN "commit" ELSE "issue") /\ r.mine = m
        /\ r.stmt = IF done THEN call[c].stmt ELSE call[c].stmt + 1
    <3>1. (IF done THEN "commit" ELSE "issue") \in Places
          /\ (IF done THEN call[c].stmt ELSE call[c].stmt + 1) \in Nat
      BY <1>1 DEF Places
    <3> HIDE DEF done
    <3> QED BY <1>1, <3>1, CallSet
  <2> HIDE DEF r
  <2>3. call'[c] = r /\ call' \in [Calls -> Call] /\ \A d \in Calls \ {c} : call'[d] = call[d]
    BY <2>1, <2>2, OneCall
  <2> QED BY <1>1, <1>3, <2>2, <2>3 DEF Script
<1> QED BY <1>2, <1>3

\* What the statements have dealt with when a call has gone on.
LEMMA GoOnReached ==
  ASSUME TypeOK, NEW c \in Calls,
         call[c].at \in {"issue", "taking"}, call[c].stmt \in DOMAIN Script(c),
         NEW left, left \subseteq Script(c)[call[c].stmt].rows,
         NEW m \in Takings, GoOn(c, left, m), UNCHANGED op, NEW kind, NEW x \in Rows
  PROVE  Reached(Script(c), call[c].stmt, Left(c), kind, x)'
           <=> Reached(Script(c), call[c].stmt, left, kind, x)
<1>1. /\ Script(c)' = Script(c) /\ call[c].stmt \in Nat
      /\ DOMAIN Script(c) = 1 .. Len(Script(c)) /\ Len(Script(c)) \in Nat
      /\ left \in SUBSET Rows
      /\ \A i \in DOMAIN Script(c) : Script(c)[i].rows \subseteq Rows
  BY CallType, ScriptType DEF Script, SqlStatement
<1> DEFINE s == Script(c)
<1> HIDE DEF s
<1>2. Reached(Script(c), call[c].stmt, Left(c), kind, x)' <=>
        Reached(s, call'[c].stmt, Left(c)', kind, x)
  BY <1>1 DEF Reached, s
<1>3. CASE /\ call'[c].at = "taking" /\ call'[c].stmt = call[c].stmt
           /\ call'[c].want \in left /\ left = call'[c].todo \cup {call'[c].want}
  BY <1>2, <1>3 DEF Left, s
<1>4. CASE call'[c].at = "commit" /\ call'[c].stmt = call[c].stmt /\ left = {}
  BY <1>2, <1>4 DEF Left, s
<1>5. CASE call'[c].at = "issue" /\ call'[c].stmt = call[c].stmt + 1 /\ left = {}
  <2>1. Left(c)' = Rows
    BY <1>5 DEF Left
  <2>2. \A i \in DOMAIN s : (i < call[c].stmt + 1 <=> i < call[c].stmt \/ i = call[c].stmt)
    BY <1>1 DEF s
  <2> QED BY <1>1, <1>2, <1>5, <2>1, <2>2 DEF Reached, s
<1>6. \/ /\ call'[c].at = "taking" /\ call'[c].stmt = call[c].stmt
         /\ call'[c].want \in left /\ left = call'[c].todo \cup {call'[c].want}
         /\ call'[c].want \notin call'[c].todo
      \/ /\ call'[c].at = "commit" /\ call'[c].stmt = call[c].stmt /\ left = {}
         /\ call[c].stmt = Len(Script(c))
      \/ /\ call'[c].at = "issue" /\ call'[c].stmt = call[c].stmt + 1 /\ left = {}
         /\ call[c].stmt + 1 \in DOMAIN Script(c)
  BY <1>1, GoOnMeans
<1> QED BY <1>3, <1>4, <1>5, <1>6

\* What a call has made of a row depends on its own statements and takings, the row
\* and what has been committed meanwhile.
LEMMA RowFrame ==
  ASSUME NEW d \in Calls, call'[d] = call[d], UNCHANGED <<rows, op, during>>, NEW x \in Rows,
         RowOK(d, x, call[d].stmt, Left(d), call[d].mine)
  PROVE  RowOK(d, x, call[d].stmt, Left(d), call[d].mine)'
BY DEF RowOK, Reached, Left, Script

LEMMA GoOnHolds ==
  ASSUME Inv, NEW c \in Calls, call[c].at \in {"issue", "taking"},
         NEW left, left \subseteq Script(c)[call[c].stmt].rows,
         NEW m \in Takings, GoOn(c, left, m),
         \A x \in Rows : RowOK(c, x, call[c].stmt, left, m),
         \A d \in Calls \ {c} : DOMAIN m \cap DOMAIN call[d].mine = {},
         UNCHANGED <<rows, initialized, clients, op, during, faults>>
  PROVE  Inv'
<1>1. /\ TypeOK /\ call[c].stmt \in DOMAIN Script(c) /\ Script(c)[call[c].stmt] \in SqlStatement
      /\ DOMAIN Script(c) = 1 .. Len(Script(c))
  BY ScriptType DEF Inv, CursorOK
<1>2. left \in SUBSET Rows
  BY <1>1 DEF SqlStatement
<1>3. /\ call' \in [Calls -> Call] /\ call'[c].mine = m
      /\ \A d \in Calls \ {c} : call'[d] = call[d]
      /\ \/ /\ call'[c].at = "taking" /\ call'[c].stmt = call[c].stmt
            /\ call'[c].want \in left /\ left = call'[c].todo \cup {call'[c].want}
            /\ call'[c].want \notin call'[c].todo
         \/ /\ call'[c].at = "commit" /\ call'[c].stmt = call[c].stmt /\ left = {}
            /\ call[c].stmt = Len(Script(c))
         \/ /\ call'[c].at = "issue" /\ call'[c].stmt = call[c].stmt + 1 /\ left = {}
            /\ call[c].stmt + 1 \in DOMAIN Script(c)
  BY <1>1, <1>2, GoOnMeans
<1>4. call'[c].at \in Busy /\ call[c].at \in Busy
  BY <1>3 DEF Busy
<1>5. LocksOK'
  BY <1>3, <1>4 DEF Inv, LocksOK
<1>6. TypeOK'
  BY <1>3, <1>5 DEF Inv, TypeOK, LocksOK
<1>7. PoolOK'
  <2>1. Holding' = Holding
    BY <1>3, <1>4 DEF Holding
  <2> QED BY <2>1 DEF Inv, PoolOK
<1>8. CursorOK'
  <2>1. \A d \in Calls : Script(d)' = Script(d)
    BY DEF Script
  <2> QED BY <1>1, <1>3, <2>1 DEF Inv, CursorOK
<1>9. WorkOK'
  <2>1. ASSUME NEW d \in Calls \ {c}, call'[d].at \in Busy, NEW x \in Rows
        PROVE  RowOK(d, x, call[d].stmt, Left(d), call[d].mine)'
    BY <1>3, <2>1, RowFrame DEF Inv, WorkOK
  <2>2. ASSUME NEW x \in Rows
        PROVE  RowOK(c, x, call[c].stmt, Left(c), call[c].mine)'
    <3>1. \A kind : Reached(Script(c), call[c].stmt, Left(c), kind, x)'
                      <=> Reached(Script(c), call[c].stmt, left, kind, x)
      BY <1>1, GoOnReached
    <3>2. RowOK(c, x, call[c].stmt, left, m)
      OBVIOUS
    <3> QED BY <1>3, <3>1, <3>2 DEF RowOK
  <2> QED BY <2>1, <2>2 DEF WorkOK
<1> QED BY <1>5, <1>6, <1>7, <1>8, <1>9 DEF Inv

LEMMA IssueHolds == ASSUME Inv, NEW c \in Calls, Issue(c) PROVE Inv'
<1> DEFINE s == Script(c)[call[c].stmt]
           left == Targets(c, s)
           m == call[c].mine
<1>1. /\ TypeOK /\ call[c].at = "issue" /\ call[c].stmt \in DOMAIN Script(c) /\ s \in SqlStatement
      /\ m \in Takings /\ call[c].stmt \in Nat
  BY ScriptType, CallType DEF Inv, CursorOK, Issue
<1>2. GoOn(c, left, m) /\ UNCHANGED <<rows, initialized, clients, op, during, faults>>
  BY DEF Issue, Script
<1>3. left \subseteq s.rows /\ s.rows \subseteq Rows
  BY <1>1 DEF Targets, SqlStatement
<1>4. ASSUME NEW x \in Rows PROVE RowOK(c, x, call[c].stmt, left, m)
  <2>1. RowOK(c, x, call[c].stmt, Rows, m)
    BY <1>1 DEF Inv, WorkOK, Busy, Left
  <2>2. \A kind : Reached(Script(c), call[c].stmt, left, kind, x) <=>
                    \/ Reached(Script(c), call[c].stmt, Rows, kind, x)
                    \/ s.kind = kind /\ x \in s.rows /\ x \notin left
    <3> HIDE DEF left
    <3> QED BY <1>1 DEF Reached
  <2>3. ~(s.kind = "upsert" /\ x \in s.rows /\ x \notin left)
    BY DEF Targets
  <2>4. s.kind = "delete" /\ x \in s.rows /\ x \notin left => Sees(c, x) = None
    BY DEF Targets
  <2>5. Sees(c, x) = IF x \in DOMAIN m THEN m[x] ELSE rows[x]
    BY DEF Sees
  <2> HIDE DEF left, s, m
  <2> QED BY <2>1, <2>2, <2>3, <2>4, <2>5 DEF RowOK
<1>5. \A d \in Calls \ {c} : DOMAIN m \cap DOMAIN call[d].mine = {}
  BY DEF Inv, LocksOK
<1> HIDE DEF left, m
<1> QED BY <1>1, <1>2, <1>3, <1>4, <1>5, GoOnHolds

LEMMA TakeRowHolds == ASSUME Inv, NEW c \in Calls, TakeRow(c) PROVE Inv'
<1> DEFINE s == Script(c)[call[c].stmt]
           w == call[c].want
           left == call[c].todo
           old == call[c].mine
           gone == s.kind # "upsert" /\ Sees(c, w) = None
           taken == [y \in DOMAIN old \cup {w} |-> IF y = w THEN Made(c, s, w) ELSE old[y]]
           m == IF gone THEN old ELSE taken
<1>1. /\ TypeOK /\ call[c].at = "taking" /\ call[c].stmt \in DOMAIN Script(c) /\ s \in SqlStatement
      /\ old \in Takings /\ call[c].stmt \in Nat
      /\ w \in s.rows /\ left \subseteq s.rows /\ w \notin left /\ s.rows \subseteq Rows
      /\ s.kind \in {"upsert", "delete", "touch"}
  BY ScriptType, CallType DEF Inv, CursorOK, TakeRow, SqlStatement
<1>2. /\ GoOn(c, left, m) /\ UNCHANGED <<rows, initialized, clients, op, during, faults>>
      /\ \A d \in Calls \ {c} : w \notin DOMAIN call[d].mine
  BY DEF TakeRow, Script, Holders
<1>3. Made(c, s, w) = CASE s.kind = "upsert" -> c
                        [] s.kind = "delete" -> None
                        [] s.kind = "touch"  -> Sees(c, w)
  BY DEF Made
<1>4. Sees(c, w) = IF w \in DOMAIN old THEN old[w] ELSE rows[w]
  BY DEF Sees
<1>5. m \in Takings
  <2>1. Sees(c, w) \in Values
    BY <1>1, SeesType
  <2>2. Made(c, s, w) \in Values
    BY <1>1, <1>3, <2>1 DEF Values
  <2>3. DOMAIN old \subseteq Rows /\ \A x \in DOMAIN old : old[x] \in Values
    BY <1>1, TakingsMean
  <2> HIDE DEF old, w, s
  <2>4. taken \in [DOMAIN old \cup {w} -> Values] /\ DOMAIN old \cup {w} \in SUBSET Rows
    BY <1>1, <2>2, <2>3
  <2>5. taken \in Takings
    BY <2>4, TakingsMade
  <2> QED BY <1>1, <2>5
<1>6. ASSUME NEW x \in Rows PROVE RowOK(c, x, call[c].stmt, left, m)
  <2>1. RowOK(c, x, call[c].stmt, left \cup {w}, old)
    BY <1>1 DEF Inv, WorkOK, Busy, Left
  <2>2. \A kind : Reached(Script(c), call[c].stmt, left, kind, x) =>
                    \/ Reached(Script(c), call[c].stmt, left \cup {w}, kind, x)
                    \/ s.kind = kind /\ x = w
    BY <1>1 DEF Reached
  <2>3. \A kind : Reached(Script(c), call[c].stmt, left \cup {w}, kind, x) =>
                    Reached(Script(c), call[c].stmt, left, kind, x)
    BY DEF Reached
  <2>4. s.kind = "upsert" => ~Reached(Script(c), call[c].stmt, left, "delete", x)
    <3>1. UpsertsFirst(Script(c))
      BY <1>1, ScriptType
    <3> QED BY <1>1, <3>1 DEF Reached, UpsertsFirst
  <2> DEFINE up(l) == Reached(Script(c), call[c].stmt, l, "upsert", x)
             del(l) == Reached(Script(c), call[c].stmt, l, "delete", x)
  <2>5. CASE x # w
    <3>1. (up(left) <=> up(left \cup {w})) /\ (del(left) <=> del(left \cup {w}))
      BY <2>2, <2>3, <2>5
    <3>2. (x \in DOMAIN m <=> x \in DOMAIN old) /\ (x \in DOMAIN old => m[x] = old[x])
      BY <2>5
    <3> HIDE DEF m, old, w, left
    <3> QED BY <2>1, <3>1, <3>2 DEF RowOK
  <2>6. CASE x = w /\ gone
    <3>1. up(left) <=> up(left \cup {w})
      BY <2>2, <2>3, <2>6
    <3>2. m = old /\ Sees(c, x) = None
      BY <2>6
    <3>3. del(left \cup {w}) => del(left)
      BY <2>3
    <3> HIDE DEF m, old, w, left, gone
    <3> QED BY <1>4, <2>1, <2>6, <3>1, <3>2, <3>3 DEF RowOK
  <2>7. CASE x = w /\ ~gone
    <3>1. x \in DOMAIN m /\ m[x] = Made(c, s, w)
      BY <2>7
    <3>2. CASE s.kind = "upsert"
      <4>1. m[x] = c /\ ~del(left)
        BY <1>3, <2>4, <3>1, <3>2
      <4>2. up(left)
        BY <1>1, <2>7, <3>2 DEF Reached
      <4> HIDE DEF m, old, w, left, gone
      <4> QED BY <3>1, <4>1, <4>2 DEF RowOK
    <3>3. CASE s.kind = "delete"
      <4>1. m[x] = None /\ del(left)
        BY <1>1, <1>3, <2>7, <3>1, <3>3 DEF Reached
      <4> HIDE DEF m, old, w, left, gone
      <4> QED BY <3>1, <4>1 DEF RowOK
    <3>4. CASE s.kind = "touch"
      <4>1. (up(left) <=> up(left \cup {w})) /\ (del(left) <=> del(left \cup {w}))
        BY <2>2, <2>3, <3>4
      <4>2. m[x] = Sees(c, w)
        BY <1>3, <3>1, <3>4
      <4> HIDE DEF m, old, w, left, gone
      <4> QED BY <1>4, <2>1, <2>7, <3>1, <4>1, <4>2 DEF RowOK
    <3> QED BY <1>1, <3>2, <3>3, <3>4
  <2> QED BY <2>5, <2>6, <2>7
<1>7. \A d \in Calls \ {c} : DOMAIN m \cap DOMAIN call[d].mine = {}
  BY <1>2 DEF Inv, LocksOK
<1> HIDE DEF m, left
<1> QED BY <1>1, <1>2, <1>5, <1>6, <1>7, GoOnHolds

-----------------------------------------------------------------------------
(* The other steps                                                         *)

LEMMA InitInv == Init => Inv
<1> SUFFICES ASSUME Init PROVE Inv
  OBVIOUS
<1> DEFINE first == [at |-> "new", stmt |-> 0, want |-> None, todo |-> {}, mine |-> <<>>]
<1>1. first \in Call /\ first.at = "new" /\ DOMAIN first.mine = {}
  BY NothingTaken, CallSet DEF Places
<1>2. \A c \in Calls : call[c] = first
  BY DEF Init
<1>3. call \in [Calls -> Call]
  BY <1>1 DEF Init
<1> HIDE DEF first
<1>4. LocksOK /\ CursorOK /\ WorkOK
  BY <1>1, <1>2 DEF LocksOK, CursorOK, WorkOK, Busy
<1>5. TypeOK
  <2>1. rows \in [Rows -> Calls \cup {None, "before"}]
    BY DEF Init
  <2>2. clients \in 0 .. PoolSize /\ faults \in 0 .. MaxFaults
    BY StoreAssumption DEF Init
  <2>3. op \in Workloads /\ initialized = "none" /\ during \in [Calls -> SUBSET Calls]
    BY DEF Init
  <2> QED BY <1>3, <1>4, <2>1, <2>2, <2>3 DEF TypeOK, LocksOK
<1>6. PoolOK
  <2>1. Holding = {}
    BY <1>1, <1>2 DEF Holding, Busy
  <2> QED BY <2>1, FS_EmptySet, StoreAssumption DEF PoolOK, Init
<1> QED BY <1>4, <1>5, <1>6 DEF Inv

LEMMA BecomesMeans ==
  ASSUME TypeOK, NEW c \in Calls, NEW at \in Places, Becomes(c, at)
  PROVE  /\ call' \in [Calls -> Call] /\ call'[c].at = at /\ call'[c].mine = call[c].mine
         /\ call'[c].stmt = call[c].stmt
         /\ \A d \in Calls \ {c} : call'[d] = call[d]
<1> DEFINE r == [call[c] EXCEPT !.at = at]
<1>1. r \in Call /\ r.at = at /\ r.mine = call[c].mine /\ r.stmt = call[c].stmt
  BY CallType, CallSet
<1>2. call' = [call EXCEPT ![c] = r]
  BY DEF Becomes
<1> HIDE DEF r
<1> QED BY <1>1, <1>2, OneCall

\* A call that is not in a transaction moves on to another place outside one.
LEMMA OutsideHolds ==
  ASSUME Inv, NEW c \in Calls, NEW at \in Places \ Busy, call[c].at \notin Busy, Becomes(c, at),
         PoolOK', clients' \in 0 .. PoolSize, faults' \in 0 .. MaxFaults,
         initialized' \in {"none", "waiting", "running", "ok", "failed"},
         UNCHANGED <<rows, op, during>>
  PROVE  Inv'
<1>1. /\ TypeOK /\ call' \in [Calls -> Call] /\ call'[c].at = at /\ call'[c].mine = call[c].mine
      /\ \A d \in Calls \ {c} : call'[d] = call[d]
  BY BecomesMeans DEF Inv
<1>2. LocksOK'
  BY <1>1 DEF Inv, LocksOK
<1>3. TypeOK'
  BY <1>1, <1>2 DEF TypeOK, LocksOK
<1>4. CursorOK'
  <2>1. \A d \in Calls : Script(d)' = Script(d)
    BY DEF Script
  <2>2. call'[c].at \notin {"issue", "taking", "commit"}
    BY <1>1 DEF Busy
  <2> QED BY <1>1, <2>1, <2>2 DEF Inv, CursorOK
<1>5. WorkOK'
  <2> SUFFICES ASSUME NEW d \in Calls, call'[d].at \in Busy, NEW x \in Rows
               PROVE  RowOK(d, x, call[d].stmt, Left(d), call[d].mine)'
    BY DEF WorkOK
  <2>1. d # c
    BY <1>1
  <2> QED BY <1>1, <2>1, RowFrame DEF Inv, WorkOK
<1> QED BY <1>2, <1>3, <1>4, <1>5 DEF Inv

LEMMA SameHolding ==
  ASSUME TypeOK, NEW c \in Calls, NEW at \in Places, Becomes(c, at),
         at \in Busy \cup {"rollback"} <=> call[c].at \in Busy \cup {"rollback"}
  PROVE  Holding' = Holding
BY BecomesMeans DEF Holding

LEMMA InvokeHolds == ASSUME Inv, NEW c \in Calls, Invoke(c) PROVE Inv'
<1>1. TypeOK /\ call[c].at = "new" /\ Becomes(c, "init") /\ "init" \in Places \ Busy
      /\ call[c].at \notin Busy
  BY DEF Inv, Invoke, Places, Busy
<1>2. Holding' = Holding
  BY <1>1, SameHolding DEF Busy
<1>3. PoolOK'
  BY <1>2 DEF Invoke, Inv, PoolOK
<1> QED BY <1>1, <1>3, OutsideHolds DEF Invoke, Inv, TypeOK

LEMMA InitSettlesHolds == ASSUME Inv, NEW c \in Calls, InitSettles(c) PROVE Inv'
<1>1. PICK at \in {"connect", "failed"} : Becomes(c, at)
  BY DEF InitSettles
<1>2. TypeOK /\ call[c].at = "init" /\ at \in Places \ Busy /\ call[c].at \notin Busy
  BY DEF Inv, InitSettles, Places, Busy
<1>3. Holding' = Holding
  BY <1>1, <1>2, SameHolding DEF Busy
<1>4. PoolOK'
  BY <1>3 DEF InitSettles, Inv, PoolOK
<1> QED BY <1>1, <1>2, <1>4, OutsideHolds DEF InitSettles, Inv, TypeOK

LEMMA ConnectFailsHolds == ASSUME Inv, NEW c \in Calls, ConnectFails(c) PROVE Inv'
<1>1. TypeOK /\ call[c].at = "connect" /\ Becomes(c, "failed") /\ "failed" \in Places \ Busy
      /\ call[c].at \notin Busy
  BY DEF Inv, ConnectFails, Places, Busy
<1>2. Holding' = Holding
  BY <1>1, SameHolding DEF Busy
<1>3. PoolOK'
  BY <1>2 DEF ConnectFails, Inv, PoolOK
<1>4. faults' \in 0 .. MaxFaults
  BY <1>1, StoreAssumption DEF ConnectFails, TypeOK
<1> QED BY <1>1, <1>3, <1>4, OutsideHolds DEF ConnectFails, Inv, TypeOK

LEMMA RolledBackHolds == ASSUME Inv, NEW c \in Calls, RolledBack(c) PROVE Inv'
<1>1. TypeOK /\ call[c].at = "rollback" /\ Becomes(c, "failed") /\ "failed" \in Places \ Busy
      /\ call[c].at \notin Busy /\ clients' = clients + 1
  BY DEF Inv, RolledBack, Released, Places, Busy
<1>2. Holding' = Holding \ {c} /\ c \in Holding
  BY <1>1, BecomesMeans DEF Holding, Busy
<1>3. IsFiniteSet(Holding') /\ Cardinality(Holding') = Cardinality(Holding) - 1
      /\ Cardinality(Holding) \in Nat
  BY <1>2, FS_RemoveElement, FS_CardinalityType DEF Inv, PoolOK
<1>4. PoolOK'
  BY <1>1, <1>3, StoreAssumption DEF RolledBack, Inv, PoolOK
<1>5. clients' \in 0 .. PoolSize
  <2>1. Cardinality(Holding)' \in Nat
    BY <1>3, FS_CardinalityType
  <2> QED BY <1>4, <2>1, StoreAssumption DEF PoolOK
<1> QED BY <1>1, <1>4, <1>5, OutsideHolds DEF RolledBack, Inv, TypeOK

\* A client is taken, and the call is at the first of its statements, if there is one.
LEMMA ConnectHolds == ASSUME Inv, NEW c \in Calls, Connect(c) PROVE Inv'
<1> DEFINE none == Statements(op[c]) = <<>>
           at == IF none THEN "commit" ELSE "issue"
           r == [call[c] EXCEPT !.at = at, !.stmt = 1]
<1>1. /\ TypeOK /\ call[c].at = "connect" /\ call' = [call EXCEPT ![c] = r]
      /\ clients' = clients - 1 /\ clients > 0 /\ UNCHANGED <<rows, initialized, op, during, faults>>
  BY DEF Inv, Connect
<1>2. at \in Places /\ at \in Busy
  BY DEF Places, Busy
<1>3. /\ r \in Call /\ r.at = at /\ r.stmt = 1 /\ r.mine = call[c].mine
  <2> HIDE DEF at
  <2> QED BY <1>1, <1>2, CallType, CallSet
<1> HIDE DEF r
<1>4. call' \in [Calls -> Call] /\ call'[c] = r /\ \A d \in Calls \ {c} : call'[d] = call[d]
  BY <1>1, <1>3, OneCall
<1>5. DOMAIN call[c].mine = {}
  BY <1>1 DEF Inv, LocksOK, Busy
<1>6. LocksOK'
  BY <1>3, <1>4, <1>5 DEF Inv, LocksOK
<1>7. PoolOK'
  <2>1. Holding' = Holding \cup {c} /\ c \notin Holding
    BY <1>1, <1>2, <1>3, <1>4 DEF Holding, Busy
  <2>2. IsFiniteSet(Holding') /\ Cardinality(Holding') = Cardinality(Holding) + 1
        /\ Cardinality(Holding) \in Nat
    BY <2>1, FS_AddElement, FS_CardinalityType DEF Inv, PoolOK
  <2> QED BY <1>1, <2>2, StoreAssumption DEF Inv, PoolOK
<1>8. TypeOK'
  <2>1. clients' \in 0 .. PoolSize
    BY <1>1, StoreAssumption DEF TypeOK
  <2> QED BY <1>1, <1>4, <1>6, <2>1 DEF TypeOK, LocksOK
<1>9. /\ Script(c)' = Script(c) /\ DOMAIN Script(c) = 1 .. Len(Script(c)) /\ Len(Script(c)) \in Nat
      /\ (none => DOMAIN Script(c) = {}) /\ (~none => 1 \in DOMAIN Script(c))
  <2>1. Script(c) \in Seq(SqlStatement)
    BY <1>1, ScriptType
  <2>2. /\ DOMAIN Script(c) = 1 .. Len(Script(c)) /\ Len(Script(c)) \in Nat
    BY <1>1, ScriptType
  <2>3. none <=> Len(Script(c)) = 0
    BY <2>1 DEF Script
  <2> HIDE DEF none
  <2> QED BY <1>1, <2>2, <2>3 DEF Script
<1>10. CursorOK'
  <2>1. \A d \in Calls : Script(d)' = Script(d)
    BY <1>1 DEF Script
  <2> HIDE DEF none
  <2> QED BY <1>3, <1>4, <1>9, <2>1 DEF Inv, CursorOK
<1>11. WorkOK'
  <2>1. ASSUME NEW d \in Calls \ {c}, call'[d].at \in Busy, NEW x \in Rows
        PROVE  RowOK(d, x, call[d].stmt, Left(d), call[d].mine)'
    BY <1>1, <1>4, <2>1, RowFrame DEF Inv, WorkOK
  <2>2. ASSUME NEW x \in Rows
        PROVE  RowOK(c, x, call[c].stmt, Left(c), call[c].mine)'
    <3>1. call'[c].stmt = 1 /\ x \notin DOMAIN call'[c].mine
      BY <1>3, <1>4, <1>5
    <3>2. \A kind : ~Reached(Script(c), call[c].stmt, Left(c), kind, x)'
      <4>1. CASE none
        BY <1>9, <4>1 DEF Reached
      <4>2. CASE ~none
        <5>1. Left(c)' = Rows
          BY <1>3, <1>4, <4>2 DEF Left
        <5>2. \A i \in DOMAIN Script(c) : ~(i < 1)
          BY <1>9
        <5> HIDE DEF none
        <5> QED BY <1>9, <3>1, <5>1, <5>2 DEF Reached
      <4> QED BY <4>1, <4>2
    <3> QED BY <3>1, <3>2 DEF RowOK
  <2> QED BY <2>1, <2>2 DEF WorkOK
<1> QED BY <1>6, <1>7, <1>8, <1>10, <1>11 DEF Inv

LEMMA EndsMeans ==
  ASSUME TypeOK, NEW c \in Calls, NEW at \in Places, Ends(c, at)
  PROVE  /\ call' \in [Calls -> Call] /\ call'[c].at = at /\ DOMAIN call'[c].mine = {}
         /\ \A d \in Calls \ {c} : call'[d] = call[d]
<1> DEFINE r == [call[c] EXCEPT !.at = at, !.want = None, !.todo = {}, !.mine = <<>>]
<1>1. r \in Call /\ r.at = at /\ DOMAIN r.mine = {}
  BY CallType, CallSet, NothingTaken
<1>2. call' = [call EXCEPT ![c] = r]
  BY DEF Ends
<1> HIDE DEF r
<1>3. call' \in [Calls -> Call] /\ call'[c] = r /\ \A d \in Calls \ {c} : call'[d] = call[d]
  BY <1>1, <1>2, OneCall
<1> QED BY <1>1, <1>3

\* A transaction ends: what is left to show for the others is the work and the pool.
LEMMA EndHolds ==
  ASSUME Inv, NEW c \in Calls, NEW at \in {"ok", "rollback"}, Ends(c, at), PoolOK',
         rows' \in [Rows -> Values], during' \in [Calls -> SUBSET Calls],
         clients' \in 0 .. PoolSize, faults' \in 0 .. MaxFaults, UNCHANGED <<initialized, op>>,
         \A d \in Calls \ {c} : call'[d].at \in Busy =>
           \A x \in Rows : RowOK(d, x, call[d].stmt, Left(d), call[d].mine)'
  PROVE  Inv'
<1>1. /\ TypeOK /\ call' \in [Calls -> Call] /\ call'[c].at = at /\ DOMAIN call'[c].mine = {}
      /\ \A d \in Calls \ {c} : call'[d] = call[d]
  BY EndsMeans DEF Inv, Places
<1>2. call'[c].at \notin Busy
  BY <1>1 DEF Busy
<1>3. LocksOK'
  BY <1>1 DEF Inv, LocksOK
<1>4. TypeOK'
  BY <1>1, <1>3 DEF TypeOK, LocksOK, Values
<1>5. CursorOK'
  <2>1. \A d \in Calls : Script(d)' = Script(d)
    BY DEF Script
  <2> QED BY <1>1, <1>2, <2>1 DEF Inv, CursorOK, Busy
<1>6. WorkOK'
  BY <1>2 DEF WorkOK
<1> QED BY <1>3, <1>4, <1>5, <1>6 DEF Inv

LEMMA QueryFailsHolds == ASSUME Inv, NEW c \in Calls, QueryFails(c) PROVE Inv'
<1>1. /\ TypeOK /\ call[c].at \in Busy /\ Ends(c, "rollback") /\ "rollback" \in Places
      /\ UNCHANGED <<rows, initialized, clients, op, during>>
  BY DEF Inv, QueryFails, Busy, Places
<1>2. faults' \in 0 .. MaxFaults
  BY <1>1, StoreAssumption DEF QueryFails, TypeOK
<1>3. /\ call'[c].at = "rollback" /\ \A d \in Calls \ {c} : call'[d] = call[d]
  BY <1>1, EndsMeans
<1>4. PoolOK'
  <2>1. Holding' = Holding
    BY <1>1, <1>3 DEF Holding
  <2> QED BY <1>1, <2>1 DEF Inv, PoolOK
<1>5. \A d \in Calls \ {c} : call'[d].at \in Busy =>
        \A x \in Rows : RowOK(d, x, call[d].stmt, Left(d), call[d].mine)'
  BY <1>1, <1>3, RowFrame DEF Inv, WorkOK
<1> QED BY <1>1, <1>2, <1>4, <1>5, EndHolds DEF TypeOK, Values

LEMMA CommitHolds == ASSUME Inv, NEW c \in Calls, Commit(c) PROVE Inv'
<1>1. /\ TypeOK /\ call[c].at = "commit" /\ call[c].at \in Busy /\ Publish(c)
      /\ UNCHANGED <<initialized, op>>
  BY DEF Inv, Commit, Busy
<1>2. PICK at \in {"ok", "rollback"} :
        /\ Ends(c, at)
        /\ at = "ok" => clients' = clients + 1 /\ UNCHANGED faults
        /\ at = "rollback" => faults < MaxFaults /\ faults' = faults + 1 /\ UNCHANGED clients
  BY DEF Commit
<1>3. /\ call'[c].at = at /\ \A d \in Calls \ {c} : call'[d] = call[d]
  BY <1>1, <1>2, EndsMeans DEF Places
<1>4. PoolOK'
  <2>1. CASE at = "ok"
    <3>1. Holding' = Holding \ {c} /\ c \in Holding
      BY <1>1, <1>3, <2>1 DEF Holding, Busy
    <3>2. IsFiniteSet(Holding') /\ Cardinality(Holding') = Cardinality(Holding) - 1
          /\ Cardinality(Holding) \in Nat
      BY <3>1, FS_RemoveElement, FS_CardinalityType DEF Inv, PoolOK
    <3> QED BY <1>1, <1>2, <2>1, <3>2, StoreAssumption DEF Inv, PoolOK
  <2>2. CASE at = "rollback"
    <3>1. Holding' = Holding
      BY <1>1, <1>3, <2>2 DEF Holding
    <3> QED BY <1>1, <1>2, <2>2, <3>1 DEF Inv, PoolOK
  <2> QED BY <2>1, <2>2
<1>5. clients' \in 0 .. PoolSize /\ faults' \in 0 .. MaxFaults
  <2>1. Cardinality(Holding)' \in Nat
    BY <1>4, FS_CardinalityType DEF PoolOK
  <2> QED BY <1>1, <1>2, <1>4, <2>1, StoreAssumption DEF PoolOK, TypeOK
<1>6. rows' = [x \in Rows |-> Sees(c, x)] /\ rows' \in [Rows -> Values]
  BY <1>1, SeesType DEF Publish
<1>7. /\ during' \in [Calls -> SUBSET Calls]
      /\ \A d \in Calls \ {c} : call[d].at \in Busy => during'[d] = during[d] \cup {c}
  BY <1>1 DEF Publish, TypeOK, Busy
<1>8. ASSUME NEW d \in Calls \ {c}, call'[d].at \in Busy, NEW x \in Rows
      PROVE  RowOK(d, x, call[d].stmt, Left(d), call[d].mine)'
  <2>1. call'[d] = call[d] /\ call[d].at \in Busy /\ during'[d] = during[d] \cup {c}
    BY <1>3, <1>7, <1>8
  <2>2. \A kind : Reached(Script(d), call[d].stmt, Left(d), kind, x)'
                    <=> Reached(Script(d), call[d].stmt, Left(d), kind, x)
    BY <1>1, <2>1 DEF Reached, Left, Script
  <2>3. RowOK(d, x, call[d].stmt, Left(d), call[d].mine)
    BY <2>1 DEF Inv, WorkOK
  <2>4. rows'[x] = Sees(c, x)
    BY <1>6
  <2>5. CASE x \in DOMAIN call[d].mine
    <3>1. rows'[x] = rows[x]
      BY <2>4, <2>5 DEF Inv, LocksOK, Sees
    <3> QED BY <2>1, <2>2, <2>3, <2>5, <3>1 DEF RowOK
  <2>6. CASE x \notin DOMAIN call[d].mine
    <3>1. rows'[x] \in {None, c, rows[x]}
      <4>1. RowOK(c, x, call[c].stmt, Left(c), call[c].mine)
        BY <1>1 DEF Inv, WorkOK
      <4> QED BY <2>4, <4>1 DEF RowOK, Sees
    <3> QED BY <2>1, <2>2, <2>3, <2>6, <3>1 DEF RowOK
  <2> QED BY <2>5, <2>6
<1> QED BY <1>1, <1>2, <1>4, <1>5, <1>6, <1>7, <1>8, EndHolds

LEMMA MigrateHolds == ASSUME Inv, Migrate PROVE Inv'
<1>1. UNCHANGED <<rows, op, call, during>>
  BY DEF Migrate, MigrationConnects, MigrationEnds
<1>2. LocksOK' /\ CursorOK'
  BY <1>1 DEF Inv, LocksOK, CursorOK, Script
<1>3. WorkOK'
  BY <1>1 DEF Inv, WorkOK, RowOK, Reached, Left, Script
<1>4. Holding' = Holding
  BY <1>1 DEF Holding
<1>5. PoolOK' /\ clients' \in 0 .. PoolSize
  <2>1. Cardinality(Holding) \in Nat
    BY FS_CardinalityType DEF Inv, PoolOK
  <2> QED BY <1>4, <2>1, StoreAssumption
        DEF Inv, PoolOK, Migrate, MigrationConnects, MigrationEnds
<1>6. initialized' \in {"none", "waiting", "running", "ok", "failed"} /\ faults' \in 0 .. MaxFaults
  BY StoreAssumption DEF Inv, TypeOK, Migrate, MigrationConnects, MigrationEnds
<1> QED BY <1>1, <1>2, <1>3, <1>5, <1>6 DEF Inv, TypeOK

LEMMA InvHolds == Spec => []Inv
<1>1. Inv /\ [Next]_vars => Inv'
  <2>1. ASSUME Inv, Next PROVE Inv'
    BY <2>1, MigrateHolds, InvokeHolds, InitSettlesHolds, ConnectHolds, ConnectFailsHolds,
       IssueHolds, TakeRowHolds, CommitHolds, QueryFailsHolds, RolledBackHolds
       DEF Next, CallStep
  <2>2. ASSUME Inv, UNCHANGED vars PROVE Inv'
    BY <2>2 DEF vars, Inv, TypeOK, PoolOK, Holding, LocksOK, CursorOK, WorkOK, RowOK, Reached,
                Left, Script
  <2> QED BY <2>1, <2>2
<1> QED BY <1>1, InitInv, PTL DEF Spec

\* The pool never has more clients than it was made with, and no row is held by two
\* transactions, whatever fails (postgresGraphStore.ts:324-337).
THEOREM TypeCorrect == Spec => []TypeOK
<1>1. Inv => TypeOK
  BY DEF Inv
<1> QED BY <1>1, InvHolds, PTL

-----------------------------------------------------------------------------
(* The store implements AtomicStore                                        *)

Asked == [c \in Calls |-> [upserts |-> ToSet(op[c].upserts), delEdges |-> op[c].delEdges,
                           delNodes |-> op[c].delNodes]]
Stages == [c \in Calls |-> Stage(c)]

LEMMA AskedMeans ==
  ASSUME NEW c \in Calls
  PROVE  /\ Asked[c].upserts = ToSet(op[c].upserts)
         /\ Store!Deleted(Asked[c])
              = op[c].delEdges \cup op[c].delNodes \cup Incident(op[c].delNodes)
BY DEF Asked, Store!Deleted, Store!Incident, Incident

\* A step of one call that changes neither the rows nor what is asked of the store is
\* a step of its stage.
LEMMA StageStep ==
  ASSUME NEW c \in Calls, NEW stage, \A d \in Calls \ {c} : call'[d] = call[d],
         Stage(c)' = stage
  PROVE  Stages' = [Stages EXCEPT ![c] = stage]
<1>1. \A d \in Calls \ {c} : Stage(d)' = Stage(d)
  BY DEF Stage
<1> QED BY <1>1 DEF Stages

LEMMA AskedFrame == ASSUME UNCHANGED op PROVE Asked' = Asked
BY DEF Asked

\* A transaction that is at its COMMIT has made of each row what the batch asks for.
LEMMA CommitApplies ==
  ASSUME Inv, NEW c \in Calls, call[c].at = "commit"
  PROVE  \E spared \in SUBSET {x \in Store!Deleted(Asked[c]) : rows[x] \in during[c]} :
           \A x \in Rows :
             Sees(c, x) = IF x \in spared THEN rows[x]
                          ELSE IF x \in Store!Deleted(Asked[c]) THEN None
                          ELSE IF x \in Asked[c].upserts THEN c ELSE rows[x]
<1> DEFINE D == Store!Deleted(Asked[c])
           U == Asked[c].upserts
           spared == {x \in D : Sees(c, x) # None}
<1>1. /\ op[c] \in Op /\ DOMAIN Script(c) = 1 .. Len(Script(c))
  BY ScriptType DEF Inv
<1>2. U = RowsOf(Script(c), "upsert") /\ D = RowsOf(Script(c), "delete")
  BY <1>1, StatementsMean, AskedMeans DEF Script
<1>3. D \subseteq Rows
  BY <1>2 DEF RowsOf
<1>4. ASSUME NEW x \in Rows, NEW kind
      PROVE  Reached(Script(c), call[c].stmt, Left(c), kind, x) <=> x \in RowsOf(Script(c), kind)
  <2>1. \A i \in DOMAIN Script(c) : i <= call[c].stmt /\ i \in Int
    BY <1>1 DEF Inv, CursorOK
  <2>2. Left(c) = {} /\ call[c].stmt \in Nat
    BY CallType DEF Left, Inv
  <2>3. \A i \in DOMAIN Script(c) : i < call[c].stmt \/ i = call[c].stmt
    BY <2>1, <2>2
  <2> QED BY <2>2, <2>3 DEF Reached, RowsOf
<1>5. ASSUME NEW x \in Rows
      PROVE  IF x \in D THEN Sees(c, x) = None \/ (Sees(c, x) = rows[x] /\ rows[x] \in during[c])
             ELSE Sees(c, x) = IF x \in U THEN c ELSE rows[x]
  <2>1. RowOK(c, x, call[c].stmt, Left(c), call[c].mine)
    BY DEF Inv, WorkOK, Busy
  <2> HIDE DEF D, U
  <2> QED BY <1>2, <1>4, <2>1 DEF RowOK, Sees
<1> HIDE DEF D, U
<1>6. spared \in SUBSET {x \in D : rows[x] \in during[c]}
  BY <1>3, <1>5
<1>7. \A x \in Rows : Sees(c, x) = IF x \in spared THEN rows[x]
                                   ELSE IF x \in D THEN None
                                   ELSE IF x \in U THEN c ELSE rows[x]
  BY <1>5
<1> HIDE DEF spared
<1> QED BY <1>6, <1>7 DEF D, U

LEMMA CommitMaps == ASSUME Inv, NEW c \in Calls, Commit(c) PROVE Store!Apply(c)
<1>1. TypeOK /\ call[c].at = "commit" /\ Publish(c) /\ UNCHANGED op
  BY DEF Inv, Commit
<1>2. PICK at \in {"ok", "rollback"} : Ends(c, at)
  BY DEF Commit
<1>3. /\ call'[c].at = at /\ \A d \in Calls \ {c} : call'[d] = call[d]
  BY <1>1, <1>2, EndsMeans DEF Places
<1>4. Stages[c] = "running" /\ Stage(c)' \in {"ok", "failed"}
  BY <1>1, <1>3 DEF Stages, Stage
<1>5. Stages' \in {[Stages EXCEPT ![c] = outcome] : outcome \in {"ok", "failed"}}
  BY <1>3, <1>4, StageStep
<1>6. during' = [d \in Calls |-> IF Stages'[d] = "running" THEN during[d] \cup {c} ELSE during[d]]
  <2>1. \A d \in Calls : Stages'[d] = "running" <=>
                           d # c /\ call[d].at \notin {"new", "rollback", "ok", "failed"}
    BY <1>3, <1>4 DEF Stages, Stage
  <2> QED BY <1>1, <2>1 DEF Publish
<1>7. \E spared \in SUBSET Store!Spareable(c) : rows' = Store!After(c, spared)
  <2>1. PICK spared \in SUBSET {x \in Store!Deleted(Asked[c]) : rows[x] \in during[c]} :
           \A x \in Rows :
             Sees(c, x) = IF x \in spared THEN rows[x]
                          ELSE IF x \in Store!Deleted(Asked[c]) THEN None
                          ELSE IF x \in Asked[c].upserts THEN c ELSE rows[x]
    BY <1>1, CommitApplies
  <2>2. spared \in SUBSET Store!Spareable(c)
    BY DEF Store!Spareable, Asked
  <2>3. rows' = [x \in Rows |-> Sees(c, x)]
    BY <1>1 DEF Publish
  <2>4. rows' = Store!After(c, spared)
    BY <2>1, <2>3 DEF Store!After, Store!Rows, Rows, Asked
  <2> QED BY <2>2, <2>4
<1>8. Asked' = Asked
  BY <1>1, AskedFrame
<1> QED BY <1>4, <1>5, <1>6, <1>7, <1>8 DEF Store!Apply, Stages, Asked

\* A step of one call that leaves its rows alone.
LEMMA QuietMaps ==
  ASSUME NEW c \in Calls, \A d \in Calls \ {c} : call'[d] = call[d],
         UNCHANGED <<rows, op, during>>,
         \/ Stage(c)' = Stage(c)
         \/ Stage(c) = "new" /\ Stage(c)' = "running"
         \/ Stage(c) = "running" /\ Stage(c)' = "failed"
  PROVE  Store!Begin(c) \/ Store!Fail(c) \/ UNCHANGED Store!vars
<1>1. Asked' = Asked /\ Stages[c] = Stage(c)
  BY AskedFrame DEF Stages
<1>2. Stages' = [Stages EXCEPT ![c] = Stage(c)']
  BY StageStep
<1>3. CASE Stage(c)' = Stage(c)
  <2>1. Stages' = Stages
    BY <1>2, <1>3 DEF Stages
  <2> QED BY <1>1, <2>1 DEF Store!vars, Stages, Asked
<1>4. CASE Stage(c) = "new" /\ Stage(c)' = "running"
  BY <1>1, <1>2, <1>4 DEF Store!Begin, Stages, Asked
<1>5. CASE Stage(c) = "running" /\ Stage(c)' = "failed"
  BY <1>1, <1>2, <1>5 DEF Store!Fail, Stages, Asked
<1> QED BY <1>3, <1>4, <1>5

LEMMA BecomesMaps ==
  ASSUME Inv, NEW c \in Calls,
         InitSettles(c) \/ ConnectFails(c) \/ RolledBack(c) \/ Invoke(c)
  PROVE  Store!Begin(c) \/ Store!Fail(c) \/ UNCHANGED Store!vars
<1>1. TypeOK /\ UNCHANGED <<rows, op, during>>
  BY DEF Inv, InitSettles, ConnectFails, RolledBack, Invoke
<1>2. PICK at \in Places :
        /\ Becomes(c, at)
        /\ \/ call[c].at = "new" /\ at = "init"
           \/ call[c].at \in {"init", "connect"} /\ at \in {"connect", "failed"}
           \/ call[c].at = "rollback" /\ at = "failed"
  BY DEF InitSettles, ConnectFails, RolledBack, Invoke, Places
<1>3. call'[c].at = at /\ \A d \in Calls \ {c} : call'[d] = call[d]
  BY <1>1, <1>2, BecomesMeans
<1> QED BY <1>1, <1>2, <1>3, QuietMaps DEF Stage

LEMMA ConnectMaps ==
  ASSUME Inv, NEW c \in Calls, Connect(c) PROVE UNCHANGED Store!vars
<1> DEFINE at == IF Statements(op[c]) = <<>> THEN "commit" ELSE "issue"
<1>1. /\ call[c].at = "connect" /\ UNCHANGED <<rows, op, during>>
      /\ call' = [call EXCEPT ![c].at = at, ![c].stmt = 1]
  BY DEF Connect
<1>2. at \in {"commit", "issue"} /\ call \in [Calls -> Call] /\ call[c] \in Call
  BY CallType DEF Inv, TypeOK
<1> HIDE DEF at
<1>3. call'[c].at = at /\ \A d \in Calls \ {c} : call'[d] = call[d]
  BY <1>1, <1>2, CallSet
<1>4. Stage(c)' = "running" /\ Stage(c) = "running"
  BY <1>1, <1>2, <1>3 DEF Stage
<1>5. Stages' = Stages
  BY <1>3, <1>4, StageStep DEF Stages
<1> QED BY <1>1, <1>5, AskedFrame DEF Store!vars, Stages, Asked

LEMMA StatementMaps ==
  ASSUME Inv, NEW c \in Calls, Issue(c) \/ TakeRow(c) PROVE UNCHANGED Store!vars
<1>1. /\ call[c].at \in {"issue", "taking"} /\ UNCHANGED <<rows, op, during>>
      /\ call \in [Calls -> Call] /\ call[c] \in Call
  BY CallType DEF Issue, TakeRow, Inv, TypeOK
<1>2. PICK left, m : GoOn(c, left, m)
  BY DEF Issue, TakeRow
<1>3. PICK r : /\ call' = [call EXCEPT ![c] = r]
               /\ r.at \in {"taking", "commit", "issue"}
  <2>1. CASE left # {}
    <3>1. PICK x \in left :
            call' = [call EXCEPT ![c] = [call[c] EXCEPT !.at = "taking", !.want = x,
                                                       !.todo = left \ {x}, !.mine = m]]
      BY <1>2, <2>1 DEF GoOn
    <3> DEFINE r == [call[c] EXCEPT !.at = "taking", !.want = x, !.todo = left \ {x}, !.mine = m]
    <3>2. r.at = "taking"
      BY <1>1, CallSet
    <3> QED BY <3>1, <3>2
  <2>2. CASE left = {}
    <3> DEFINE done == call[c].stmt = Len(Statements(op[c]))
               at == IF done THEN "commit" ELSE "issue"
               n == IF done THEN call[c].stmt ELSE call[c].stmt + 1
               r == [call[c] EXCEPT !.at = at, !.want = None, !.todo = {}, !.stmt = n, !.mine = m]
    <3>1. call' = [call EXCEPT ![c] = r]
      BY <1>2, <2>2 DEF GoOn
    <3> HIDE DEF n, done
    <3>2. r.at \in {"commit", "issue"}
      BY <1>1, CallSet
    <3> HIDE DEF r
    <3> QED BY <3>1, <3>2
  <2> QED BY <2>1, <2>2
<1>4. call'[c] = r /\ \A d \in Calls \ {c} : call'[d] = call[d]
  BY <1>1, <1>3
<1>5. Stage(c)' = "running" /\ Stage(c) = "running"
  BY <1>1, <1>3, <1>4 DEF Stage
<1>6. Stages' = Stages
  BY <1>4, <1>5, StageStep DEF Stages
<1> QED BY <1>1, <1>6, AskedFrame DEF Store!vars, Stages, Asked

LEMMA QueryFailsMaps ==
  ASSUME Inv, NEW c \in Calls, QueryFails(c) PROVE Store!Fail(c)
<1>1. /\ TypeOK /\ call[c].at \in Busy /\ Ends(c, "rollback") /\ UNCHANGED <<rows, op, during>>
  BY DEF Inv, QueryFails, Busy
<1>2. call'[c].at = "rollback" /\ \A d \in Calls \ {c} : call'[d] = call[d]
  BY <1>1, EndsMeans DEF Places
<1>3. Stage(c) = "running" /\ Stage(c)' = "failed"
  BY <1>1, <1>2 DEF Stage, Busy
<1>4. Stages[c] = "running" /\ Stages' = [Stages EXCEPT ![c] = "failed"]
  BY <1>2, <1>3, StageStep DEF Stages
<1> QED BY <1>1, <1>4, AskedFrame DEF Store!Fail, Stages, Asked

\* A write of the store is applied at once and in full to what the earlier ones left,
\* but for rows to be deleted that others wrote while it ran; one that fails has done
\* nothing, unless the answer to its COMMIT was lost (postgresGraphStore.ts:124-154,
\* 287-337).
THEOREM Implements == Spec => AppliesBatches
<1>1. Init => Store!Init
  <2> SUFFICES ASSUME Init PROVE Store!Init
    OBVIOUS
  <2>1. rows \in [Rows -> Calls \cup {None, "before"}] /\ during = [c \in Calls |-> {}]
    BY DEF Init
  <2>2. \A c \in Calls : Stage(c) = "new"
    BY DEF Init, Stage
  <2> QED BY <2>1, <2>2 DEF Store!Init, Store!Rows, Rows
<1>2. Inv /\ [Next]_vars => [Store!Next]_(Store!vars)
  <2> SUFFICES ASSUME Inv, [Next]_vars PROVE Store!Next \/ UNCHANGED Store!vars
    OBVIOUS
  <2>1. ASSUME NEW c \in Calls, Invoke(c) \/ CallStep(c)
        PROVE  Store!Next \/ UNCHANGED Store!vars
    BY <2>1, CommitMaps, BecomesMaps, ConnectMaps, StatementMaps, QueryFailsMaps
       DEF CallStep, Store!Next
  <2>2. CASE Migrate
    BY <2>2 DEF Migrate, MigrationConnects, MigrationEnds, Store!vars, Stage
  <2>3. CASE UNCHANGED vars
    BY <2>3 DEF vars, Store!vars, Stage
  <2> QED BY <2>1, <2>2, <2>3 DEF Next
<1> QED BY <1>1, <1>2, InvHolds, PTL DEF Spec, AppliesBatches, Store!Spec

=============================================================================
