------------------------- MODULE KnowledgeGraphProofs -------------------------
(***************************************************************************)
(* Proofs about KnowledgeGraph and, in the second half, Consolidation, for *)
(* every number of writes, requests to forget and consolidations, all      *)
(* batches and all domains: types, that edges lead to nodes, that what is  *)
(* forgotten stays forgotten, that a natural key stands for one node       *)
(* unless calls overlap, and what the jobs of consolidation promise.       *)
(***************************************************************************)
EXTENDS Consolidation, WellFoundedInduction, TLAPS
LOCAL INSTANCE SequenceTheorems

-----------------------------------------------------------------------------
(* The inductive invariant                                                 *)

Members(s) == {s[i] : i \in DOMAIN s}

\* A call of the store that a write has left to make.
Calling ==
  [stage: {"primary", "anchor"}, event: MemoryEvent, entity: {None}]
    \cup [stage: {"supersede"}, event: {e \in MemoryEvent : e.kind = "preference"}, entity: {None}]
    \cup [stage: {"domain"}, event: {e \in MemoryEvent : e.domain # None}, entity: {None}]
    \cup [stage: {"exact", "similar"}, event: MemoryEvent, entity: Mention]

\* The search for a like entity comes after the lookup of its name, and only there.
Chained(s) ==
  \A i \in 1 .. Len(s) :
    /\ s[i].stage = "exact" <=> (i + 1 \in 1 .. Len(s) /\ s[i + 1].stage = "similar")
    /\ s[i].stage = "exact" => s[i + 1].entity = s[i].entity

Alike(n, m) == n.type = m.type /\ n.key = m.key /\ n.domain = m.domain

\* Preferences, and no others, have the keys of preferences; an action has no key.
Tagged(n) ==
  /\ n.key # None => (n.key[1] = "pref" <=> n.type = "Preference")
  /\ n.type = "Action" => n.key = None

\* Two nodes that must not both be made.
Clash(n, m) == n.id # m.id /\ n.key # None /\ n.key = m.key /\ n.type # "Preference"

Apart(n, m) == \E f \in MakersOf(n.id), g \in MakersOf(m.id) : Rivals(f, g)
Late(w, n) == \E u \in MakersOf(n.id) : u \notin before[w]
Robbed(w) == \E x \in Forgets \cup Jobs : Overlap(w, x)

Known == Members(nodes) \cup UNION {Members(write[w].staged) : w \in Writers}

\* A write keeps all of its variables.
Keeps(r) ==
  r = [todo |-> r.todo, staged |-> r.staged, links |-> r.links, keys |-> r.keys, last |-> r.last,
       primary |-> r.primary, minted |-> r.minted]

Heads(w, stage) == write[w].todo # <<>> /\ Head(write[w].todo).stage = stage

\* What is so of every write, whatever the others do.
WriteOK(w) ==
  /\ Keeps(write[w]) /\ write[w].todo \in Seq(Calling) /\ Chained(write[w].todo)
  /\ write[w].primary \in Id \cup {None}
  /\ pc[w] # "busy" => write[w] = NoWrite
  /\ write[w].todo # <<>> /\ ~ Heads(w, "primary") => write[w].primary \in Ids(write[w].staged)
  /\ \A n \in Members(write[w].staged) :
       /\ n.id[1] = w => n.id[2] <= write[w].minted /\ (n.key # None => n.key \in DOMAIN write[w].keys)
       /\ n.id[1] # w =>
            n.id \in DOMAIN makers /\ (n.id \in Ids(nodes) \/ Robbed(w)) /\ n.type # "Action"
  /\ \A e \in write[w].links :
       /\ e.by = w /\ e.type # "DERIVED_FROM"
       /\ \A id \in {e.from, e.to} :
            id \in Ids(write[w].staged) \cup Ids(nodes) \/ (id \in DOMAIN gone /\ w \in gone[id])

\* What a write has staged and what is stored, and what it has staged by itself.
KeysOK(w) ==
  /\ \A n \in Members(nodes), c \in Members(write[w].staged) :
       Clash(n, c) => Apart(n, c) \/ Late(w, n)
  /\ \A c, d \in Members(write[w].staged) :
       Clash(c, d) => Apart(c, d) \/ Late(w, c) \/ Late(w, d) \/ Robbed(w)
  /\ Heads(w, "similar") =>
       LET key == EntityKey(Head(write[w].todo).entity)
       IN  /\ \A n \in Members(nodes) : n.key = key => Late(w, n)
           /\ \A c \in Members(write[w].staged) : c.key = key => Robbed(w)

ForgetOK(g) ==
  /\ forget[g] \in [domain: Domains \cup {None}, ids: SUBSET Id, listed: SUBSET Flows, found: BOOLEAN]
  /\ pc[g] # "busy" => forget[g] = NoForget
  /\ forget[g].listed \subseteq Ended
  /\ forget[g].domain # None =>
       \A n \in Members(nodes) :
         n.domain = forget[g].domain /\ origin[n.id] \in forget[g].listed => n.id \in forget[g].ids

CopiesOK ==
  /\ \A n, m \in Known : n.id = m.id => Alike(n, m)
  /\ \A n \in Known : Tagged(n)

\* The flows that may have put a node into the store.
Stores == Ended \cup (Jobs \cap Underway)

HistoryOK ==
  /\ \A f \in Flows : before[f] \subseteq Ended
  /\ \A d \in Domains : forgot[d] \subseteq Ended
  /\ \A id \in DOMAIN makers : id[1] \in Stores /\ makers[id] \subseteq Stores

IInv ==
  /\ TypeOK /\ HistoryOK /\ CopiesOK
  /\ \A w \in Writers : WriteOK(w) /\ KeysOK(w)
  /\ \A g \in Forgets : ForgetOK(g)
  /\ OneNodePerKey /\ CascadeHolds /\ ForgottenStays

-----------------------------------------------------------------------------
(* Induction                                                               *)

\* A relation in which every smaller number comes before a larger one has no infinite descent.
LEMMA NatOrder == \E R : IsWellFoundedOn(R, Nat) /\ \A m, n \in Nat : m < n => <<m, n>> \in R
<1> DEFINE R == OpToRel(<, Nat)
<1>1. IsWellFoundedOn(R, Nat)
  BY Zenon, NatLessThanWellFounded
<1>2. \A m, n \in Nat : m < n => <<m, n>> \in R
  BY DEF OpToRel
<1> HIDE DEF R
<1> QED BY <1>1, <1>2

LEMMA Least ==
  ASSUME NEW T, T \subseteq Nat, T # {}
  PROVE  \E x \in T : \A y \in T : x <= y
<1>1. PICK R : IsWellFoundedOn(R, Nat) /\ \A m, n \in Nat : m < n => <<m, n>> \in R
  BY NatOrder
<1>2. PICK x \in T : \A y \in T : ~ (<<y, x>> \in R)
  <2>1. IsWellFoundedOn(R, Nat) /\ T \subseteq Nat /\ T # {}
    BY <1>1
  <2> QED BY <2>1, WFMin
<1>3. ASSUME NEW y \in T PROVE x <= y
  <2>1. x \in Nat /\ y \in Nat /\ ~ (y < x)
    BY <1>1, <1>2
  <2> QED BY <2>1
<1> QED BY <1>3

\* Induction over a set of numbers.
LEMMA SetInduction ==
  ASSUME NEW S, 0 \in S, \A n \in Nat : n \in S => n + 1 \in S
  PROVE  Nat \subseteq S
<1> SUFFICES ASSUME NEW T, T = Nat \ S, T # {} PROVE FALSE
  OBVIOUS
<1>1. PICK x \in T : \A y \in T : x <= y
  <2>1. T \subseteq Nat
    OBVIOUS
  <2> QED BY <2>1, Least
<1>2. x \in Nat /\ x # 0
  OBVIOUS
<1>3. x - 1 \in Nat /\ (x - 1) + 1 = x /\ ~ (x <= x - 1)
  BY <1>2
<1>4. x - 1 \in T
  BY <1>2, <1>3
<1> QED BY <1>1, <1>3, <1>4

-----------------------------------------------------------------------------
(* Filter                                                                  *)

\* The first n steps of a filter, one function.
Filters(q, places, f, n) ==
  /\ f[0] = <<>>
  /\ \A i \in 1 .. n : f[i] = IF i \in places THEN Append(f[i - 1], q[i]) ELSE f[i - 1]

LEMMA FiltersExists ==
  ASSUME NEW S, NEW q \in Seq(S), NEW places
  PROVE  \E f \in [0 .. Len(q) -> Seq(S)] : Filters(q, places, f, Len(q))
<1> DEFINE N == {n \in Nat : n <= Len(q) => \E f \in [0 .. n -> Seq(S)] : Filters(q, places, f, n)}
<1>1. Len(q) \in Nat /\ \A i \in 1 .. Len(q) : q[i] \in S
  OBVIOUS
<1>2. 0 \in N
  <2> DEFINE f == [i \in 0 .. 0 |-> <<>>]
  <2>1. f \in [0 .. 0 -> Seq(S)] /\ Filters(q, places, f, 0)
    BY DEF Filters
  <2> HIDE DEF f
  <2> QED BY <2>1
<1>3. ASSUME NEW n \in Nat, n \in N PROVE n + 1 \in N
  <2> SUFFICES ASSUME n + 1 <= Len(q)
               PROVE  \E f \in [0 .. n + 1 -> Seq(S)] : Filters(q, places, f, n + 1)
    OBVIOUS
  <2>1. PICK f \in [0 .. n -> Seq(S)] : Filters(q, places, f, n)
    BY <1>1, <1>3
  <2> DEFINE x == IF n + 1 \in places THEN Append(f[n], q[n + 1]) ELSE f[n]
             g == [i \in 0 .. n + 1 |-> IF i = n + 1 THEN x ELSE f[i]]
  <2>2. x \in Seq(S)
    BY <1>1
  <2>3. \A i \in 0 .. n : g[i] = f[i]
    OBVIOUS
  <2>4. g[n + 1] = x
    OBVIOUS
  <2>5. g \in [0 .. n + 1 -> Seq(S)]
    BY <2>2
  <2> HIDE DEF g
  <2>6. Filters(q, places, g, n + 1)
    <3>1. \A i \in 1 .. n + 1 : i \in 1 .. n \/ i = n + 1
      OBVIOUS
    <3>2. g[0] = <<>>
      BY <2>1, <2>3 DEF Filters
    <3>3. ASSUME NEW i \in 1 .. n
          PROVE  g[i] = IF i \in places THEN Append(g[i - 1], q[i]) ELSE g[i - 1]
      BY SMTT(30), <2>1, <2>3 DEF Filters
    <3>4. g[n + 1] = IF n + 1 \in places THEN Append(g[n], q[n + 1]) ELSE g[n]
      BY <2>3, <2>4
    <3> QED BY <3>1, <3>2, <3>3, <3>4 DEF Filters
  <2> QED BY <2>5, <2>6
<1> HIDE DEF N
<1>4. Len(q) \in N
  BY <1>1, <1>2, <1>3, SetInduction
<1> QED BY <1>1, <1>4 DEF N

\* The recursive function of Filter's definition meets its equation.
LEMMA FilterDef ==
  ASSUME NEW S, NEW q \in Seq(S), NEW places
  PROVE  \E f : Filters(q, places, f, Len(q)) /\ Filter(q, places) = f[Len(q)]
<1> DEFINE D(kept) == [i \in 0 .. Len(q) |->
                         IF i = 0 THEN <<>>
                         ELSE IF i \in places THEN Append(kept[i - 1], q[i]) ELSE kept[i - 1]]
           f == CHOOSE kept : kept = D(kept)
<1>1. PICK g \in [0 .. Len(q) -> Seq(S)] : Filters(q, places, g, Len(q))
  BY FiltersExists
<1>2. Len(q) \in Nat
  OBVIOUS
<1>3. g = D(g)
  <2>1. ASSUME NEW i \in 0 .. Len(q) PROVE g[i] = D(g)[i]
    <3>1. CASE i = 0
      BY <1>1, <1>2, <3>1 DEF Filters
    <3>2. CASE i \in 1 .. Len(q)
      BY <1>1, <1>2, <3>2 DEF Filters
    <3> QED BY <1>2, <3>1, <3>2
  <2> QED BY <2>1
<1>4. f = D(f)
  <2> HIDE DEF D
  <2> QED BY <1>3
<1>5. Filters(q, places, f, Len(q))
  <2>1. f[0] = <<>>
    <3>1. 0 \in 0 .. Len(q)
      BY <1>2
    <3>2. f[0] = D(f)[0]
      BY Zenon, <1>4
    <3> HIDE DEF f
    <3> QED BY <3>1, <3>2
  <2>2. ASSUME NEW i \in 1 .. Len(q)
        PROVE  f[i] = IF i \in places THEN Append(f[i - 1], q[i]) ELSE f[i - 1]
    <3>1. i \in 0 .. Len(q) /\ i # 0
      BY <1>2
    <3>2. f[i] = D(f)[i]
      BY Zenon, <1>4
    <3> HIDE DEF f
    <3> QED BY <3>1, <3>2
  <2> HIDE DEF f
  <2> QED BY <2>1, <2>2 DEF Filters
<1>6. Filter(q, places) = f[Len(q)]
  BY DEF Filter
<1> HIDE DEF f
<1> QED BY <1>5, <1>6

\* t is what stands at places of the first n of q: pos says where it stood.
Picks(q, places, n, t, pos) ==
  /\ pos \in [1 .. Len(t) -> 1 .. n]
  /\ \A i \in 1 .. Len(t) : pos[i] \in places /\ t[i] = q[pos[i]]
  /\ \A i, j \in 1 .. Len(t) : i < j => pos[i] < pos[j]
  /\ \A k \in 1 .. n : k \in places => \E i \in 1 .. Len(t) : pos[i] = k

LEMMA FilterMeans ==
  ASSUME NEW S, NEW q \in Seq(S), NEW places
  PROVE  Filter(q, places) \in Seq(S)
         /\ \E pos : Picks(q, places, Len(q), Filter(q, places), pos)
<1>1. PICK f : Filters(q, places, f, Len(q)) /\ Filter(q, places) = f[Len(q)]
  BY FilterDef
<1>2. Len(q) \in Nat /\ \A i \in 1 .. Len(q) : q[i] \in S
  OBVIOUS
<1> DEFINE N == {n \in Nat : n <= Len(q) =>
                   f[n] \in Seq(S) /\ \E pos : Picks(q, places, n, f[n], pos)}
<1>3. 0 \in N
  <2>1. f[0] = <<>>
    BY <1>1 DEF Filters
  <2>2. <<>> \in Seq(S) /\ Len(<<>>) = 0
    OBVIOUS
  <2> DEFINE pos == [i \in 1 .. 0 |-> 0]
  <2>3. Picks(q, places, 0, <<>>, pos)
    BY DEF Picks
  <2> HIDE DEF pos
  <2> QED BY <2>1, <2>2, <2>3
<1>4. ASSUME NEW n \in Nat, n \in N PROVE n + 1 \in N
  <2> SUFFICES ASSUME n + 1 <= Len(q)
               PROVE  f[n + 1] \in Seq(S) /\ \E pos : Picks(q, places, n + 1, f[n + 1], pos)
    OBVIOUS
  <2> DEFINE t == f[n]
  <2>1. t \in Seq(S) /\ Len(t) \in Nat
    BY <1>2, <1>4
  <2>2. PICK pos : Picks(q, places, n, t, pos)
    BY <1>2, <1>4
  <2>3. n + 1 \in 1 .. Len(q) /\ q[n + 1] \in S
    BY <1>2
  <2>4. f[n + 1] = IF n + 1 \in places THEN Append(t, q[n + 1]) ELSE t
    BY <1>1, <2>3 DEF Filters
  <2> HIDE DEF t
  <2>5. CASE n + 1 \notin places
    <3>1. Picks(q, places, n + 1, t, pos)
      BY SMTT(30), <2>1, <2>2, <2>5 DEF Picks
    <3> QED BY <2>1, <2>4, <2>5, <3>1
  <2>6. CASE n + 1 \in places
    <3> DEFINE u == Append(t, q[n + 1])
               p == [i \in 1 .. Len(t) + 1 |-> IF i = Len(t) + 1 THEN n + 1 ELSE pos[i]]
    <3>1. /\ u \in Seq(S) /\ Len(u) = Len(t) + 1 /\ u[Len(t) + 1] = q[n + 1]
          /\ \A i \in 1 .. Len(t) : u[i] = t[i]
      BY <2>1, <2>3, AppendProperties
    <3>2. \A i \in 1 .. Len(t) : p[i] = pos[i] /\ pos[i] \in 1 .. n
      BY <2>1, <2>2 DEF Picks
    <3>3. p[Len(t) + 1] = n + 1
      BY <2>1
    <3>4. p \in [1 .. Len(t) + 1 -> 1 .. n + 1]
      <4>1. \A i \in 1 .. Len(t) + 1 : i # Len(t) + 1 => pos[i] \in 1 .. n
        BY <2>1, <2>2 DEF Picks
      <4>2. \A i \in 1 .. Len(t) + 1 : (IF i = Len(t) + 1 THEN n + 1 ELSE pos[i]) \in 1 .. n + 1
        BY <2>1, <4>1
      <4> QED BY <4>2
    <3> HIDE DEF u, p
    <3>5. \A i \in 1 .. Len(t) + 1 : i \in 1 .. Len(t) \/ i = Len(t) + 1
      BY <2>1
    <3>6. \A i \in 1 .. Len(u) : p[i] \in places /\ u[i] = q[p[i]]
      BY <2>2, <2>6, <3>1, <3>2, <3>3, <3>5 DEF Picks
    <3>7. \A i, j \in 1 .. Len(u) : i < j => p[i] < p[j]
      <4> SUFFICES ASSUME NEW i \in 1 .. Len(u), NEW j \in 1 .. Len(u), i < j
                   PROVE  p[i] < p[j]
        OBVIOUS
      <4>1. i \in 1 .. Len(t)
        BY <2>1, <3>1
      <4>2. CASE j \in 1 .. Len(t)
        BY <2>2, <3>2, <4>1, <4>2 DEF Picks
      <4>3. CASE j = Len(t) + 1
        BY <3>2, <3>3, <4>1, <4>3
      <4> QED BY <3>1, <3>5, <4>2, <4>3
    <3>8. ASSUME NEW k \in 1 .. n + 1, k \in places
          PROVE  \E i \in 1 .. Len(u) : p[i] = k
      <4>1. CASE k = n + 1
        BY <2>1, <3>1, <3>3, <4>1
      <4>2. CASE k \in 1 .. n
        <5>1. PICK i \in 1 .. Len(t) : pos[i] = k
          BY <2>2, <3>8, <4>2 DEF Picks
        <5> QED BY <2>1, <3>1, <3>2, <5>1
      <4> QED BY <4>1, <4>2
    <3>9. Picks(q, places, n + 1, u, p)
      BY <3>1, <3>4, <3>6, <3>7, <3>8 DEF Picks
    <3>10. f[n + 1] = u
      BY <2>4, <2>6 DEF u
    <3> QED BY <3>1, <3>9, <3>10
  <2> QED BY <2>5, <2>6
<1> HIDE DEF N
<1>5. Len(q) \in N
  BY <1>2, <1>3, <1>4, SetInduction
<1> QED BY <1>1, <1>2, <1>5 DEF N

-----------------------------------------------------------------------------
(* Sequences of nodes                                                      *)

LEMMA MembersMean ==
  ASSUME NEW S, NEW s \in Seq(S), NEW m
  PROVE  /\ m \in Members(s) <=> \E i \in 1 .. Len(s) : s[i] = m
         /\ m \in Members(s) => m \in S
         /\ m \in Ids(s) <=> \E n \in Members(s) : n.id = m
BY DEF Members, Ids

LEMMA DistinctMembers ==
  ASSUME NEW S, NEW s \in Seq(S), Distinct(s), NEW m \in Members(s), NEW n \in Members(s), m.id = n.id
  PROVE  m = n
BY DEF Members, Distinct

LEMMA GetMeans ==
  ASSUME NEW S, NEW s \in Seq(S), NEW id \in Ids(s)
  PROVE  Get(s, id) \in Members(s) /\ Get(s, id).id = id
<1>1. PICK i \in DOMAIN s : s[i].id = id
  BY DEF Ids
<1>2. \E j : j \in DOMAIN s /\ s[j].id = id
  BY <1>1
<1> DEFINE k == CHOOSE j \in DOMAIN s : s[j].id = id
<1>3. k \in DOMAIN s /\ s[k].id = id
  BY <1>2
<1> HIDE DEF k
<1>4. s[k] \in Members(s) /\ s[k].id = id
  BY <1>3 DEF Members
<1> QED BY <1>4 DEF Get, k

LEMMA PutMeans ==
  ASSUME NEW S, NEW s \in Seq(S), NEW n \in S, Distinct(s)
  PROVE  /\ Put(s, n) \in Seq(S) /\ Distinct(Put(s, n)) /\ n \in Members(Put(s, n))
         /\ \A m \in Members(Put(s, n)) : m = n \/ m \in Members(s)
         /\ Ids(Put(s, n)) = Ids(s) \cup {n.id}
<1>1. CASE n.id \in Ids(s)
  <2> DEFINE t == [i \in DOMAIN s |-> IF s[i].id = n.id THEN n ELSE s[i]]
  <2>1. t \in Seq(S) /\ DOMAIN t = DOMAIN s
    <3>1. Len(s) \in Nat /\ DOMAIN s = 1 .. Len(s) /\ \A i \in 1 .. Len(s) : s[i] \in S
      OBVIOUS
    <3>2. t \in [1 .. Len(s) -> S]
      BY <3>1
    <3> QED BY <3>1, <3>2, SeqDef
  <2>2. \A i \in DOMAIN s : (s[i].id = n.id /\ t[i] = n) \/ (s[i].id # n.id /\ t[i] = s[i])
    OBVIOUS
  <2>3. Put(s, n) = t
    BY <1>1 DEF Put
  <2> HIDE DEF t
  <2>4. \A i \in DOMAIN s : t[i].id = s[i].id
    BY <2>2
  <2>5. Distinct(t)
    BY <2>1, <2>4 DEF Distinct
  <2>6. Ids(t) = Ids(s)
    BY <2>1, <2>4 DEF Ids
  <2>7. PICK k \in DOMAIN s : s[k].id = n.id
    BY <1>1 DEF Ids
  <2>8. n \in Members(t)
    BY <2>1, <2>2, <2>7 DEF Members
  <2>9. \A m \in Members(t) : m = n \/ m \in Members(s)
    BY <2>1, <2>2 DEF Members
  <2> QED BY <1>1, <2>1, <2>3, <2>5, <2>6, <2>8, <2>9
<1>2. CASE n.id \notin Ids(s)
  <2> DEFINE t == Append(s, n)
  <2>1. /\ t \in Seq(S) /\ Len(s) \in Nat /\ Len(t) = Len(s) + 1
        /\ DOMAIN s = 1 .. Len(s) /\ DOMAIN t = 1 .. Len(s) + 1
        /\ t[Len(s) + 1] = n /\ \A i \in 1 .. Len(s) : t[i] = s[i]
    BY AppendProperties
  <2>2. Put(s, n) = t
    BY <1>2 DEF Put
  <2> HIDE DEF t
  <2>3. \A i \in DOMAIN t : (i \in DOMAIN s /\ t[i] = s[i]) \/ (i = Len(s) + 1 /\ t[i] = n)
    BY <2>1
  <2>4. \A i \in DOMAIN s : i \in DOMAIN t /\ s[i].id # n.id
    BY <1>2, <2>1 DEF Ids
  <2>5. Distinct(t)
    BY <2>3, <2>4 DEF Distinct
  <2>6. Len(s) + 1 \in DOMAIN t
    BY <2>1
  <2>7. Ids(t) = Ids(s) \cup {n.id}
    BY <2>1, <2>3, <2>4, <2>6 DEF Ids
  <2>8. n \in Members(t) /\ \A m \in Members(t) : m = n \/ m \in Members(s)
    BY <2>1, <2>3, <2>6 DEF Members
  <2> QED BY <2>1, <2>2, <2>5, <2>7, <2>8
<1> QED BY <1>1, <1>2

\* What a filter leaves.
LEMMA FilterMembers ==
  ASSUME NEW S, NEW s \in Seq(S), Distinct(s), NEW P \in SUBSET DOMAIN s
  PROVE  /\ Filter(s, P) \in Seq(S) /\ Distinct(Filter(s, P))
         /\ \A m : m \in Members(Filter(s, P)) <=> \E i \in P : s[i] = m
<1> DEFINE t == Filter(s, P)
<1>1. t \in Seq(S) /\ \E pos : Picks(s, P, Len(s), t, pos)
  BY FilterMeans
<1> HIDE DEF t
<1>2. PICK pos : Picks(s, P, Len(s), t, pos)
  BY <1>1
<1>3. Len(s) \in Nat /\ Len(t) \in Nat /\ DOMAIN s = 1 .. Len(s) /\ DOMAIN t = 1 .. Len(t)
  BY <1>1
<1>4. Distinct(t)
  <2> SUFFICES ASSUME NEW i \in 1 .. Len(t), NEW j \in 1 .. Len(t), t[i].id = t[j].id PROVE i = j
    BY <1>3 DEF Distinct
  <2>1. pos[i] \in DOMAIN s /\ pos[j] \in DOMAIN s /\ t[i] = s[pos[i]] /\ t[j] = s[pos[j]]
    BY <1>2, <1>3 DEF Picks
  <2>2. pos[i] = pos[j]
    BY <2>1 DEF Distinct
  <2>3. ~ (i < j) /\ ~ (j < i)
    BY <1>2, <1>3, <2>1, <2>2 DEF Picks
  <2> QED BY <1>3, <2>3
<1>5. ASSUME NEW m PROVE m \in Members(t) <=> \E i \in P : s[i] = m
  <2>1. ASSUME m \in Members(t) PROVE \E i \in P : s[i] = m
    <3>1. PICK i \in 1 .. Len(t) : t[i] = m
      BY <1>3, <2>1 DEF Members
    <3>2. pos[i] \in P /\ t[i] = s[pos[i]]
      BY <1>2 DEF Picks
    <3> QED BY <3>1, <3>2
  <2>2. ASSUME NEW k \in P, s[k] = m PROVE m \in Members(t)
    <3>1. PICK i \in 1 .. Len(t) : pos[i] = k
      BY <1>2, <1>3 DEF Picks
    <3>2. t[i] = m
      BY <1>2, <2>2, <3>1 DEF Picks
    <3> QED BY <1>3, <3>2 DEF Members
  <2> QED BY <2>1, <2>2
<1> QED BY <1>1, <1>4, <1>5 DEF t

LEMMA PutAllMeans ==
  ASSUME NEW S, NEW s \in Seq(S), NEW t \in Seq(S), Distinct(s), Distinct(t)
  PROVE  /\ PutAll(s, t) \in Seq(S) /\ Distinct(PutAll(s, t))
         /\ \A m \in Members(PutAll(s, t)) : m \in Members(t) \/ (m \in Members(s) /\ m.id \notin Ids(t))
         /\ Ids(PutAll(s, t)) = Ids(s) \cup Ids(t)
<1> DEFINE a == [i \in DOMAIN s |-> IF s[i].id \in Ids(t) THEN Get(t, s[i].id) ELSE s[i]]
           P == {i \in DOMAIN t : t[i].id \notin Ids(s)}
           b == Filter(t, P)
           u == a \o b
<1>1. Len(s) \in Nat /\ DOMAIN s = 1 .. Len(s) /\ \A i \in DOMAIN s : s[i] \in S
  OBVIOUS
<1>2. \A id \in Ids(t) : Get(t, id) \in Members(t) /\ Get(t, id).id = id /\ Get(t, id) \in S
  BY GetMeans, MembersMean
<1>3. \A i \in DOMAIN s : a[i].id = s[i].id /\ a[i] \in S
  BY <1>1, <1>2
<1>4. \A i \in DOMAIN s : a[i] \in Members(t) \/ (a[i] = s[i] /\ s[i].id \notin Ids(t))
  BY <1>2
<1>5. a \in Seq(S) /\ DOMAIN a = DOMAIN s /\ Len(a) = Len(s)
  <2>1. a \in [1 .. Len(s) -> S]
    BY <1>1, <1>3
  <2> HIDE DEF a
  <2>2. a \in Seq(S)
    BY <1>1, <2>1, SeqDef
  <2>3. DOMAIN a = 1 .. Len(s)
    BY <2>1
  <2> QED BY <1>1, <2>2, <2>3, LenProperties
<1>6. P \in SUBSET DOMAIN t
  OBVIOUS
<1>7. \A i \in P : t[i] \in Members(t) /\ t[i].id \notin Ids(s)
  BY DEF Members
<1>8. \A i \in DOMAIN t : i \in P \/ t[i].id \in Ids(s)
  OBVIOUS
<1> HIDE DEF a, P
<1>9. b \in Seq(S) /\ Distinct(b) /\ \A m : m \in Members(b) <=> \E i \in P : t[i] = m
  BY <1>6, FilterMembers
<1> HIDE DEF b
<1>10. Len(b) \in Nat /\ DOMAIN b = 1 .. Len(b) /\ \A i \in 1 .. Len(b) : b[i] \in Members(b)
  BY <1>9 DEF Members
<1>11. /\ u \in Seq(S) /\ Len(u) = Len(s) + Len(b)
       /\ \A i \in 1 .. Len(s) + Len(b) : u[i] = IF i <= Len(s) THEN a[i] ELSE b[i - Len(s)]
  <2>1. a \in Seq(S) /\ b \in Seq(S)
    BY <1>5, <1>9
  <2>2. /\ u \in Seq(S) /\ Len(u) = Len(a) + Len(b)
        /\ \A i \in 1 .. Len(a) + Len(b) : u[i] = IF i <= Len(a) THEN a[i] ELSE b[i - Len(a)]
    BY <2>1, ConcatProperties
  <2> HIDE DEF u
  <2> QED BY <1>5, <2>2
<1> HIDE DEF u
<1>12. DOMAIN u = 1 .. Len(s) + Len(b)
  BY <1>11, LenProperties
<1>13. \A i \in DOMAIN u :
         (i \in DOMAIN s /\ u[i] = a[i]) \/ (i - Len(s) \in DOMAIN b /\ u[i] = b[i - Len(s)])
  <2> SUFFICES ASSUME NEW i \in DOMAIN u
               PROVE  (i \in DOMAIN s /\ u[i] = a[i]) \/ (i - Len(s) \in DOMAIN b /\ u[i] = b[i - Len(s)])
    OBVIOUS
  <2>1. i \in 1 .. Len(s) + Len(b)
    BY <1>12
  <2>2. CASE i <= Len(s)
    BY <1>1, <1>11, <2>1, <2>2
  <2>3. CASE ~ (i <= Len(s))
    <3>1. i - Len(s) \in 1 .. Len(b)
      BY <1>1, <1>10, <2>1, <2>3
    <3> QED BY <1>10, <1>11, <2>1, <2>3, <3>1
  <2> QED BY <2>2, <2>3
<1>14. \A i \in DOMAIN s : i \in DOMAIN u /\ u[i] = a[i]
  BY <1>1, <1>10, <1>11, <1>12
<1>15. \A i \in DOMAIN b : i + Len(s) \in DOMAIN u /\ u[i + Len(s)] = b[i]
  BY <1>1, <1>10, <1>11, <1>12
<1>16. \A i \in DOMAIN b : b[i] \in Members(t) /\ b[i].id \notin Ids(s)
  BY <1>7, <1>9, <1>10
<1>17. \A i \in DOMAIN s : a[i].id \in Ids(s)
  BY <1>3 DEF Ids
<1>18. Distinct(u)
  <2> SUFFICES ASSUME NEW i \in DOMAIN u, NEW j \in DOMAIN u, u[i].id = u[j].id PROVE i = j
    BY DEF Distinct
  <2>1. CASE i \in DOMAIN s /\ u[i] = a[i]
    <3>1. j \in DOMAIN s /\ u[j] = a[j]
      BY <1>13, <1>16, <1>17, <2>1
    <3> QED BY <1>3, <2>1, <3>1 DEF Distinct
  <2>2. CASE i - Len(s) \in DOMAIN b /\ u[i] = b[i - Len(s)]
    <3>1. j - Len(s) \in DOMAIN b /\ u[j] = b[j - Len(s)]
      BY <1>13, <1>16, <1>17, <2>2
    <3>2. i - Len(s) = j - Len(s)
      BY <1>9, <2>2, <3>1 DEF Distinct
    <3>3. i \in Nat /\ j \in Nat
      BY <1>1, <1>10, <1>12
    <3> QED BY <1>1, <3>2, <3>3
  <2> QED BY <1>13, <2>1, <2>2
<1>19. \A m \in Members(u) : m \in Members(t) \/ (m \in Members(s) /\ m.id \notin Ids(t))
  BY <1>4, <1>13, <1>16 DEF Members
<1>20. Ids(u) \subseteq Ids(s) \cup Ids(t)
  <2>1. \A m \in Members(t) : m.id \in Ids(t)
    BY MembersMean
  <2> QED BY <1>13, <1>16, <1>17, <2>1 DEF Ids
<1>21. Ids(s) \subseteq Ids(u)
  BY <1>3, <1>14 DEF Ids
<1>22. ASSUME NEW id \in Ids(t) PROVE id \in Ids(u)
  <2>1. CASE id \in Ids(s)
    BY <1>21, <2>1
  <2>2. CASE id \notin Ids(s)
    <3>1. PICK i \in DOMAIN t : t[i].id = id
      BY DEF Ids
    <3>2. i \in P
      BY <1>8, <2>2, <3>1
    <3>3. PICK k \in DOMAIN b : b[k] = t[i]
      BY <1>9, <3>2 DEF Members
    <3> QED BY <1>15, <3>1, <3>3 DEF Ids
  <2> QED BY <2>1, <2>2
<1>23. PutAll(s, t) = u
  BY DEF PutAll, u, a, b, P
<1> QED BY <1>11, <1>18, <1>19, <1>20, <1>21, <1>22, <1>23

\* The first place of some.
LEMMA FirstOfMeans ==
  ASSUME NEW S, NEW s \in Seq(S), NEW P \in SUBSET DOMAIN s
  PROVE  \/ P = {} /\ FirstOf(s, P) = None
         \/ \E i \in P : FirstOf(s, P) = s[i]
<1>1. CASE P # {}
  <2>1. P \subseteq Nat
    OBVIOUS
  <2>2. \E i \in P : \A j \in P : i <= j
    BY <1>1, <2>1, Least
  <2> DEFINE k == CHOOSE i \in P : \A j \in P : i <= j
  <2>3. k \in P
    BY <2>2
  <2> QED BY <1>1, <2>3 DEF FirstOf
<1> QED BY <1>1 DEF FirstOf

LEMMA FindMeans ==
  ASSUME nodes \in Seq(Node), NEW key
  PROVE  \/ FindByNaturalKey(key) = None /\ \A n \in Members(nodes) : n.key # key
         \/ /\ FindByNaturalKey(key) # None /\ FindByNaturalKey(key) \in Members(nodes)
            /\ FindByNaturalKey(key).key = key
<1> DEFINE P == {i \in DOMAIN nodes : nodes[i].key = key}
<1>1. P \in SUBSET DOMAIN nodes
  OBVIOUS
<1>2. FindByNaturalKey(key) = FirstOf(nodes, P)
  BY DEF FindByNaturalKey
<1>3. \A i \in DOMAIN nodes : nodes[i] \in Node
  OBVIOUS
<1>4. \A i \in P : i \in DOMAIN nodes /\ nodes[i].key = key
  OBVIOUS
<1>5. \A i \in DOMAIN nodes : nodes[i].key = key => i \in P
  OBVIOUS
<1> HIDE DEF P
<1>6. CASE P = {}
  <2>1. FirstOf(nodes, P) = None
    BY <1>1, <1>6, FirstOfMeans
  <2> QED BY <1>2, <1>5, <1>6, <2>1 DEF Members
<1>7. ASSUME NEW i \in P, FirstOf(nodes, P) = nodes[i]
      PROVE  /\ FindByNaturalKey(key) # None /\ FindByNaturalKey(key) \in Members(nodes)
             /\ FindByNaturalKey(key).key = key
  <2>1. nodes[i] # None
    BY <1>3, <1>4, <1>7, MemoryAssumption
  <2> QED BY <1>2, <1>4, <1>7, <2>1 DEF Members
<1> QED BY <1>1, <1>6, <1>7, FirstOfMeans

-----------------------------------------------------------------------------
(* FlattenSeq                                                              *)

\* The first n steps of flattening, one function.
Flattens(ss, f, n) ==
  \A i \in 1 .. n : f[i] = IF i = 1 THEN ss[i] ELSE f[i - 1] \o ss[i]

LEMMA FlattensExists ==
  ASSUME NEW C, <<>> \in C, \A a, b \in C : a \o b \in C, NEW ss \in Seq(C)
  PROVE  \E f \in [1 .. Len(ss) -> C] : Flattens(ss, f, Len(ss))
<1> DEFINE N == {n \in Nat : n <= Len(ss) => \E f \in [1 .. n -> C] : Flattens(ss, f, n)}
<1>1. Len(ss) \in Nat /\ \A i \in 1 .. Len(ss) : ss[i] \in C
  OBVIOUS
<1>2. 0 \in N
  <2> DEFINE f == [i \in 1 .. 0 |-> <<>>]
  <2>1. f \in [1 .. 0 -> C] /\ Flattens(ss, f, 0)
    BY DEF Flattens
  <2> HIDE DEF f
  <2> QED BY <2>1
<1>3. ASSUME NEW n \in Nat, n \in N PROVE n + 1 \in N
  <2> SUFFICES ASSUME n + 1 <= Len(ss)
               PROVE  \E f \in [1 .. n + 1 -> C] : Flattens(ss, f, n + 1)
    OBVIOUS
  <2>1. PICK f \in [1 .. n -> C] : Flattens(ss, f, n)
    BY <1>1, <1>3
  <2> DEFINE x == IF n + 1 = 1 THEN ss[n + 1] ELSE f[n] \o ss[n + 1]
             g == [i \in 1 .. n + 1 |-> IF i = n + 1 THEN x ELSE f[i]]
  <2>2. x \in C
    <3>1. ss[n + 1] \in C
      BY <1>1
    <3>2. CASE n + 1 = 1
      BY <3>1, <3>2
    <3>3. CASE n + 1 # 1
      <4>1. n \in 1 .. n
        BY <3>3
      <4>2. f[n] \in C
        BY <2>1, <4>1
      <4> QED BY <3>1, <3>3, <4>2
    <3> QED BY <3>2, <3>3
  <2>3. \A i \in 1 .. n : g[i] = f[i]
    <3> HIDE DEF x
    <3>1. \A i \in 1 .. n : i \in 1 .. n + 1 /\ i # n + 1
      OBVIOUS
    <3> QED BY <3>1
  <2>4. g[n + 1] = x
    <3> HIDE DEF x
    <3>1. n + 1 \in 1 .. n + 1
      OBVIOUS
    <3> QED BY <3>1
  <2>5. g \in [1 .. n + 1 -> C]
    <3> HIDE DEF x
    <3> QED BY <2>2
  <2> HIDE DEF g
  <2>6. Flattens(ss, g, n + 1)
    <3>1. \A i \in 1 .. n + 1 : i \in 1 .. n \/ i = n + 1
      OBVIOUS
    <3>2. ASSUME NEW i \in 1 .. n PROVE g[i] = IF i = 1 THEN ss[i] ELSE g[i - 1] \o ss[i]
      <4>1. i = 1 \/ i - 1 \in 1 .. n
        OBVIOUS
      <4> QED BY <2>1, <2>3, <4>1 DEF Flattens
    <3>3. g[n + 1] = IF n + 1 = 1 THEN ss[n + 1] ELSE g[n] \o ss[n + 1]
      <4>1. n + 1 = 1 \/ n \in 1 .. n
        OBVIOUS
      <4> QED BY <2>3, <2>4, <4>1
    <3>4. n + 1 - 1 = n
      OBVIOUS
    <3> QED BY <3>1, <3>2, <3>3, <3>4 DEF Flattens
  <2> QED BY <2>5, <2>6
<1> HIDE DEF N
<1>4. Len(ss) \in N
  BY <1>1, <1>2, <1>3, SetInduction
<1> QED BY <1>1, <1>4 DEF N

\* What sequences have that is kept when they are put together, their flattening has.
LEMMA FlattenIn ==
  ASSUME NEW C, <<>> \in C, \A a, b \in C : a \o b \in C, NEW ss \in Seq(C)
  PROVE  FlattenSeq(ss) \in C
<1>1. CASE Len(ss) = 0
  <2>1. ss = <<>>
    BY <1>1
  <2> QED BY <1>1, <2>1 DEF FlattenSeq
<1>2. CASE Len(ss) # 0
  <2> DEFINE D(flatten) == [i \in 1 .. Len(ss) |-> IF i = 1 THEN ss[i] ELSE flatten[i - 1] \o ss[i]]
             f == CHOOSE flatten : flatten = D(flatten)
  <2>1. PICK g \in [1 .. Len(ss) -> C] : Flattens(ss, g, Len(ss))
    BY FlattensExists
  <2>2. Len(ss) \in Nat /\ \A i \in 1 .. Len(ss) : ss[i] \in C
    OBVIOUS
  <2>3. g = D(g)
    <3>1. \A i \in 1 .. Len(ss) : g[i] = D(g)[i]
      BY <2>1 DEF Flattens
    <3> QED BY <3>1
  <2>4. f = D(f)
    <3> HIDE DEF D
    <3> QED BY <2>3
  <2>5. \A i \in 1 .. Len(ss) : f[i] = IF i = 1 THEN ss[i] ELSE f[i - 1] \o ss[i]
    <3>1. ASSUME NEW i \in 1 .. Len(ss) PROVE f[i] = IF i = 1 THEN ss[i] ELSE f[i - 1] \o ss[i]
      <4>1. f[i] = D(f)[i]
        BY Zenon, <2>4
      <4> HIDE DEF f
      <4> QED BY <4>1
    <3> QED BY <3>1
  <2>6. FlattenSeq(ss) = f[Len(ss)]
    BY <1>2 DEF FlattenSeq
  <2> HIDE DEF f, D
  <2> DEFINE N == {n \in Nat : n + 1 <= Len(ss) => f[n + 1] \in C}
  <2>7. 0 \in N
    BY <2>2, <2>5
  <2>8. ASSUME NEW n \in Nat, n \in N PROVE n + 1 \in N
    <3> SUFFICES ASSUME n + 2 <= Len(ss) PROVE f[n + 2] \in C
      <4>1. n + 1 + 1 = n + 2
        OBVIOUS
      <4> QED BY <4>1
    <3>1. n + 2 \in 1 .. Len(ss) /\ n + 2 # 1 /\ n + 2 - 1 = n + 1 /\ n + 1 <= Len(ss)
      BY <2>2
    <3> DEFINE k == n + 2
    <3>2. k \in 1 .. Len(ss) /\ k # 1 /\ k - 1 = n + 1
      BY <3>1
    <3> HIDE DEF k
    <3>3. f[k] = f[k - 1] \o ss[k]
      BY <2>5, <3>2
    <3>4. f[n + 1] \in C /\ ss[k] \in C
      BY <2>2, <2>8, <3>1, <3>2
    <3>5. f[k] \in C
      BY <3>2, <3>3, <3>4
    <3> QED BY <3>5 DEF k
  <2> HIDE DEF N
  <2>9. Len(ss) - 1 \in N
    <3>1. Len(ss) - 1 \in Nat
      BY <1>2, <2>2
    <3> QED BY <2>7, <2>8, <3>1, SetInduction
  <2>10. Len(ss) - 1 + 1 = Len(ss)
    BY <2>2
  <2> QED BY <2>2, <2>6, <2>9, <2>10 DEF N
<1> QED BY <1>1, <1>2

-----------------------------------------------------------------------------
(* The calls of a batch                                                    *)

Whole == {s \in Seq(Calling) : Chained(s) /\ (s # <<>> => s[1].stage # "similar")}
Begun == {s \in Whole : s # <<>> => s[1].stage = "primary"}

LEMMA ChainConcat ==
  ASSUME NEW a \in Whole, NEW b \in Whole
  PROVE  a \o b \in Whole
<1> DEFINE c == a \o b
<1>1. /\ a \in Seq(Calling) /\ b \in Seq(Calling) /\ Chained(a) /\ Chained(b)
      /\ a # <<>> => a[1].stage # "similar"
      /\ b # <<>> => b[1].stage # "similar"
  BY DEF Whole
<1>2. Len(a) \in Nat /\ Len(b) \in Nat /\ (a # <<>> <=> Len(a) # 0) /\ (b # <<>> <=> Len(b) # 0)
  BY <1>1
<1>3. /\ c \in Seq(Calling) /\ Len(c) = Len(a) + Len(b)
      /\ \A i \in 1 .. Len(a) + Len(b) : c[i] = IF i <= Len(a) THEN a[i] ELSE b[i - Len(a)]
  BY <1>1, ConcatProperties
<1> HIDE DEF c
<1>4. \A i \in 1 .. Len(a) : c[i] = a[i]
  BY <1>2, <1>3
<1>5. \A i \in 1 .. Len(b) : c[i + Len(a)] = b[i]
  <2> TAKE i \in 1 .. Len(b)
  <2>1. i + Len(a) \in 1 .. Len(a) + Len(b) /\ ~ (i + Len(a) <= Len(a)) /\ i + Len(a) - Len(a) = i
    BY <1>2
  <2> QED BY <1>3, <2>1
<1>6. ASSUME NEW i \in 1 .. Len(c)
      PROVE  /\ c[i].stage = "exact" <=> (i + 1 \in 1 .. Len(c) /\ c[i + 1].stage = "similar")
             /\ c[i].stage = "exact" => c[i + 1].entity = c[i].entity
  <2>1. CASE i + 1 \in 1 .. Len(a)
    <3>1. i \in 1 .. Len(a) /\ i + 1 \in 1 .. Len(c)
      BY <1>2, <1>3, <2>1
    <3>2. c[i] = a[i] /\ c[i + 1] = a[i + 1]
      BY <1>4, <2>1, <3>1
    <3>3. /\ a[i].stage = "exact" <=> (i + 1 \in 1 .. Len(a) /\ a[i + 1].stage = "similar")
          /\ a[i].stage = "exact" => a[i + 1].entity = a[i].entity
      BY <1>1, <3>1 DEF Chained
    <3> QED BY <2>1, <3>1, <3>2, <3>3
  <2>2. CASE i = Len(a)
    <3>1. i \in 1 .. Len(a) /\ i + 1 \notin 1 .. Len(a)
      BY <1>2, <2>2
    <3>2. a[i].stage # "exact"
      BY <1>1, <3>1 DEF Chained
    <3>3. ASSUME i + 1 \in 1 .. Len(c) PROVE c[i + 1].stage # "similar"
      <4>1. 1 \in 1 .. Len(b) /\ 1 + Len(a) = i + 1
        BY <1>2, <1>3, <2>2, <3>3
      <4>2. c[i + 1] = b[1]
        BY <1>5, <4>1
      <4> QED BY <1>1, <1>2, <4>1, <4>2
    <3>4. c[i] = a[i]
      BY <1>4, <3>1
    <3> QED BY <3>2, <3>3, <3>4
  <2>3. CASE i > Len(a)
    <3> DEFINE k == i - Len(a)
    <3>1. k \in 1 .. Len(b) /\ k + Len(a) = i /\ k + 1 + Len(a) = i + 1
      BY <1>2, <1>3, <2>3
    <3>2. i + 1 \in 1 .. Len(c) <=> k + 1 \in 1 .. Len(b)
      BY <1>2, <1>3, <2>3
    <3> HIDE DEF k
    <3>3. c[i] = b[k]
      BY <1>5, <3>1
    <3>4. k + 1 \in 1 .. Len(b) => c[i + 1] = b[k + 1]
      <4> SUFFICES ASSUME k + 1 \in 1 .. Len(b) PROVE c[i + 1] = b[k + 1]
        OBVIOUS
      <4>1. c[k + 1 + Len(a)] = b[k + 1]
        BY <1>5
      <4> QED BY <3>1, <4>1
    <3>5. /\ b[k].stage = "exact" <=> (k + 1 \in 1 .. Len(b) /\ b[k + 1].stage = "similar")
          /\ b[k].stage = "exact" => b[k + 1].entity = b[k].entity
      BY <1>1, <3>1 DEF Chained
    <3> QED BY <3>2, <3>3, <3>4, <3>5
  <2> QED BY <1>2, <1>3, <2>1, <2>2, <2>3
<1>7. c # <<>> => c[1].stage # "similar"
  <2> SUFFICES ASSUME c # <<>> PROVE c[1].stage # "similar"
    OBVIOUS
  <2>1. Len(c) # 0
    BY <1>3
  <2>2. CASE Len(a) # 0
    <3>1. 1 \in 1 .. Len(a)
      BY <1>2, <2>2
    <3> QED BY <1>1, <1>2, <1>4, <2>2, <3>1
  <2>3. CASE Len(a) = 0
    <3>1. 1 \in 1 .. Len(b) /\ 1 + Len(a) = 1 /\ Len(b) # 0
      BY <1>2, <1>3, <2>1, <2>3
    <3>2. c[1] = b[1]
      BY <1>5, <3>1
    <3> QED BY <1>1, <1>2, <3>1, <3>2
  <2> QED BY <2>2, <2>3
<1>8. c \in Whole
  BY <1>3, <1>6, <1>7 DEF Chained, Whole
<1> QED BY <1>8 DEF c

LEMMA BegunConcat ==
  ASSUME NEW a \in Begun, NEW b \in Whole, a # <<>> \/ b \in Begun
  PROVE  a \o b \in Begun
<1>1. a \in Seq(Calling) /\ b \in Seq(Calling) /\ a \in Whole
  BY DEF Begun, Whole
<1>2. a \o b \in Whole
  BY <1>1, ChainConcat
<1>3. CASE a # <<>>
  <2>1. Len(a) \in Nat /\ Len(a) # 0 /\ Len(b) \in Nat
    BY <1>1, <1>3
  <2>2. 1 \in 1 .. Len(a) + Len(b) /\ 1 <= Len(a)
    BY <2>1
  <2>3. (a \o b)[1] = a[1]
    BY <1>1, <2>2, ConcatProperties
  <2> QED BY <1>2, <1>3, <2>3 DEF Begun
<1>4. CASE a = <<>>
  <2>1. a \o b = b
    BY <1>1, <1>4, ConcatEmptySeq
  <2> QED BY <1>4, <2>1
<1> QED BY <1>3, <1>4

LEMMA OneCall ==
  ASSUME NEW c \in Calling, c.stage \notin {"exact", "similar"}
  PROVE  <<c>> \in Whole /\ (c.stage = "primary" => <<c>> \in Begun)
<1> DEFINE s == <<c>>
<1>1. s \in Seq(Calling) /\ Len(s) = 1 /\ s[1] = c
  OBVIOUS
<1> HIDE DEF s
<1>2. \A i \in 1 .. Len(s) : i = 1 /\ ~ (i + 1 \in 1 .. Len(s))
  BY <1>1
<1>3. Chained(s)
  BY <1>1, <1>2 DEF Chained
<1>4. s \in Whole
  BY <1>1, <1>3 DEF Whole
<1>5. c.stage = "primary" => s \in Begun
  BY <1>1, <1>4 DEF Begun
<1> QED BY <1>4, <1>5 DEF s

LEMMA TwoCalls ==
  ASSUME NEW e \in MemoryEvent, NEW x \in Mention
  PROVE  <<Call("exact", e, x), Call("similar", e, x)>> \in Whole
<1> DEFINE s == <<Call("exact", e, x), Call("similar", e, x)>>
<1>1. Call("exact", e, x) \in Calling /\ Call("similar", e, x) \in Calling
  BY DEF Call, Calling
<1>2. /\ s \in Seq(Calling) /\ Len(s) = 2 /\ s[1].stage = "exact" /\ s[2].stage = "similar"
      /\ s[1].entity = x /\ s[2].entity = x
  BY <1>1 DEF Call
<1> HIDE DEF s
<1>3. \A i \in 1 .. Len(s) : (i = 1 /\ i + 1 = 2) \/ (i = 2 /\ ~ (i + 1 \in 1 .. Len(s)))
  BY <1>2
<1>4. 2 \in 1 .. Len(s)
  BY <1>2
<1>5. Chained(s)
  BY <1>2, <1>3, <1>4 DEF Chained
<1>6. s \in Whole
  BY <1>2, <1>5 DEF Whole
<1> QED BY <1>6 DEF s

LEMMA EmptyCalls == <<>> \in Whole /\ <<>> \in Begun
<1>1. <<>> \in Seq(Calling) /\ Len(<<>>) = 0
  OBVIOUS
<1>2. Chained(<<>>)
  BY <1>1 DEF Chained
<1> QED BY <1>1, <1>2 DEF Whole, Begun

\* Every event leads to typed calls, the first of which stages its own node.
LEMMA CallsForType ==
  ASSUME NEW e \in MemoryEvent
  PROVE  CallsFor(e) \in Begun
<1> DEFINE a == <<Call("primary", e, None)>>
           b == IF e.kind = "session_started" THEN <<>> ELSE <<Call("anchor", e, None)>>
           c == IF e.kind = "preference" THEN <<Call("supersede", e, None)>> ELSE <<>>
           d == IF e.kind = "page_visited" /\ e.domain # None THEN <<Call("domain", e, None)>> ELSE <<>>
           ss == [i \in DOMAIN e.entities |-> <<Call("exact", e, e.entities[i]),
                                               Call("similar", e, e.entities[i])>>]
           f == IF e.kind \in Texts THEN FlattenSeq(ss) ELSE <<>>
<1>1. a \in Begun /\ a # <<>>
  <2>1. Call("primary", e, None) \in Calling /\ Call("primary", e, None).stage = "primary"
    BY DEF Call, Calling
  <2> QED BY <2>1, OneCall
<1>2. b \in Whole
  <2>1. Call("anchor", e, None) \in Calling /\ Call("anchor", e, None).stage = "anchor"
    BY DEF Call, Calling
  <2>2. <<Call("anchor", e, None)>> \in Whole
    BY <2>1, OneCall
  <2> QED BY <2>2, EmptyCalls
<1>3. c \in Whole
  <2>1. CASE e.kind = "preference"
    <3>1. Call("supersede", e, None) \in Calling /\ Call("supersede", e, None).stage = "supersede"
      BY <2>1 DEF Call, Calling
    <3>2. <<Call("supersede", e, None)>> \in Whole
      BY <3>1, OneCall
    <3> QED BY <2>1, <3>2
  <2>2. CASE e.kind # "preference"
    BY <2>2, EmptyCalls
  <2> QED BY <2>1, <2>2
<1>4. d \in Whole
  <2>1. CASE e.domain # None
    <3>1. Call("domain", e, None) \in Calling /\ Call("domain", e, None).stage = "domain"
      BY <2>1 DEF Call, Calling
    <3>2. <<Call("domain", e, None)>> \in Whole
      BY <3>1, OneCall
    <3> QED BY <3>2, EmptyCalls
  <2> QED BY <2>1, EmptyCalls
<1>5. f \in Whole
  <2>1. e.entities \in Seq(Mention)
    BY DEF MemoryEvent
  <2>2. \A i \in 1 .. Len(e.entities) : e.entities[i] \in Mention
    BY <2>1
  <2>3. ss \in Seq(Whole)
    <3>1. DOMAIN e.entities = 1 .. Len(e.entities) /\ Len(e.entities) \in Nat
      BY <2>1
    <3>2. \A i \in 1 .. Len(e.entities) :
            <<Call("exact", e, e.entities[i]), Call("similar", e, e.entities[i])>> \in Whole
      BY <2>2, TwoCalls
    <3>3. ss \in [1 .. Len(e.entities) -> Whole]
      BY <3>1, <3>2
    <3> HIDE DEF ss
    <3> QED BY <3>1, <3>3, SeqDef
  <2> HIDE DEF ss
  <2>4. FlattenSeq(ss) \in Whole
    BY <2>3, EmptyCalls, ChainConcat, FlattenIn
  <2> QED BY <2>4, EmptyCalls
<1> HIDE DEF a, b, c, d, f
<1>6. \A y \in Begun, z \in Whole : y # <<>> => y \o z \in Begun /\ y \o z # <<>>
  <2> SUFFICES ASSUME NEW y \in Begun, NEW z \in Whole, y # <<>>
               PROVE  y \o z \in Begun /\ y \o z # <<>>
    OBVIOUS
  <2>1. y \in Seq(Calling) /\ z \in Seq(Calling)
    BY DEF Begun, Whole
  <2>2. y \o z # <<>>
    BY <2>1, ConcatEqualIffEmpty, ConcatProperties
  <2> QED BY <2>2, BegunConcat
<1>7. a \o b \in Begun /\ a \o b # <<>>
  BY <1>1, <1>2, <1>6
<1>8. (a \o b) \o c \in Begun /\ (a \o b) \o c # <<>>
  BY <1>3, <1>6, <1>7
<1>9. ((a \o b) \o c) \o d \in Begun /\ ((a \o b) \o c) \o d # <<>>
  BY <1>4, <1>6, <1>8
<1>10. (((a \o b) \o c) \o d) \o f \in Begun
  BY <1>5, <1>6, <1>9
<1>11. CallsFor(e) = (((a \o b) \o c) \o d) \o f
  BY Zenon DEF CallsFor, a, b, c, d, f, ss
<1> QED BY <1>10, <1>11

\* So does a batch.
LEMMA CallsType ==
  ASSUME NEW batch \in Batches
  PROVE  Calls(batch) \in Begun
<1>1. batch \in Seq(MemoryEvent)
  BY MemoryAssumption
<1>2. Len(batch) \in Nat /\ DOMAIN batch = 1 .. Len(batch) /\ \A i \in 1 .. Len(batch) : batch[i] \in MemoryEvent
  BY <1>1
<1> DEFINE ss == [i \in DOMAIN batch |-> CallsFor(batch[i])]
<1>3. \A i \in 1 .. Len(batch) : CallsFor(batch[i]) \in Begun
  BY <1>2, CallsForType
<1>4. ss \in Seq(Begun)
  <2>1. ss \in [1 .. Len(batch) -> Begun]
    BY <1>2, <1>3
  <2> HIDE DEF ss
  <2> QED BY <1>2, <2>1, SeqDef
<1>5. Calls(batch) = FlattenSeq(ss)
  BY DEF Calls
<1> HIDE DEF ss
<1>6. \A a, b \in Begun : a \o b \in Begun
  BY BegunConcat DEF Begun
<1> QED BY <1>4, <1>5, <1>6, EmptyCalls, FlattenIn

-----------------------------------------------------------------------------
(* What time does to calls that are under way                              *)

\* Calls that have begun stay so, and nodes are made and not unmade.
Forward ==
  /\ \A f \in Flows : pc[f] # "idle" => pc'[f] # "idle" /\ before'[f] = before[f]
  /\ DOMAIN makers \subseteq DOMAIN makers'
  /\ \A id \in DOMAIN makers : makers[id] \subseteq makers'[id]

LEMMA StoresStay ==
  ASSUME Ended \subseteq Ended', \A j \in Jobs : pc[j] = "busy" => pc'[j] \in {"busy", "done"}
  PROVE  Stores \subseteq Stores'
<1>1. \A f \in Flows : f \in Stores <=> f \in Ended \/ (f \in Jobs /\ pc[f] = "busy")
  BY DEF Stores, Underway
<1>2. \A f \in Flows : f \in Stores' <=> f \in Ended' \/ (f \in Jobs /\ pc'[f] = "busy")
  BY DEF Stores, Underway
<1>3. \A f \in Flows : pc'[f] = "done" => f \in Ended'
  BY DEF Ended
<1>4. Stores \subseteq Flows
  BY DEF Stores, Ended, Underway
<1> QED BY <1>1, <1>2, <1>3, <1>4

LEMMA StoresMean ==
  ASSUME NEW f \in Stores
  PROVE  /\ f \in Flows /\ pc[f] \in {"busy", "done"}
         /\ f \in Writers => pc[f] = "done"
BY MemoryAssumption DEF Stores, Ended, Underway, Flows

LEMMA OverlapStays ==
  ASSUME Forward, NEW f \in Flows, NEW g \in Flows, Overlap(f, g)
  PROVE  Overlap(f, g)'
BY DEF Forward, Overlap

LEMMA RobbedStays ==
  ASSUME Forward, NEW w \in Flows, Robbed(w)
  PROVE  Robbed(w)'
<1>1. PICK x \in Forgets \cup Jobs : Overlap(w, x)
  BY DEF Robbed
<1>2. x \in Flows
  BY DEF Flows
<1>3. Overlap(w, x)'
  BY <1>1, <1>2, OverlapStays
<1> QED BY <1>3 DEF Robbed

LEMMA RivalsStay ==
  ASSUME Forward, NEW f \in Flows, NEW g \in Flows, Rivals(f, g)
  PROVE  Rivals(f, g)'
<1>1. CASE Overlap(f, g)
  BY <1>1, OverlapStays DEF Rivals
<1>2. CASE f = g /\ Robbed(f)
  <2>1. Robbed(f)'
    BY <1>2, RobbedStays
  <2> QED BY <1>2, <2>1 DEF Rivals, Robbed
<1> QED BY <1>1, <1>2 DEF Rivals, Robbed

LEMMA MakersStay ==
  ASSUME Forward, NEW id
  PROVE  MakersOf(id) \subseteq MakersOf(id)'
BY DEF Forward, MakersOf

LEMMA MakersType ==
  ASSUME TypeOK, NEW id
  PROVE  MakersOf(id) \subseteq Flows
BY DEF TypeOK, MakersOf

LEMMA ApartStays ==
  ASSUME TypeOK, Forward, NEW n, NEW m, Apart(n, m)
  PROVE  Apart(n, m)'
<1>1. PICK f \in MakersOf(n.id), g \in MakersOf(m.id) : Rivals(f, g)
  BY DEF Apart
<1>2. f \in Flows /\ g \in Flows
  BY MakersType
<1>3. Rivals(f, g)'
  BY <1>1, <1>2, RivalsStay
<1>4. f \in MakersOf(n.id)' /\ g \in MakersOf(m.id)'
  BY MakersStay
<1> QED BY <1>3, <1>4 DEF Apart

LEMMA LateStays ==
  ASSUME Forward, NEW w \in Flows, pc[w] # "idle", NEW n, Late(w, n)
  PROVE  Late(w, n)'
<1>1. PICK u \in MakersOf(n.id) : u \notin before[w]
  BY DEF Late
<1>2. u \in MakersOf(n.id)' /\ u \notin before'[w]
  BY <1>1, MakersStay DEF Forward
<1> QED BY <1>2 DEF Late

\* Who is looked at by their ids alone.
LEMMA SameIds ==
  ASSUME NEW n, NEW m, n.id = m.id, NEW c, NEW w
  PROVE  (Apart(n, c) => Apart(m, c)) /\ (Late(w, n) => Late(w, m))
BY DEF Apart, Late

\* What a flow sees of a step of another.
Sees(v) ==
  /\ \A n \in Members(nodes') :
       \/ \E m \in Members(nodes) : m.id = n.id /\ Alike(n, m)
       \/ n.id \in DOMAIN makers' /\ \E u \in makers'[n.id] : u # v /\ u \notin before[v]
  /\ Ids(nodes) \subseteq Ids(nodes') \/ Robbed(v)'
  /\ \A id \in Ids(nodes) \ Ids(nodes') : id \in DOMAIN gone' /\ v \in gone'[id]
  /\ \A id \in DOMAIN gone : id \in DOMAIN gone' /\ (v \in gone[id] => v \in gone'[id])

Outside(v) ==
  /\ write'[v] = write[v] /\ pc'[v] = pc[v]
  /\ pc[v] = "busy" => Sees(v)

\* A node is a copy of one that was known, or new.
Traced == \A n \in Known' : (\E m \in Known : m.id = n.id /\ Alike(n, m)) \/ n.id \notin DOMAIN makers

\* What a step leaves to everybody.
Kept ==
  /\ IInv' /\ Forward /\ Traced
  /\ \A id \in DOMAIN makers' \ DOMAIN makers : id[1] \in Writers
  /\ \A j \in Jobs : pc[j] = "busy" => Sees(j)

\* A step that leaves the nodes alone.
LEMMA AloneSees ==
  ASSUME NEW v, UNCHANGED <<nodes, gone>>
  PROVE  Sees(v)
<1>1. nodes' = nodes /\ gone' = gone
  OBVIOUS
<1>2. \A n \in Members(nodes) : Alike(n, n)
  BY DEF Alike
<1> QED BY <1>1, <1>2 DEF Sees

LEMMA QuietWrite ==
  ASSUME NEW v \in Writers, write[v] = NoWrite
  PROVE  WriteOK(v) /\ KeysOK(v)
<1>1. /\ write[v].todo = <<>> /\ write[v].staged = <<>> /\ write[v].links = {} /\ write[v].primary = None
      /\ Keeps(write[v]) /\ write[v].minted = 0
  BY DEF NoWrite, Keeps
<1>2. Members(write[v].staged) = {}
  BY <1>1 DEF Members
<1>3. <<>> \in Seq(Calling) /\ Chained(<<>>)
  BY EmptyCalls DEF Whole
<1> QED BY <1>1, <1>2, <1>3 DEF WriteOK, KeysOK, Heads

LEMMA QuietWriteNext ==
  ASSUME NEW v \in Writers, write'[v] = NoWrite
  PROVE  WriteOK(v)' /\ KeysOK(v)'
<1>1. /\ write'[v].todo = <<>> /\ write'[v].staged = <<>> /\ write'[v].links = {} /\ write'[v].primary = None
      /\ Keeps(write'[v]) /\ write'[v].minted = 0
  BY DEF NoWrite, Keeps
<1>2. Members(write'[v].staged) = {}
  BY <1>1 DEF Members
<1>3. <<>> \in Seq(Calling) /\ Chained(<<>>)
  BY EmptyCalls DEF Whole
<1> QED BY <1>1, <1>2, <1>3 DEF WriteOK, KeysOK, Heads, Keeps

LEMMA OutsideWrite ==
  ASSUME Forward, NEW v \in Writers, WriteOK(v), Outside(v)
  PROVE  WriteOK(v)'
<1>1. CASE pc[v] # "busy"
  <2>1. write'[v] = NoWrite
    BY <1>1 DEF Outside, WriteOK
  <2> QED BY <2>1, QuietWriteNext
<1>2. CASE pc[v] = "busy"
  <2>1. v \in Flows
    BY DEF Flows
  <2>2. Robbed(v) => Robbed(v)'
    BY <2>1, RobbedStays
  <2>3. write'[v] = write[v] /\ pc'[v] = "busy"
    BY <1>2 DEF Outside
  <2>4. Keeps(write'[v])
    BY <2>3 DEF WriteOK
  <2>5. ASSUME NEW n \in Members(write[v].staged), n.id[1] # v
        PROVE  n.id \in DOMAIN makers' /\ (n.id \in Ids(nodes') \/ Robbed(v)') /\ n.type # "Action"
    <3>1. n.id \in DOMAIN makers /\ (n.id \in Ids(nodes) \/ Robbed(v)) /\ n.type # "Action"
      BY <2>5 DEF WriteOK
    <3> QED BY <1>2, <2>2, <3>1 DEF Outside, Sees, Forward
  <2>6. ASSUME NEW e \in write[v].links, NEW id \in {e.from, e.to}
        PROVE  id \in Ids(write[v].staged) \cup Ids(nodes') \/ (id \in DOMAIN gone' /\ v \in gone'[id])
    <3>1. id \in Ids(write[v].staged) \cup Ids(nodes) \/ (id \in DOMAIN gone /\ v \in gone[id])
      BY <2>6 DEF WriteOK
    <3> QED BY <1>2, <3>1 DEF Outside, Sees
  <2>7. /\ write'[v].todo \in Seq(Calling) /\ Chained(write'[v].todo)
        /\ write'[v].primary \in Id \cup {None}
        /\ write'[v].todo # <<>> /\ Head(write'[v].todo).stage # "primary"
             => write'[v].primary \in Ids(write'[v].staged)
    BY <2>3 DEF WriteOK, Heads
  <2>8. \A n \in Members(write'[v].staged) :
          n.id[1] = v => n.id[2] <= write'[v].minted /\ (n.key # None => n.key \in DOMAIN write'[v].keys)
    BY <2>3 DEF WriteOK
  <2>9. \A e \in write'[v].links : e.by = v /\ e.type # "DERIVED_FROM"
    BY <2>3 DEF WriteOK
  <2> QED BY <2>3, <2>4, <2>5, <2>6, <2>7, <2>8, <2>9 DEF WriteOK, Heads, Keeps
<1> QED BY <1>1, <1>2

LEMMA OutsideKeys ==
  ASSUME TypeOK, Forward, NEW v \in Writers, WriteOK(v), KeysOK(v), Outside(v)
  PROVE  KeysOK(v)'
<1>1. CASE pc[v] # "busy"
  <2>1. write'[v] = NoWrite
    BY <1>1 DEF Outside, WriteOK
  <2> QED BY <2>1, QuietWriteNext
<1>2. CASE pc[v] = "busy"
  <2>1. v \in Flows
    BY DEF Flows
  <2>2. write'[v] = write[v] /\ (Robbed(v) => Robbed(v)')
    BY <2>1, RobbedStays DEF Outside
  <2>3. \A n : Late(v, n) => Late(v, n)'
    BY <1>2, <2>1, LateStays
  <2>4. before'[v] = before[v]
    BY <1>2, <2>1 DEF Forward
  <2>5. ASSUME NEW n \in Members(nodes'),
               n.id \in DOMAIN makers' /\ \E u \in makers'[n.id] : u \notin before[v]
        PROVE  Late(v, n)'
    BY <2>4, <2>5 DEF Late, MakersOf
  <2>6. ASSUME NEW n \in Members(nodes'), NEW m \in Members(nodes), m.id = n.id,
               Late(v, m)
        PROVE  Late(v, n)'
    <3>1. Late(v, n)
      BY <2>6, SameIds
    <3> QED BY <2>3, <3>1
  <2>7. ASSUME NEW n \in Members(nodes'), NEW c \in Members(write[v].staged), Clash(n, c)
        PROVE  Apart(n, c)' \/ Late(v, n)'
    <3>1. CASE \E m \in Members(nodes) : m.id = n.id /\ Alike(n, m)
      <4>1. PICK m \in Members(nodes) : m.id = n.id /\ Alike(n, m)
        BY <3>1
      <4>2. Clash(m, c)
        BY <2>7, <4>1 DEF Clash, Alike
      <4>3. Apart(m, c) \/ Late(v, m)
        BY <4>2 DEF KeysOK
      <4>4. Apart(m, c) => Apart(n, c)
        BY <4>1, SameIds
      <4>5. Apart(n, c) => Apart(n, c)'
        BY ApartStays
      <4> QED BY <2>6, <4>1, <4>3, <4>4, <4>5
    <3> QED BY <1>2, <2>5, <3>1 DEF Outside, Sees
  <2>8. ASSUME NEW c \in Members(write[v].staged), NEW d \in Members(write[v].staged), Clash(c, d)
        PROVE  Apart(c, d)' \/ Late(v, c)' \/ Late(v, d)' \/ Robbed(v)'
    <3>1. Apart(c, d) \/ Late(v, c) \/ Late(v, d) \/ Robbed(v)
      BY <2>8 DEF KeysOK
    <3>2. Apart(c, d) => Apart(c, d)'
      BY ApartStays
    <3> QED BY <2>2, <2>3, <3>1, <3>2
  <2>9. ASSUME Heads(v, "similar")
        PROVE  LET key == EntityKey(Head(write[v].todo).entity)
               IN  /\ \A n \in Members(nodes') : n.key = key => Late(v, n)'
                   /\ \A c \in Members(write[v].staged) : c.key = key => Robbed(v)'
    <3> DEFINE key == EntityKey(Head(write[v].todo).entity)
    <3>1. /\ \A n \in Members(nodes) : n.key = key => Late(v, n)
          /\ \A c \in Members(write[v].staged) : c.key = key => Robbed(v)
      BY <2>9 DEF KeysOK
    <3> HIDE DEF key
    <3>2. ASSUME NEW n \in Members(nodes'), n.key = key PROVE Late(v, n)'
      <4>1. CASE \E m \in Members(nodes) : m.id = n.id /\ Alike(n, m)
        <5>1. PICK m \in Members(nodes) : m.id = n.id /\ Alike(n, m)
          BY <4>1
        <5>2. m.key = key
          BY <3>2, <5>1 DEF Alike
        <5> QED BY <2>6, <3>1, <5>1, <5>2
      <4> QED BY <1>2, <2>5, <4>1 DEF Outside, Sees
    <3>3. \A c \in Members(write[v].staged) : c.key = key => Robbed(v)'
      BY <2>2, <3>1
    <3> QED BY <3>2, <3>3 DEF key
  <2> QED BY <2>2, <2>7, <2>8, <2>9 DEF KeysOK, Heads
<1> QED BY <1>1, <1>2

\* One node per key, of what is stored.
LEMMA KeyMembers ==
  ASSUME TypeOK, OneNodePerKey, NEW n \in Members(nodes), NEW m \in Members(nodes), Clash(n, m)
  PROVE  Apart(n, m)
<1>1. PICK i \in DOMAIN nodes, j \in DOMAIN nodes : nodes[i] = n /\ nodes[j] = m
  BY DEF Members
<1>2. i # j /\ n.id \in DOMAIN makers /\ m.id \in DOMAIN makers
  BY <1>1 DEF Clash, TypeOK, Ids
<1>3. PICK f \in makers[n.id], g \in makers[m.id] : Rivals(f, g)
  BY <1>1, <1>2 DEF Clash, OneNodePerKey
<1> QED BY <1>2, <1>3 DEF Apart, MakersOf

LEMMA KeyMembersNext ==
  ASSUME TypeOK', \A n, m \in Members(nodes') : Clash(n, m) => Apart(n, m)'
  PROVE  OneNodePerKey'
<1> SUFFICES ASSUME NEW i \in DOMAIN nodes', NEW j \in DOMAIN nodes', i # j,
                    nodes'[i].key # None, nodes'[i].key = nodes'[j].key, nodes'[i].type # "Preference"
             PROVE  \E f \in makers'[nodes'[i].id], g \in makers'[nodes'[j].id] : Rivals(f, g)'
  BY DEF OneNodePerKey
<1>1. PICK n \in Members(nodes'), m \in Members(nodes') : n = nodes'[i] /\ m = nodes'[j]
  BY DEF Members
<1>2. Clash(n, m)
  BY <1>1 DEF Clash, TypeOK, NodesOK, Distinct
<1>3. Apart(n, m)'
  BY <1>2
<1>4. n.id \in DOMAIN makers' /\ m.id \in DOMAIN makers'
  BY <1>1 DEF TypeOK, Ids
<1>5. \E f \in makers'[n.id], g \in makers'[m.id] : Rivals(f, g)'
  BY <1>3, <1>4 DEF Apart, MakersOf
<1> QED BY <1>1, <1>5

-----------------------------------------------------------------------------
(* A call of a write returns                                               *)

\* Where a node that is staged comes from: it was staged, it is stored, or it is new.
Source(w, keys, n) ==
  \/ n \in Members(write[w].staged)
  \/ n.type # "Action" /\ \E m \in Members(nodes) : m.id = n.id /\ Alike(n, m)
  \/ /\ n.id = <<w, write[w].minted + 1>>
     /\ Tagged(n) /\ (n.key # None => n.key \in DOMAIN keys)
     /\ n.key # None /\ n.type # "Preference" =>
          /\ \A m \in Members(nodes) : m.key = n.key => Late(w, m)
          /\ \A c \in Members(write[w].staged) : c.key = n.key => Robbed(w)

\* What a write has become when one of its calls has returned.
Extends(w, q) ==
  /\ Keeps(q) /\ q.todo \in Seq(Calling) /\ Chained(q.todo)
  /\ NodesOK(q.staged) /\ q.links \subseteq Edge /\ q.minted \in Nat /\ q.minted >= write[w].minted
  /\ \A k \in DOMAIN q.keys : k \in Key /\ q.keys[k] \in Ids(q.staged)
  /\ \A t \in DOMAIN q.last : t \in NodeTypes /\ q.last[t] \in Ids(q.staged)
  /\ q.primary \in Id \cup {None}
  /\ DOMAIN write[w].keys \subseteq DOMAIN q.keys
  /\ q.todo # <<>> /\ Head(q.todo).stage # "primary" => q.primary \in Ids(q.staged)
  /\ Ids(write[w].staged) \subseteq Ids(q.staged)
  /\ \A n \in Members(q.staged) :
       Source(w, q.keys, n) /\ (n.id = <<w, write[w].minted + 1>> => q.minted = write[w].minted + 1)
  /\ \A e \in q.links :
       \/ e \in write[w].links
       \/ /\ e.by = w /\ e.type # "DERIVED_FROM"
          /\ e.from \in Ids(q.staged) \cup Ids(nodes) /\ e.to \in Ids(q.staged) \cup Ids(nodes)
  /\ q.todo # <<>> /\ Head(q.todo).stage = "similar" =>
       /\ \A n \in Members(nodes) : n.key = EntityKey(Head(q.todo).entity) => Late(w, n)
       /\ \A c \in Members(q.staged) : c.key = EntityKey(Head(q.todo).entity) => Robbed(w)

Becomes(w, q) ==
  /\ write' = [write EXCEPT ![w] = q]
  /\ UNCHANGED <<store, paused, pc, forget, before, forgot>>

LEMMA BecomesOutside ==
  ASSUME TypeOK, NEW w \in Writers, NEW q, Becomes(w, q)
  PROVE  /\ Forward /\ write'[w] = q /\ DOMAIN write' = Writers
         /\ \A v \in Writers \ {w} : write'[v] = write[v] /\ Outside(v)
<1>1. /\ nodes' = nodes /\ edges' = edges /\ origin' = origin /\ makers' = makers /\ gone' = gone
      /\ pc' = pc /\ before' = before /\ write' = [write EXCEPT ![w] = q] /\ DOMAIN write = Writers
  BY DEF Becomes, TypeOK, store
<1>2. write'[w] = q /\ DOMAIN write' = Writers /\ \A v \in Writers \ {w} : write'[v] = write[v]
  BY <1>1
<1>3. Forward
  BY <1>1 DEF Forward
<1>4. ASSUME NEW v \in Writers \ {w} PROVE Outside(v)
  BY <1>1, <1>2, AloneSees DEF Outside
<1> QED BY <1>2, <1>3, <1>4

LEMMA BecomesWrite ==
  ASSUME TypeOK, NEW w \in Writers, pc[w] = "busy", WriteOK(w), HistoryOK,
         NEW q, Becomes(w, q), Extends(w, q)
  PROVE  WriteOK(w)'
<1>1. /\ nodes' = nodes /\ makers' = makers /\ gone' = gone /\ pc' = pc /\ before' = before /\ write'[w] = q
      /\ Forward
  BY BecomesOutside DEF Becomes, store
<1>2. w \in Flows
  BY DEF Flows
<1>3. Robbed(w) => Robbed(w)'
  BY <1>1, <1>2, RobbedStays
<1>4. /\ Keeps(q) /\ q.todo \in Seq(Calling) /\ Chained(q.todo) /\ q.primary \in Id \cup {None}
      /\ q.todo # <<>> /\ Head(q.todo).stage # "primary" => q.primary \in Ids(q.staged)
  BY DEF Extends
<1>5. Keeps(write'[w])
  BY <1>1, <1>4
<1>6. ASSUME NEW n \in Members(q.staged)
      PROVE  /\ n.id[1] = w => n.id[2] <= q.minted /\ (n.key # None => n.key \in DOMAIN q.keys)
             /\ n.id[1] # w =>
                  n.id \in DOMAIN makers /\ (n.id \in Ids(nodes) \/ Robbed(w)') /\ n.type # "Action"
  <2>1. Source(w, q.keys, n) /\ (n.id = <<w, write[w].minted + 1>> => q.minted = write[w].minted + 1)
    BY DEF Extends
  <2>2. q.minted \in Nat /\ write[w].minted \in Nat /\ q.minted >= write[w].minted
        /\ DOMAIN write[w].keys \subseteq DOMAIN q.keys
    BY DEF Extends, TypeOK
  <2>3. CASE n \in Members(write[w].staged)
    <3>1. /\ n.id[1] = w => n.id[2] <= write[w].minted /\ (n.key # None => n.key \in DOMAIN write[w].keys)
          /\ n.id[1] # w =>
               n.id \in DOMAIN makers /\ (n.id \in Ids(nodes) \/ Robbed(w)) /\ n.type # "Action"
      BY <2>3 DEF WriteOK
    <3>2. n.id[2] \in Nat
      <4>1. n \in Node
        BY <2>3, MembersMean DEF TypeOK, NodesOK
      <4> QED BY <4>1 DEF Node, Id
    <3> QED BY <1>3, <2>2, <3>1, <3>2
  <2>4. CASE n.type # "Action" /\ \E m \in Members(nodes) : m.id = n.id /\ Alike(n, m)
    <3>1. n.id \in Ids(nodes)
      BY <2>4 DEF Members, Ids
    <3>2. n.id \in DOMAIN makers
      BY <3>1 DEF TypeOK
    <3>3. n.id[1] # w
      BY <3>2, StoresMean DEF HistoryOK
    <3> QED BY <2>4, <3>1, <3>2, <3>3
  <2>5. CASE n.id = <<w, write[w].minted + 1>> /\ (n.key # None => n.key \in DOMAIN q.keys)
    BY <2>1, <2>2, <2>5
  <2> QED BY <2>1, <2>3, <2>4, <2>5 DEF Source
<1>7. ASSUME NEW e \in q.links
      PROVE  /\ e.by = w /\ e.type # "DERIVED_FROM"
             /\ \A id \in {e.from, e.to} :
                  id \in Ids(q.staged) \cup Ids(nodes) \/ (id \in DOMAIN gone /\ w \in gone[id])
  <2>1. Ids(write[w].staged) \subseteq Ids(q.staged)
    BY DEF Extends
  <2>2. CASE e \in write[w].links
    <3>1. /\ e.by = w /\ e.type # "DERIVED_FROM"
          /\ \A id \in {e.from, e.to} :
               id \in Ids(write[w].staged) \cup Ids(nodes) \/ (id \in DOMAIN gone /\ w \in gone[id])
      BY <2>2 DEF WriteOK
    <3> QED BY <2>1, <3>1
  <2>3. CASE /\ e.by = w /\ e.type # "DERIVED_FROM"
             /\ e.from \in Ids(q.staged) \cup Ids(nodes) /\ e.to \in Ids(q.staged) \cup Ids(nodes)
    BY <2>3
  <2> QED BY <2>2, <2>3 DEF Extends
<1> HIDE DEF Keeps
<1> QED BY <1>1, <1>4, <1>5, <1>6, <1>7 DEF WriteOK, Heads

LEMMA ClashBoth ==
  ASSUME NEW n, NEW m, Tagged(n), Tagged(m), Clash(n, m)
  PROVE  Clash(m, n)
BY DEF Tagged, Clash

LEMMA ApartBoth ==
  ASSUME NEW n, NEW m, Apart(n, m)
  PROVE  Apart(m, n)
<1>1. PICK f \in MakersOf(n.id), g \in MakersOf(m.id) : Rivals(f, g)
  BY DEF Apart
<1>2. Rivals(g, f)
  BY <1>1 DEF Rivals, Overlap
<1> QED BY <1>2 DEF Apart

LEMMA ApartBothNext ==
  ASSUME NEW n, NEW m, Apart(n, m)'
  PROVE  Apart(m, n)'
BY DEF Apart, Rivals, Overlap

LEMMA SourceTagged ==
  ASSUME CopiesOK, NEW w \in Writers, NEW keys, NEW n, Source(w, keys, n)
  PROVE  Tagged(n)
<1>1. \A m \in Members(nodes) : Tagged(m)
  BY DEF CopiesOK, Known
<1>2. \A m \in Members(write[w].staged) : Tagged(m)
  BY DEF CopiesOK, Known
<1> QED BY <1>1, <1>2 DEF Source, Alike, Tagged

LEMMA BecomesKeys ==
  ASSUME TypeOK, CopiesOK, OneNodePerKey,
         NEW w \in Writers, pc[w] = "busy", WriteOK(w), KeysOK(w),
         NEW q, Becomes(w, q), Extends(w, q)
  PROVE  KeysOK(w)'
<1>1. /\ nodes' = nodes /\ pc' = pc /\ before' = before /\ write'[w] = q /\ Forward
  BY BecomesOutside DEF Becomes, store
<1>2. w \in Flows
  BY DEF Flows
<1>3. Robbed(w) => Robbed(w)'
  BY <1>1, <1>2, RobbedStays
<1>4. \A n : Late(w, n) => Late(w, n)'
  BY <1>1, <1>2, LateStays
<1>5. \A n, m : Apart(n, m) => Apart(n, m)'
  BY <1>1, ApartStays
<1>6. \A n \in Members(q.staged) : Source(w, q.keys, n) /\ Tagged(n)
  BY SourceTagged DEF Extends
<1>7. \A m \in Members(nodes) : Tagged(m)
  BY DEF CopiesOK, Known
<1> DEFINE Old(n) == n \in Members(write[w].staged)
           Copied(n) == \E m \in Members(nodes) : m.id = n.id /\ Alike(n, m)
           New(n) ==
             /\ n.id = <<w, write[w].minted + 1>>
             /\ n.key # None /\ n.type # "Preference" =>
                  /\ \A m \in Members(nodes) : m.key = n.key => Late(w, m)
                  /\ \A c \in Members(write[w].staged) : c.key = n.key => Robbed(w)
<1>8. \A n \in Members(q.staged) : Old(n) \/ Copied(n) \/ New(n)
  BY <1>6 DEF Source
<1>9. ASSUME NEW n \in Members(nodes), NEW c \in Members(q.staged), Clash(n, c)
      PROVE  Apart(n, c) \/ Late(w, n)
  <2>1. Clash(c, n)
    BY <1>6, <1>7, <1>9, ClashBoth
  <2>2. CASE Old(c)
    BY <1>9, <2>2 DEF KeysOK
  <2>3. CASE Copied(c)
    <3>1. PICK m \in Members(nodes) : m.id = c.id /\ Alike(c, m)
      BY <2>3
    <3>2. Clash(n, m)
      BY <1>9, <3>1 DEF Clash, Alike
    <3>3. Apart(n, m)
      BY <3>2, KeyMembers
    <3> QED BY <3>1, <3>3 DEF Apart
  <2>4. CASE New(c)
    BY <2>1, <2>4 DEF Clash
  <2> QED BY <1>8, <2>2, <2>3, <2>4
<1>10. ASSUME NEW c \in Members(q.staged), NEW d \in Members(q.staged), Clash(c, d)
       PROVE  Apart(c, d) \/ Late(w, c) \/ Late(w, d) \/ Robbed(w)
  <2>1. Clash(d, c)
    BY <1>6, <1>10, ClashBoth
  <2>2. CASE Copied(c)
    <3>1. PICK m \in Members(nodes) : m.id = c.id /\ Alike(c, m)
      BY <2>2
    <3>2. Clash(m, d)
      BY <1>10, <3>1 DEF Clash, Alike
    <3>3. Apart(m, d) \/ Late(w, m)
      BY <1>9, <3>2
    <3> QED BY <3>1, <3>3, SameIds
  <2>3. CASE Copied(d)
    <3>1. PICK m \in Members(nodes) : m.id = d.id /\ Alike(d, m)
      BY <2>3
    <3>2. Clash(m, c)
      BY <2>1, <3>1 DEF Clash, Alike
    <3>3. Apart(m, c) \/ Late(w, m)
      BY <1>9, <3>2
    <3>4. Apart(d, c) \/ Late(w, d)
      BY <3>1, <3>3, SameIds
    <3> QED BY <3>4, ApartBoth
  <2>4. CASE Old(c) /\ Old(d)
    BY <1>10, <2>4 DEF KeysOK
  <2>5. CASE Old(c) /\ New(d)
    BY <2>1, <2>5 DEF Clash
  <2>6. CASE New(c) /\ Old(d)
    BY <1>10, <2>6 DEF Clash
  <2>7. CASE New(c) /\ New(d)
    BY <1>10, <2>7 DEF Clash
  <2> QED BY <1>8, <2>2, <2>3, <2>4, <2>5, <2>6, <2>7
<1>11. Heads(w, "similar")' =>
         /\ \A n \in Members(nodes) : n.key = EntityKey(Head(q.todo).entity) => Late(w, n)
         /\ \A c \in Members(q.staged) : c.key = EntityKey(Head(q.todo).entity) => Robbed(w)
  BY <1>1 DEF Extends, Heads
<1> QED BY <1>1, <1>3, <1>4, <1>5, <1>9, <1>10, <1>11 DEF KeysOK

LEMMA BecomesType ==
  ASSUME TypeOK, NEW w \in Writers, NEW q, Becomes(w, q), Extends(w, q)
  PROVE  TypeOK'
<1>1. /\ write'[w] = q /\ DOMAIN write' = Writers /\ \A v \in Writers \ {w} : write'[v] = write[v]
      /\ UNCHANGED <<nodes, edges, origin, makers, gone, paused, pc, forget, before, forgot>>
  BY BecomesOutside DEF Becomes, store
<1>2. ASSUME NEW v \in Writers
      PROVE  /\ NodesOK(write'[v].staged) /\ write'[v].links \subseteq Edge /\ write'[v].minted \in Nat
             /\ \A k \in DOMAIN write'[v].keys : k \in Key /\ write'[v].keys[k] \in Ids(write'[v].staged)
             /\ \A t \in DOMAIN write'[v].last :
                  t \in NodeTypes /\ write'[v].last[t] \in Ids(write'[v].staged)
  <2>1. CASE v = w
    BY <1>1, <2>1 DEF Extends
  <2>2. CASE v # w
    BY <1>1, <2>2 DEF TypeOK
  <2> QED BY <2>1, <2>2
<1> QED BY <1>1, <1>2 DEF TypeOK, NodesOK, Ids, Distinct

\* A node that is new has an id that no other node has.
LEMMA FreshId ==
  ASSUME TypeOK, HistoryOK, NEW w \in Writers, pc[w] = "busy",
         \A v \in Writers : WriteOK(v), NEW m \in Known
  PROVE  m.id # <<w, write[w].minted + 1>>
<1> SUFFICES ASSUME m.id = <<w, write[w].minted + 1>> PROVE FALSE
  OBVIOUS
<1>1. m.id[1] = w /\ m.id[2] = write[w].minted + 1 /\ write[w].minted \in Nat
  BY DEF TypeOK
<1>2. m.id \notin DOMAIN makers
  BY <1>1, StoresMean DEF HistoryOK
<1>3. CASE m \in Members(nodes)
  <2>1. m.id \in Ids(nodes)
    BY <1>3 DEF Members, Ids
  <2> QED BY <1>2, <2>1 DEF TypeOK
<1>4. ASSUME NEW v \in Writers, m \in Members(write[v].staged) PROVE FALSE
  <2>1. CASE v = w
    <3>1. m.id[2] <= write[w].minted
      BY <1>1, <1>4, <2>1 DEF WriteOK
    <3> QED BY <1>1, <3>1
  <2>2. CASE v # w
    BY <1>1, <1>2, <1>4, <2>2 DEF WriteOK
  <2> QED BY <2>1, <2>2
<1> QED BY <1>3, <1>4 DEF Known

LEMMA BecomesCopies ==
  ASSUME TypeOK, HistoryOK, CopiesOK, NEW w \in Writers, pc[w] = "busy",
         \A v \in Writers : WriteOK(v), NEW q, Becomes(w, q), Extends(w, q)
  PROVE  CopiesOK' /\ Traced
<1>1. nodes' = nodes /\ write'[w] = q /\ \A v \in Writers \ {w} : write'[v] = write[v]
  BY BecomesOutside DEF Becomes, store
<1> DEFINE Copied(n) == \E m \in Known : m.id = n.id /\ Alike(n, m)
           New(n) == n.id = <<w, write[w].minted + 1>> /\ n \in Members(q.staged)
<1>2. ASSUME NEW n \in Known' PROVE Tagged(n) /\ (Copied(n) \/ New(n))
  <2>1. CASE n \in Known
    BY <2>1 DEF CopiesOK, Alike
  <2>2. CASE n \in Members(q.staged)
    <3>1. Source(w, q.keys, n)
      BY <2>2 DEF Extends
    <3>2. Copied(n) \/ New(n)
      <4>1. CASE n \in Members(write[w].staged)
        BY <4>1 DEF Known, Alike
      <4>2. CASE \E m \in Members(nodes) : m.id = n.id /\ Alike(n, m)
        BY <4>2 DEF Known
      <4> QED BY <2>2, <3>1, <4>1, <4>2 DEF Source
    <3> QED BY <3>1, <3>2, SourceTagged
  <2> QED BY <1>1, <2>1, <2>2 DEF Known
<1>3. ASSUME NEW n \in Known', NEW m \in Known', n.id = m.id PROVE Alike(n, m)
  <2>1. CASE Copied(n) /\ Copied(m)
    <3>1. PICK a \in Known : a.id = n.id /\ Alike(n, a)
      BY <2>1
    <3>2. PICK b \in Known : b.id = m.id /\ Alike(m, b)
      BY <2>1
    <3>3. Alike(a, b)
      BY <1>3, <3>1, <3>2 DEF CopiesOK
    <3> QED BY <3>1, <3>2, <3>3 DEF Alike
  <2>2. CASE New(n) /\ New(m)
    <3>1. n = m
      BY <1>3, <2>2, DistinctMembers DEF Extends, NodesOK
    <3> QED BY <3>1 DEF Alike
  <2>3. CASE (New(n) /\ Copied(m)) \/ (New(m) /\ Copied(n))
    BY <1>3, <2>3, FreshId
  <2> QED BY <1>2, <2>1, <2>2, <2>3
<1>4. Traced
  <2>1. \A n : New(n) => n.id \notin DOMAIN makers
    <3>1. <<w, write[w].minted + 1>> \notin DOMAIN makers
      BY StoresMean DEF HistoryOK
    <3> QED BY <3>1
  <2> QED BY <1>2, <2>1 DEF Traced
<1> QED BY <1>2, <1>3, <1>4 DEF CopiesOK

LEMMA NodesKeepKeys ==
  ASSUME TypeOK, TypeOK', OneNodePerKey, Forward,
         \A n \in Members(nodes') : \E m \in Members(nodes) : m.id = n.id /\ Alike(n, m)
  PROVE  OneNodePerKey'
<1> SUFFICES ASSUME NEW n \in Members(nodes'), NEW m \in Members(nodes'), Clash(n, m)
             PROVE  Apart(n, m)'
  BY KeyMembersNext
<1>1. PICK a \in Members(nodes) : a.id = n.id /\ Alike(n, a)
  OBVIOUS
<1>2. PICK b \in Members(nodes) : b.id = m.id /\ Alike(m, b)
  OBVIOUS
<1>3. Clash(a, b)
  BY <1>1, <1>2 DEF Clash, Alike
<1>4. Apart(a, b)
  BY <1>3, KeyMembers
<1>5. Apart(n, m)
  BY <1>1, <1>2, <1>4 DEF Apart
<1> QED BY <1>5, ApartStays

LEMMA BecomesInv ==
  ASSUME IInv, NEW w \in Writers, pc[w] = "busy", NEW q, Becomes(w, q), Extends(w, q)
  PROVE  Kept
<1>1. /\ TypeOK /\ HistoryOK /\ CopiesOK /\ OneNodePerKey /\ CascadeHolds /\ ForgottenStays
      /\ \A v \in Writers : WriteOK(v) /\ KeysOK(v)
      /\ \A g \in Forgets : ForgetOK(g)
  BY DEF IInv
<1>2. UNCHANGED <<nodes, edges, origin, makers, gone, paused, pc, forget, before, forgot>>
  BY DEF Becomes, store
<1>3. Forward /\ \A v \in Writers \ {w} : Outside(v)
  BY <1>1, BecomesOutside
<1>4. TypeOK'
  BY <1>1, BecomesType
<1>5. CopiesOK'
  BY <1>1, BecomesCopies
<1>6. HistoryOK'
  BY <1>1, <1>2 DEF HistoryOK, Stores, Ended, Underway
<1>7. ASSUME NEW v \in Writers PROVE WriteOK(v)' /\ KeysOK(v)'
  <2>1. CASE v = w
    BY <1>1, <2>1, BecomesWrite, BecomesKeys
  <2>2. CASE v # w
    BY <1>1, <1>3, <2>2, OutsideWrite, OutsideKeys
  <2> QED BY <2>1, <2>2
<1>8. ASSUME NEW g \in Forgets PROVE ForgetOK(g)'
  BY <1>1, <1>2 DEF ForgetOK, Ended
<1>9. OneNodePerKey'
  <2>1. \A n \in Members(nodes') : \E m \in Members(nodes) : m.id = n.id /\ Alike(n, m)
    BY <1>2 DEF Alike
  <2> QED BY <1>1, <1>3, <1>4, <2>1, NodesKeepKeys
<1>10. CascadeHolds' /\ ForgottenStays'
  BY <1>1, <1>2 DEF CascadeHolds, ForgottenStays, Ids
<1>11. Traced
  BY <1>1, BecomesCopies
<1>12. UNCHANGED <<nodes, gone>>
  BY <1>2
<1>13. \A j \in Jobs : Sees(j)
  BY <1>12, AloneSees
<1>14. IInv'
  BY <1>4, <1>5, <1>6, <1>7, <1>8, <1>9, <1>10 DEF IInv
<1> QED BY <1>2, <1>3, <1>11, <1>13, <1>14 DEF Kept

-----------------------------------------------------------------------------
(* The records of the calls                                                *)

LEMMA FirstCall ==
  ASSUME NEW s \in Seq(Calling), Chained(s), s # <<>>
  PROVE  LET t == SubSeq(s, 2, Len(s))
         IN  /\ Head(s) \in Calling /\ t \in Seq(Calling) /\ Chained(t)
             /\ t # <<>> /\ Head(t).stage = "similar" =>
                  Head(s).stage = "exact" /\ Head(t).entity = Head(s).entity
<1> DEFINE t == SubSeq(s, 2, Len(s))
<1>1. Len(s) \in Nat /\ Len(s) # 0 /\ \A i \in 1 .. Len(s) : s[i] \in Calling
  OBVIOUS
<1>2. /\ t \in Seq(Calling) /\ Len(t) = Len(s) - 1 /\ \A i \in 1 .. Len(s) - 1 : t[i] = s[i + 1]
  <2>1. \A i \in 2 .. Len(s) : s[i] \in Calling
    BY <1>1
  <2>2. /\ t \in Seq(Calling) /\ Len(t) = IF 2 <= Len(s) THEN Len(s) - 2 + 1 ELSE 0
        /\ \A i \in 1 .. Len(s) - 2 + 1 : t[i] = s[2 + i - 1]
    BY <1>1, <2>1, SubSeqProperties
  <2> HIDE DEF t
  <2>3. \A i \in 1 .. Len(s) - 1 : i \in 1 .. Len(s) - 2 + 1 /\ 2 + i - 1 = i + 1
    BY <1>1
  <2>4. Len(t) = Len(s) - 1
    <3>1. Len(t) = IF 2 <= Len(s) THEN Len(s) - 2 + 1 ELSE 0
      BY <2>2
    <3>2. Len(s) \in Nat /\ Len(s) >= 1
      BY <1>1
    <3> DEFINE n == Len(s)
               m == Len(t)
    <3>3. (m = IF 2 <= n THEN n - 2 + 1 ELSE 0) /\ n \in Nat /\ n >= 1
      BY <3>1, <3>2
    <3> HIDE DEF n, m
    <3>4. m = n - 1
      BY <3>3
    <3> QED BY <3>4 DEF n, m
  <2> QED BY <2>2, <2>3, <2>4
<1> HIDE DEF t
<1>3. Head(s) = s[1] /\ s[1] \in Calling
  BY <1>1
<1>4. Chained(t)
  <2> SUFFICES ASSUME NEW i \in 1 .. Len(t)
               PROVE  /\ t[i].stage = "exact" <=> (i + 1 \in 1 .. Len(t) /\ t[i + 1].stage = "similar")
                      /\ t[i].stage = "exact" => t[i + 1].entity = t[i].entity
    BY DEF Chained
  <2> DEFINE k == i + 1
  <2>1. k \in 1 .. Len(s) /\ i \in 1 .. Len(s) - 1 /\ (i + 1 \in 1 .. Len(t) <=> k + 1 \in 1 .. Len(s))
    BY <1>1, <1>2
  <2>2. t[i] = s[k] /\ (k + 1 \in 1 .. Len(s) => t[i + 1] = s[k + 1])
    BY <1>1, <1>2
  <2> HIDE DEF k
  <2>3. /\ s[k].stage = "exact" <=> (k + 1 \in 1 .. Len(s) /\ s[k + 1].stage = "similar")
        /\ s[k].stage = "exact" => s[k + 1].entity = s[k].entity
    BY <2>1 DEF Chained
  <2> QED BY <2>1, <2>2, <2>3
<1>5. ASSUME t # <<>>, Head(t).stage = "similar"
      PROVE  Head(s).stage = "exact" /\ Head(t).entity = Head(s).entity
  <2>1. Head(t) = t[1] /\ Len(t) # 0
    BY <1>2, <1>5
  <2>2. 1 \in 1 .. Len(s) /\ 1 + 1 \in 1 .. Len(s) /\ t[1] = s[1 + 1]
    BY <1>1, <1>2, <2>1
  <2>3. s[1 + 1].stage = "similar"
    BY <1>5, <2>1, <2>2
  <2>4. s[1].stage = "exact" /\ s[1 + 1].entity = s[1].entity
    BY <2>2, <2>3 DEF Chained
  <2> QED BY <1>3, <2>1, <2>2, <2>4
<1> QED BY <1>2, <1>3, <1>4, <1>5 DEF t

\* The call after the lookup of a name goes with it when the name was found.
LEMMA SecondCall ==
  ASSUME NEW s \in Seq(Calling), Chained(s), s # <<>>, Head(s).stage = "exact"
  PROVE  LET t == SubSeq(s, 3, Len(s))
         IN  t \in Seq(Calling) /\ Chained(t) /\ ~ (t # <<>> /\ Head(t).stage = "similar")
<1> DEFINE t == SubSeq(s, 3, Len(s))
<1>1. Len(s) \in Nat /\ Len(s) # 0 /\ Head(s) = s[1] /\ \A i \in 1 .. Len(s) : s[i] \in Calling
  OBVIOUS
<1>2. 1 + 1 \in 1 .. Len(s) /\ s[2].stage = "similar"
  <2>1. 1 \in 1 .. Len(s) /\ 1 + 1 = 2
    BY <1>1
  <2> QED BY <1>1, <2>1 DEF Chained
<1>3. /\ t \in Seq(Calling) /\ Len(t) = Len(s) - 2 /\ \A i \in 1 .. Len(s) - 2 : t[i] = s[i + 2]
  <2>1. \A i \in 3 .. Len(s) : s[i] \in Calling
    BY <1>1
  <2>2. /\ t \in Seq(Calling) /\ Len(t) = IF 3 <= Len(s) THEN Len(s) - 3 + 1 ELSE 0
        /\ \A i \in 1 .. Len(s) - 3 + 1 : t[i] = s[3 + i - 1]
    BY <1>1, <2>1, SubSeqProperties
  <2> HIDE DEF t
  <2>3. \A i \in 1 .. Len(s) - 2 : i \in 1 .. Len(s) - 3 + 1 /\ 3 + i - 1 = i + 2
    BY <1>1
  <2>4. Len(t) = Len(s) - 2
    <3>1. Len(t) = IF 3 <= Len(s) THEN Len(s) - 3 + 1 ELSE 0
      BY <2>2
    <3>2. Len(s) \in Nat /\ Len(s) >= 2
      BY <1>1, <1>2
    <3> DEFINE n == Len(s)
               m == Len(t)
    <3>3. (m = IF 3 <= n THEN n - 3 + 1 ELSE 0) /\ n \in Nat /\ n >= 2
      BY <3>1, <3>2
    <3> HIDE DEF n, m
    <3>4. m = n - 2
      BY <3>3
    <3> QED BY <3>4 DEF n, m
  <2> QED BY <2>2, <2>3, <2>4
<1> HIDE DEF t
<1>4. Chained(t)
  <2> SUFFICES ASSUME NEW i \in 1 .. Len(t)
               PROVE  /\ t[i].stage = "exact" <=> (i + 1 \in 1 .. Len(t) /\ t[i + 1].stage = "similar")
                      /\ t[i].stage = "exact" => t[i + 1].entity = t[i].entity
    BY DEF Chained
  <2> DEFINE k == i + 2
  <2>1. k \in 1 .. Len(s) /\ i \in 1 .. Len(s) - 2 /\ (i + 1 \in 1 .. Len(t) <=> k + 1 \in 1 .. Len(s))
    BY <1>1, <1>3
  <2>2. t[i] = s[k] /\ (k + 1 \in 1 .. Len(s) => t[i + 1] = s[k + 1])
    <3>1. t[i] = s[k]
      BY <1>3, <2>1
    <3>2. ASSUME k + 1 \in 1 .. Len(s) PROVE t[i + 1] = s[k + 1]
      <4>1. i + 1 \in 1 .. Len(s) - 2 /\ i + 1 + 2 = k + 1
        BY <1>1, <2>1, <3>2
      <4> HIDE DEF k
      <4> QED BY <1>3, <4>1
    <3> QED BY <3>1, <3>2
  <2> HIDE DEF k
  <2>3. /\ s[k].stage = "exact" <=> (k + 1 \in 1 .. Len(s) /\ s[k + 1].stage = "similar")
        /\ s[k].stage = "exact" => s[k + 1].entity = s[k].entity
    BY <2>1 DEF Chained
  <2> QED BY <2>1, <2>2, <2>3
<1>5. ~ (t # <<>> /\ Head(t).stage = "similar")
  <2> SUFFICES ASSUME t # <<>>, Head(t).stage = "similar" PROVE FALSE
    OBVIOUS
  <2>1. Head(t) = t[1] /\ Len(t) # 0
    BY <1>3
  <2>2. 2 \in 1 .. Len(s) /\ 2 + 1 \in 1 .. Len(s) /\ t[1] = s[2 + 1]
    BY <1>1, <1>3, <2>1
  <2>3. s[2].stage = "exact"
    BY <2>1, <2>2 DEF Chained
  <2> QED BY <1>2, <2>3
<1> QED BY <1>3, <1>4, <1>5 DEF t

LEMMA StageMeans ==
  ASSUME NEW r, Keeps(r), NEW n
  PROVE  LET q == Stage(r, n)
         IN  /\ Keeps(q) /\ q.staged = Put(r.staged, n)
             /\ q.todo = r.todo /\ q.links = r.links /\ q.last = r.last
             /\ q.primary = r.primary /\ q.minted = r.minted
             /\ q.keys = IF n.key = None THEN r.keys ELSE Assign(r.keys, n.key, n.id)
<1> DEFINE s == Put(r.staged, n)
           k == IF n.key = None THEN r.keys ELSE Assign(r.keys, n.key, n.id)
           p == [r EXCEPT !.staged = s]
           q == [p EXCEPT !.keys = k]
<1>1. Stage(r, n) = q
  BY Zenon DEF Stage
<1> HIDE DEF s, k
<1>2. p = [todo |-> r.todo, staged |-> s, links |-> r.links, keys |-> r.keys, last |-> r.last,
           primary |-> r.primary, minted |-> r.minted]
  BY DEF Keeps
<1> HIDE DEF p
<1>3. q = [todo |-> r.todo, staged |-> s, links |-> r.links, keys |-> k, last |-> r.last,
           primary |-> r.primary, minted |-> r.minted]
  BY <1>2
<1> HIDE DEF q
<1>4. /\ Keeps(q) /\ q.staged = s /\ q.todo = r.todo /\ q.links = r.links /\ q.last = r.last
      /\ q.primary = r.primary /\ q.minted = r.minted /\ q.keys = k
  BY <1>3 DEF Keeps
<1> QED BY <1>1, <1>4 DEF s, k

LEMMA LinkMeans ==
  ASSUME NEW r, Keeps(r), NEW w, NEW type, NEW from, NEW to
  PROVE  LET q == Link(w, r, type, from, to)
         IN  /\ Keeps(q) /\ q.staged = r.staged /\ q.todo = r.todo /\ q.keys = r.keys /\ q.last = r.last
             /\ q.primary = r.primary /\ q.minted = r.minted
             /\ \A e \in q.links :
                  e \in r.links
                  \/ (to \notin {None, from} /\ e = [type |-> type, from |-> from, to |-> to, by |-> w])
BY DEF Link, Keeps

\* Changing one variable of a write.
LEMMA TodoMeans ==
  ASSUME NEW r, Keeps(r), NEW x
  PROVE  LET q == [r EXCEPT !.todo = x]
         IN  /\ Keeps(q) /\ q.todo = x /\ q.staged = r.staged /\ q.links = r.links /\ q.keys = r.keys
             /\ q.last = r.last /\ q.primary = r.primary /\ q.minted = r.minted
BY DEF Keeps

LEMMA StagedMeans ==
  ASSUME NEW r, Keeps(r), NEW x
  PROVE  LET q == [r EXCEPT !.staged = x]
         IN  /\ Keeps(q) /\ q.todo = r.todo /\ q.staged = x /\ q.links = r.links /\ q.keys = r.keys
             /\ q.last = r.last /\ q.primary = r.primary /\ q.minted = r.minted
BY DEF Keeps

LEMMA LinksMeans ==
  ASSUME NEW r, Keeps(r), NEW x
  PROVE  LET q == [r EXCEPT !.links = x]
         IN  /\ Keeps(q) /\ q.todo = r.todo /\ q.staged = r.staged /\ q.links = x /\ q.keys = r.keys
             /\ q.last = r.last /\ q.primary = r.primary /\ q.minted = r.minted
BY DEF Keeps

LEMMA KeysMeans ==
  ASSUME NEW r, Keeps(r), NEW x
  PROVE  LET q == [r EXCEPT !.keys = x]
         IN  /\ Keeps(q) /\ q.todo = r.todo /\ q.staged = r.staged /\ q.links = r.links /\ q.keys = x
             /\ q.last = r.last /\ q.primary = r.primary /\ q.minted = r.minted
BY DEF Keeps

LEMMA LastMeans ==
  ASSUME NEW r, Keeps(r), NEW x
  PROVE  LET q == [r EXCEPT !.last = x]
         IN  /\ Keeps(q) /\ q.todo = r.todo /\ q.staged = r.staged /\ q.links = r.links /\ q.keys = r.keys
             /\ q.last = x /\ q.primary = r.primary /\ q.minted = r.minted
BY DEF Keeps

LEMMA PrimaryMeans ==
  ASSUME NEW r, Keeps(r), NEW x
  PROVE  LET q == [r EXCEPT !.primary = x]
         IN  /\ Keeps(q) /\ q.todo = r.todo /\ q.staged = r.staged /\ q.links = r.links /\ q.keys = r.keys
             /\ q.last = r.last /\ q.primary = x /\ q.minted = r.minted
BY DEF Keeps

LEMMA MintedMeans ==
  ASSUME NEW r, Keeps(r), NEW x
  PROVE  LET q == [r EXCEPT !.minted = x]
         IN  /\ Keeps(q) /\ q.todo = r.todo /\ q.staged = r.staged /\ q.links = r.links /\ q.keys = r.keys
             /\ q.last = r.last /\ q.primary = r.primary /\ q.minted = x
BY DEF Keeps

-----------------------------------------------------------------------------
(* What a write does between two calls                                     *)

\* What the variables of a write are on the way from one call to the next.
Fits(w, p) ==
  /\ Keeps(p) /\ p.todo = write[w].todo
  /\ NodesOK(p.staged) /\ Ids(write[w].staged) \subseteq Ids(p.staged)
  /\ \A n \in Members(p.staged) : Source(w, p.keys, n)
  /\ DOMAIN write[w].keys \subseteq DOMAIN p.keys
  /\ \A k \in DOMAIN p.keys : k \in Key /\ p.keys[k] \in Ids(p.staged)
  /\ \A t \in DOMAIN p.last : t \in NodeTypes /\ p.last[t] \in Ids(p.staged)
  /\ p.links \subseteq Edge
  /\ \A e \in p.links :
       \/ e \in write[w].links
       \/ /\ e.by = w /\ e.type # "DERIVED_FROM"
          /\ e.from \in Ids(p.staged) \cup Ids(nodes) /\ e.to \in Ids(p.staged) \cup Ids(nodes)

\* A new node may be staged when its key is not taken.
Fresher(w, n) ==
  /\ n.id = <<w, write[w].minted + 1>> /\ Tagged(n)
  /\ n.key # None /\ n.type # "Preference" =>
       /\ \A m \in Members(nodes) : m.key = n.key => Late(w, m)
       /\ \A c \in Members(write[w].staged) : c.key = n.key => Robbed(w)

LEMMA NodeFields ==
  ASSUME NEW n \in Node
  PROVE  /\ n.id \in Id /\ n.type \in NodeTypes /\ n.key \in Key \cup {None} /\ n.label \in Names
         /\ n.domain \in Domains \cup {None} /\ n.sort \in Names \cup {None} /\ n.marks \subseteq Marks
BY DEF Node

LEMMA IdsType ==
  ASSUME NEW s \in Seq(Node)
  PROVE  Ids(s) \subseteq Id /\ \A n \in Members(s) : n \in Node /\ n.id \in Ids(s)
<1>1. \A i \in DOMAIN s : s[i] \in Node /\ s[i].id \in Id
  <2>1. \A i \in DOMAIN s : s[i] \in Node
    OBVIOUS
  <2> QED BY <2>1, NodeFields
<1> QED BY <1>1 DEF Ids, Members

LEMMA FitsSelf ==
  ASSUME TypeOK, NEW w \in Writers, WriteOK(w)
  PROVE  Fits(w, write[w])
BY DEF TypeOK, WriteOK, Fits, Source

\* More keys, more nodes.
LEMMA SourceKeys ==
  ASSUME NEW w, NEW a, NEW b, DOMAIN a \subseteq DOMAIN b, NEW n, Source(w, a, n)
  PROVE  Source(w, b, n)
BY DEF Source

LEMMA FitsPut ==
  ASSUME NEW w \in Writers, NEW p, Fits(w, p), NEW n \in Node, Source(w, p.keys, n)
  PROVE  LET q == [p EXCEPT !.staged = Put(p.staged, n)]
         IN  /\ Fits(w, q) /\ n.id \in Ids(q.staged) /\ Ids(p.staged) \subseteq Ids(q.staged)
             /\ \A m \in Members(q.staged) : m = n \/ m \in Members(p.staged)
<1> DEFINE s == Put(p.staged, n)
           q == [p EXCEPT !.staged = s]
<1>1. p.staged \in Seq(Node) /\ Distinct(p.staged) /\ Keeps(p)
  BY DEF Fits, NodesOK
<1>2. /\ s \in Seq(Node) /\ Distinct(s) /\ Ids(s) = Ids(p.staged) \cup {n.id}
      /\ \A m \in Members(s) : m = n \/ m \in Members(p.staged)
  BY <1>1, PutMeans
<1> HIDE DEF s
<1>3. /\ Keeps(q) /\ q.todo = p.todo /\ q.staged = s /\ q.links = p.links /\ q.keys = p.keys
      /\ q.last = p.last
  BY <1>1, StagedMeans
<1> HIDE DEF q
<1>4. Fits(w, q)
  BY <1>2, <1>3 DEF Fits, NodesOK
<1>5. n.id \in Ids(q.staged) /\ Ids(p.staged) \subseteq Ids(q.staged)
      /\ \A m \in Members(q.staged) : m = n \/ m \in Members(p.staged)
  BY <1>2, <1>3
<1> QED BY <1>4, <1>5 DEF q, s

LEMMA FitsAssign ==
  ASSUME NEW w \in Writers, NEW p, Fits(w, p), NEW key \in Key, NEW id \in Ids(p.staged)
  PROVE  LET q == [p EXCEPT !.keys = Assign(p.keys, key, id)]
         IN  Fits(w, q) /\ key \in DOMAIN q.keys /\ q.staged = p.staged
<1> DEFINE k == Assign(p.keys, key, id)
           q == [p EXCEPT !.keys = k]
<1>1. Keeps(p)
  BY DEF Fits
<1>2. /\ DOMAIN k = DOMAIN p.keys \cup {key}
      /\ \A x \in DOMAIN k : (x = key /\ k[x] = id) \/ (x \in DOMAIN p.keys /\ k[x] = p.keys[x])
  BY DEF Assign
<1> HIDE DEF k
<1>3. /\ Keeps(q) /\ q.todo = p.todo /\ q.staged = p.staged /\ q.links = p.links /\ q.keys = k
      /\ q.last = p.last
  BY <1>1, KeysMeans
<1> HIDE DEF q
<1>4. \A n \in Members(q.staged) : Source(w, q.keys, n)
  BY <1>2, <1>3, SourceKeys DEF Fits
<1>5. Fits(w, q)
  BY <1>2, <1>3, <1>4 DEF Fits
<1>6. key \in DOMAIN q.keys /\ q.staged = p.staged
  BY <1>2, <1>3
<1> QED BY <1>5, <1>6 DEF q, k

\* A node that may be staged.
Comes(w, n) ==
  \/ n \in Members(write[w].staged)
  \/ n.type # "Action" /\ \E m \in Members(nodes) : m.id = n.id /\ Alike(n, m)
  \/ Fresher(w, n)

LEMMA FitsStage ==
  ASSUME NEW w \in Writers, NEW p, Fits(w, p), NEW n \in Node, Comes(w, n)
  PROVE  LET q == Stage(p, n)
         IN  /\ Fits(w, q) /\ n.id \in Ids(q.staged) /\ Ids(p.staged) \subseteq Ids(q.staged)
             /\ \A m \in Members(q.staged) : m = n \/ m \in Members(p.staged)
             /\ q.primary = p.primary /\ q.minted = p.minted /\ q.last = p.last
<1> DEFINE q == Stage(p, n)
           k == IF n.key = None THEN p.keys ELSE Assign(p.keys, n.key, n.id)
<1>1. p.staged \in Seq(Node) /\ Distinct(p.staged) /\ Keeps(p)
  BY DEF Fits, NodesOK
<1>2. /\ Put(p.staged, n) \in Seq(Node) /\ Distinct(Put(p.staged, n))
      /\ Ids(Put(p.staged, n)) = Ids(p.staged) \cup {n.id}
      /\ \A m \in Members(Put(p.staged, n)) : m = n \/ m \in Members(p.staged)
  BY <1>1, PutMeans
<1>3. /\ Keeps(q) /\ q.todo = p.todo /\ q.staged = Put(p.staged, n) /\ q.links = p.links /\ q.keys = k
      /\ q.last = p.last /\ q.primary = p.primary /\ q.minted = p.minted
  BY <1>1, StageMeans
<1>4. n.key \in Key \cup {None}
  BY NodeFields
<1>5. /\ DOMAIN p.keys \subseteq DOMAIN k /\ (n.key # None => n.key \in DOMAIN k)
      /\ \A x \in DOMAIN k : (x \in Key /\ k[x] = n.id) \/ (x \in DOMAIN p.keys /\ k[x] = p.keys[x])
  <2>1. CASE n.key = None
    BY <2>1
  <2>2. CASE n.key # None
    <3> DEFINE key == n.key
    <3>1. key \in Key
      BY <1>4, <2>2
    <3> HIDE DEF key
    <3>2. k = Assign(p.keys, key, n.id)
      BY <2>2 DEF key
    <3> DEFINE a == Assign(p.keys, key, n.id)
    <3>3. /\ DOMAIN a = DOMAIN p.keys \cup {key}
          /\ \A x \in DOMAIN a : (x = key /\ a[x] = n.id) \/ (x \in DOMAIN p.keys /\ a[x] = p.keys[x])
      BY DEF Assign
    <3>4. k = a
      BY <3>2
    <3> HIDE DEF a, k
    <3>5. /\ DOMAIN p.keys \subseteq DOMAIN k /\ key \in DOMAIN k
          /\ \A x \in DOMAIN k : (x \in Key /\ k[x] = n.id) \/ (x \in DOMAIN p.keys /\ k[x] = p.keys[x])
      BY <3>1, <3>3, <3>4
    <3> QED BY <3>5 DEF key
  <2> QED BY <2>1, <2>2
<1> HIDE DEF q, k
<1>6. Source(w, k, n)
  BY <1>5 DEF Source, Fresher, Comes
<1>7. \A m \in Members(p.staged) : Source(w, k, m)
  BY <1>5, SourceKeys DEF Fits
<1>8. \A m \in Members(q.staged) : Source(w, q.keys, m)
  BY <1>2, <1>3, <1>6, <1>7
<1>9. \A x \in DOMAIN q.keys : x \in Key /\ q.keys[x] \in Ids(q.staged)
  BY <1>2, <1>3, <1>5 DEF Fits
<1>10. Fits(w, q)
  BY <1>2, <1>3, <1>5, <1>8, <1>9 DEF Fits, NodesOK
<1> QED BY <1>2, <1>3, <1>10 DEF q

LEMMA FitsLinks ==
  ASSUME NEW w \in Writers, NEW p, Fits(w, p), NEW links \in SUBSET Edge,
         \A e \in links : e \in p.links
           \/ (e.by = w /\ e.type # "DERIVED_FROM"
               /\ e.from \in Ids(p.staged) \cup Ids(nodes) /\ e.to \in Ids(p.staged) \cup Ids(nodes))
  PROVE  LET q == [p EXCEPT !.links = links]
         IN  Fits(w, q) /\ q.staged = p.staged /\ q.primary = p.primary /\ q.minted = p.minted
             /\ q.last = p.last /\ q.links = links
<1> DEFINE q == [p EXCEPT !.links = links]
<1>1. Keeps(p)
  BY DEF Fits
<1>2. /\ Keeps(q) /\ q.todo = p.todo /\ q.staged = p.staged /\ q.links = links /\ q.keys = p.keys
      /\ q.last = p.last /\ q.primary = p.primary /\ q.minted = p.minted
  BY <1>1, LinksMeans
<1> HIDE DEF q
<1>3. Fits(w, q)
  BY <1>2 DEF Fits
<1> QED BY <1>2, <1>3 DEF q

LEMMA FitsLink ==
  ASSUME TypeOK, NEW w \in Writers, NEW p, Fits(w, p), NEW type \in EdgeTypes, type # "DERIVED_FROM",
         NEW from \in Ids(p.staged) \cup Ids(nodes), NEW to \in Ids(p.staged) \cup Ids(nodes) \cup {None}
  PROVE  LET q == Link(w, p, type, from, to)
         IN  /\ Fits(w, q) /\ q.staged = p.staged /\ q.primary = p.primary /\ q.minted = p.minted
             /\ q.last = p.last
<1> DEFINE e == [type |-> type, from |-> from, to |-> to, by |-> w]
           links == IF to \in {None, from} THEN p.links ELSE p.links \cup {e}
<1>1. Link(w, p, type, from, to) = [p EXCEPT !.links = links]
  BY DEF Link
<1>2. Ids(p.staged) \subseteq Id /\ Ids(nodes) \subseteq Id
  BY IdsType DEF Fits, NodesOK, TypeOK
<1>3. to \notin {None, from} => e \in Edge /\ e.by = w /\ e.from = from /\ e.to = to
  BY <1>2 DEF Edge
<1>6. e.type = type
  OBVIOUS
<1> HIDE DEF e
<1>4. links \in SUBSET Edge
  BY <1>3 DEF Fits
<1>5. \A x \in links : x \in p.links
         \/ (x.by = w /\ x.type # "DERIVED_FROM"
             /\ x.from \in Ids(p.staged) \cup Ids(nodes) /\ x.to \in Ids(p.staged) \cup Ids(nodes))
  BY <1>3, <1>6
<1> HIDE DEF links
<1> QED BY <1>1, <1>4, <1>5, FitsLinks

LEMMA GoesOnInv ==
  ASSUME IInv, NEW w \in Writers, pc[w] = "busy", write[w].todo # <<>>,
         NEW p, Fits(w, p), p.primary \in Ids(p.staged),
         p.minted \in {write[w].minted, write[w].minted + 1},
         \A n \in Members(p.staged) : n.id = <<w, write[w].minted + 1>> => p.minted = write[w].minted + 1,
         NEW k \in {1, 2}, GoesOn(w, p, k),
         k = 2 => Head(write[w].todo).stage = "exact",
         k = 1 /\ Head(write[w].todo).stage = "exact" =>
           /\ \A n \in Members(nodes) : n.key = EntityKey(Head(write[w].todo).entity) => Late(w, n)
           /\ \A c \in Members(p.staged) : c.key = EntityKey(Head(write[w].todo).entity) => Robbed(w)
  PROVE  Kept
<1> DEFINE s == write[w].todo
           t == SubSeq(s, k + 1, Len(s))
           q == [p EXCEPT !.todo = t]
<1>1. Keeps(p) /\ p.todo = s
  BY DEF Fits
<1>2. Becomes(w, q)
  BY <1>1 DEF GoesOn, Becomes
<1>3. WriteOK(w) /\ TypeOK
  BY DEF IInv
<1>4. s \in Seq(Calling) /\ Chained(s) /\ s # <<>>
  BY <1>3 DEF WriteOK
<1>5. /\ t \in Seq(Calling) /\ Chained(t)
      /\ t # <<>> /\ Head(t).stage = "similar" =>
           k = 1 /\ Head(s).stage = "exact" /\ Head(t).entity = Head(s).entity
  <2> HIDE DEF s
  <2>1. CASE k = 1
    <3>1. t = SubSeq(s, 2, Len(s))
      BY <2>1
    <3> HIDE DEF t
    <3> QED BY <1>4, <2>1, <3>1, FirstCall
  <2>2. CASE k = 2
    <3>1. t = SubSeq(s, 3, Len(s))
      BY <2>2
    <3>2. Head(s).stage = "exact"
      BY <2>2 DEF s
    <3> HIDE DEF t
    <3> QED BY <1>4, <2>2, <3>1, <3>2, SecondCall
  <2> QED BY <2>1, <2>2
<1> HIDE DEF t
<1>6. /\ Keeps(q) /\ q.todo = t /\ q.staged = p.staged /\ q.links = p.links /\ q.keys = p.keys
      /\ q.last = p.last /\ q.primary = p.primary /\ q.minted = p.minted
  BY <1>1, TodoMeans
<1> HIDE DEF q
<1>7. write[w].minted \in Nat
  BY <1>3 DEF TypeOK
<1>8. q.minted \in Nat /\ q.minted >= write[w].minted
  BY <1>6, <1>7
<1>9. q.primary \in Id
  BY <1>6, IdsType DEF Fits, NodesOK
<1>10. q.todo # <<>> /\ Head(q.todo).stage = "similar" =>
         /\ \A n \in Members(nodes) : n.key = EntityKey(Head(q.todo).entity) => Late(w, n)
         /\ \A c \in Members(q.staged) : c.key = EntityKey(Head(q.todo).entity) => Robbed(w)
  BY <1>5, <1>6
<1>11. Extends(w, q)
  BY <1>5, <1>6, <1>8, <1>9, <1>10 DEF Extends, Fits
<1> QED BY <1>2, <1>11, BecomesInv

\* What a write has done when it makes its next call.
Prepared(w, p) ==
  /\ Fits(w, p) /\ p.primary \in Ids(p.staged)
  /\ p.minted \in {write[w].minted, write[w].minted + 1}
  /\ \A n \in Members(p.staged) : n.id = <<w, write[w].minted + 1>> => p.minted = write[w].minted + 1

LEMMA OneOnInv ==
  ASSUME IInv, NEW w \in Writers, pc[w] = "busy", write[w].todo # <<>>, Head(write[w].todo).stage # "exact",
         NEW p, Prepared(w, p), GoesOn(w, p, 1)
  PROVE  Kept
<1> DEFINE k == 1
<1>1. k \in {1, 2} /\ k # 2 /\ GoesOn(w, p, k)
  OBVIOUS
<1> HIDE DEF k
<1>2. k = 2 => Head(write[w].todo).stage = "exact"
  BY <1>1
<1> QED BY <1>1, <1>2, GoesOnInv DEF Prepared

\* The lookup of a name that finds a node makes the search for one like it needless.
LEMMA TwoOnInv ==
  ASSUME IInv, NEW w \in Writers, pc[w] = "busy", write[w].todo # <<>>, Head(write[w].todo).stage = "exact",
         NEW p, Prepared(w, p), GoesOn(w, p, 2)
  PROVE  Kept
<1> DEFINE k == 2
<1>1. k \in {1, 2} /\ k # 1 /\ GoesOn(w, p, k)
  OBVIOUS
<1> HIDE DEF k
<1> QED BY <1>1, GoesOnInv DEF Prepared

\* The lookup of a name that finds nothing.
LEMMA MissedInv ==
  ASSUME IInv, NEW w \in Writers, pc[w] = "busy", write[w].todo # <<>>, Head(write[w].todo).stage = "exact",
         Prepared(w, write[w]), GoesOn(w, write[w], 1),
         \A n \in Members(nodes) : n.key # EntityKey(Head(write[w].todo).entity),
         \A c \in Members(write[w].staged) : c.key = EntityKey(Head(write[w].todo).entity) => Robbed(w)
  PROVE  Kept
<1> DEFINE k == 1
           p == write[w]
<1>1. k \in {1, 2} /\ k # 2 /\ GoesOn(w, p, k) /\ Prepared(w, p)
  OBVIOUS
<1>2. /\ \A n \in Members(nodes) : n.key = EntityKey(Head(write[w].todo).entity) => Late(w, n)
      /\ \A c \in Members(p.staged) : c.key = EntityKey(Head(write[w].todo).entity) => Robbed(w)
  OBVIOUS
<1> HIDE DEF k, p
<1> QED BY <1>1, <1>2, GoesOnInv DEF Prepared

\* What has a key that neither the write's map nor the store knows was stored once and is gone.
LEMMA UnknownKey ==
  ASSUME IInv, NEW w \in Writers, NEW key \in Key, key \notin DOMAIN write[w].keys,
         \A n \in Members(nodes) : n.key # key,
         NEW c \in Members(write[w].staged), c.key = key
  PROVE  Robbed(w)
<1>1. key # None
  BY MemoryAssumption
<1>2. c.id[1] # w
  BY <1>1 DEF IInv, WriteOK
<1>3. c.id \in Ids(nodes) \/ Robbed(w)
  BY <1>2 DEF IInv, WriteOK
<1>4. CASE c.id \in Ids(nodes)
  <2>1. PICK m \in Members(nodes) : m.id = c.id
    BY <1>4 DEF Ids, Members
  <2>2. c \in Known /\ m \in Known
    BY DEF Known
  <2>3. Alike(c, m)
    BY <2>1, <2>2 DEF IInv, CopiesOK
  <2> QED BY <2>3 DEF Alike
<1> QED BY <1>3, <1>4

LEMMA KeyType ==
  ASSUME NEW e \in MemoryEvent
  PROVE  /\ KeyOf(e) \in Key \cup {None}
         /\ e.kind = "preference" => KeyOf(e) \in Key /\ KeyOf(e)[1] = "pref"
         /\ e.kind # "preference" /\ KeyOf(e) # None => KeyOf(e)[1] # "pref"
         /\ e.kind = "action_taken" => KeyOf(e) = None
<1>1. /\ e.kind \in Kinds /\ e.session \in Names \cup {None} /\ e.of \in Names \cup {None}
  BY DEF MemoryEvent
<1>2. \A x, y \in Names \cup {None} :
        /\ <<"session", x, y>> \in Key /\ <<"intent", x, y>> \in Key
        /\ <<"task", x, y>> \in Key /\ <<"pref", x, y>> \in Key
  BY DEF Key
<1>3. CASE e.kind = "session_started"
  BY <1>1, <1>2, <1>3 DEF KeyOf, SessionKey
<1>4. CASE e.kind = "intent_captured"
  BY <1>1, <1>2, <1>4 DEF KeyOf
<1>5. CASE e.kind = "task_planned"
  BY <1>1, <1>2, <1>5 DEF KeyOf
<1>6. CASE e.kind = "preference"
  BY <1>1, <1>2, <1>6 DEF KeyOf
<1>7. CASE e.kind \notin {"session_started", "intent_captured", "task_planned", "preference"}
  <2>1. KeyOf(e) = None
    BY <1>7 DEF KeyOf
  <2> QED BY <1>7, <2>1
<1> QED BY <1>3, <1>4, <1>5, <1>6, <1>7

LEMMA NewNodeType ==
  ASSUME NEW id \in Id, NEW type \in NodeTypes, NEW key \in Key \cup {None}, NEW label \in Names
  PROVE  /\ NewNode(id, type, key, label) \in Node
         /\ NewNode(id, type, key, label).id = id /\ NewNode(id, type, key, label).type = type
         /\ NewNode(id, type, key, label).key = key
BY DEF NewNode, Node

LEMMA BuildType ==
  ASSUME NEW e \in MemoryEvent, NEW id \in Id
  PROVE  /\ BuildPrimary(e, id) \in Node /\ BuildPrimary(e, id).id = id
         /\ BuildPrimary(e, id).key = KeyOf(e) /\ Tagged(BuildPrimary(e, id))
         /\ BuildPrimary(e, id).type = "Preference" <=> e.kind = "preference"
<1>1. e.kind \in Kinds /\ e.label \in Names /\ e.domain \in Domains \cup {None}
  BY DEF MemoryEvent
<1>2. /\ TypeFor[e.kind] \in NodeTypes /\ (TypeFor[e.kind] = "Preference" <=> e.kind = "preference")
      /\ TypeFor[e.kind] = "Action" => e.kind = "action_taken"
  BY <1>1 DEF Kinds, TypeFor, NodeTypes
<1>3. KeyOf(e) \in Key \cup {None}
  BY KeyType
<1> DEFINE type == TypeFor[e.kind]
           key == KeyOf(e)
           domain == IF e.kind \in Located THEN e.domain ELSE None
           marks == (IF e.kind \in Embedded THEN {"embedded"} ELSE {}) \cup (IF e.done THEN {"done"} ELSE {})
           n == [id |-> id, type |-> type, key |-> key, label |-> e.label, domain |-> domain,
                 sort |-> None, marks |-> marks]
<1>4. BuildPrimary(e, id) = n
  <2> DEFINE a == [id |-> id, type |-> type, key |-> key, label |-> e.label, domain |-> None,
                   sort |-> None, marks |-> {}]
             b == [id |-> id, type |-> type, key |-> key, label |-> e.label, domain |-> domain,
                   sort |-> None, marks |-> {}]
  <2>1. BuildPrimary(e, id) = [[a EXCEPT !.domain = domain] EXCEPT !.marks = marks]
    BY Zenon DEF BuildPrimary, NewNode
  <2> HIDE DEF type, key, domain, marks
  <2>2. [a EXCEPT !.domain = domain] = b
    OBVIOUS
  <2>3. [b EXCEPT !.marks = marks] = n
    OBVIOUS
  <2> QED BY <2>1, <2>2, <2>3
<1>5. domain \in Domains \cup {None} /\ marks \in SUBSET Marks
  BY <1>1 DEF Marks
<1> HIDE DEF type, key, domain, marks
<1>6. n \in Node
  BY <1>1, <1>2, <1>3, <1>5 DEF Node, type, key
<1>7. n.id = id /\ n.key = key /\ n.type = type
  OBVIOUS
<1> HIDE DEF n
<1>8. Tagged(n)
  BY <1>2, <1>7, KeyType DEF Tagged, type, key
<1> QED BY <1>2, <1>4, <1>6, <1>7, <1>8 DEF type, key

LEMMA ResolveMeans ==
  ASSUME IInv, NEW w \in Writers, NEW key, NEW built
  PROVE  LET node == ResolveByKey(write[w], key, built)
         IN  \/ node \in Members(write[w].staged)
             \/ node \in Members(nodes) /\ node.key = key
             \/ node = built /\ key \notin DOMAIN write[w].keys /\ \A n \in Members(nodes) : n.key # key
<1> DEFINE r == write[w]
           node == ResolveByKey(r, key, built)
           stored == FindByNaturalKey(key)
<1>1. r.staged \in Seq(Node) /\ nodes \in Seq(Node)
  BY DEF IInv, TypeOK, NodesOK
<1>2. CASE key \in DOMAIN r.keys
  <2>1. r.keys[key] \in Ids(r.staged)
    BY <1>2 DEF IInv, TypeOK
  <2>2. Get(r.staged, r.keys[key]) \in Members(r.staged)
    BY <1>1, <2>1, GetMeans
  <2>3. node = Get(r.staged, r.keys[key])
    BY <1>2 DEF ResolveByKey
  <2> QED BY <2>2, <2>3
<1>3. CASE key \notin DOMAIN r.keys
  <2>1. \/ stored = None /\ \A n \in Members(nodes) : n.key # key
        \/ stored # None /\ stored \in Members(nodes) /\ stored.key = key
    BY <1>1, FindMeans
  <2>2. CASE stored = None
    <3>1. node = built
      BY <1>3, <2>2 DEF ResolveByKey
    <3> QED BY <1>3, <2>1, <2>2, <3>1
  <2>3. CASE stored # None /\ stored.id \in Ids(r.staged)
    <3>1. node = Get(r.staged, stored.id)
      BY <1>3, <2>3 DEF ResolveByKey
    <3>2. Get(r.staged, stored.id) \in Members(r.staged)
      BY <1>1, <2>3, GetMeans
    <3> QED BY <3>1, <3>2
  <2>4. CASE stored # None /\ stored.id \notin Ids(r.staged)
    <3>1. node = stored
      BY <1>3, <2>4 DEF ResolveByKey
    <3> QED BY <2>1, <2>4, <3>1
  <2> QED BY <2>2, <2>3, <2>4
<1> QED BY <1>2, <1>3

-----------------------------------------------------------------------------
(* Every call of a write keeps the invariant                               *)

LEMMA PrimaryFields ==
  ASSUME NEW r, Keeps(r), NEW node
  PROVE  LET q == PrimaryIs(r, node)
         IN  /\ Keeps(q) /\ q.todo = r.todo /\ q.staged = r.staged /\ q.links = r.links /\ q.keys = r.keys
             /\ q.last = Assign(r.last, node.type, node.id) /\ q.primary = node.id /\ q.minted = r.minted + 1
<1> DEFINE id == node.id
           last == Assign(r.last, node.type, id)
           minted == r.minted + 1
           a == [todo |-> r.todo, staged |-> r.staged, links |-> r.links, keys |-> r.keys, last |-> r.last,
                 primary |-> id, minted |-> r.minted]
           b == [todo |-> r.todo, staged |-> r.staged, links |-> r.links, keys |-> r.keys, last |-> last,
                 primary |-> id, minted |-> r.minted]
           c == [todo |-> r.todo, staged |-> r.staged, links |-> r.links, keys |-> r.keys, last |-> last,
                 primary |-> id, minted |-> minted]
<1>1. PrimaryIs(r, node) = [[[r EXCEPT !.primary = id] EXCEPT !.last = last] EXCEPT !.minted = minted]
  BY Zenon DEF PrimaryIs
<1> HIDE DEF id, last, minted
<1>2. [r EXCEPT !.primary = id] = a
  BY DEF Keeps
<1>3. [a EXCEPT !.last = last] = b
  OBVIOUS
<1>4. [b EXCEPT !.minted = minted] = c
  OBVIOUS
<1>5. PrimaryIs(r, node) = c
  BY <1>1, <1>2, <1>3, <1>4
<1>6. /\ Keeps(c) /\ c.todo = r.todo /\ c.staged = r.staged /\ c.links = r.links /\ c.keys = r.keys
      /\ c.last = last /\ c.primary = id /\ c.minted = minted
  BY DEF Keeps
<1> HIDE DEF c
<1> QED BY <1>5, <1>6 DEF last, minted, id

LEMMA StoredNode ==
  ASSUME TypeOK, NEW n \in Members(nodes)
  PROVE  n \in Node /\ n.id \in Ids(nodes) /\ \E m \in Members(nodes) : m.id = n.id /\ Alike(n, m)
BY IdsType DEF TypeOK, NodesOK, Alike

LEMMA KeyedNode ==
  ASSUME IInv, NEW n \in Members(nodes), n.key # None
  PROVE  n.type # "Action"
BY DEF IInv, CopiesOK, Known, Tagged

LEMMA StagedNode ==
  ASSUME TypeOK, NEW w \in Writers, NEW n \in Members(write[w].staged)
  PROVE  n \in Node /\ n.id \in Ids(write[w].staged)
BY IdsType DEF TypeOK, NodesOK

\* What the head of the calls is.
LEMMA HeadType ==
  ASSUME IInv, NEW w \in Writers, write[w].todo # <<>>
  PROVE  /\ Head(write[w].todo).event \in MemoryEvent
         /\ Head(write[w].todo).stage = "supersede" => Head(write[w].todo).event.kind = "preference"
         /\ Head(write[w].todo).stage = "domain" => Head(write[w].todo).event.domain \in Domains
         /\ Head(write[w].todo).stage \in {"exact", "similar"} => Head(write[w].todo).entity \in Mention
         /\ Head(write[w].todo).stage # "primary" => write[w].primary \in Ids(write[w].staged)
<1>1. write[w].todo \in Seq(Calling)
  BY DEF IInv, WriteOK
<1>2. Head(write[w].todo) \in Calling
  BY <1>1
<1>3. Head(write[w].todo).stage # "primary" => write[w].primary \in Ids(write[w].staged)
  BY DEF IInv, WriteOK, Heads
<1> DEFINE c == Head(write[w].todo)
<1> HIDE DEF c
<1>4. c \in Calling
  BY <1>2 DEF c
<1>5. /\ c.event \in MemoryEvent
      /\ c.stage = "supersede" => c.event.kind = "preference"
      /\ c.stage = "domain" => c.event.domain \in Domains
      /\ c.stage \in {"exact", "similar"} => c.entity \in Mention
  <2>1. \A e \in MemoryEvent : e.domain \in Domains \cup {None}
    BY DEF MemoryEvent
  <2> QED BY <1>4, <2>1 DEF Calling
<1> QED BY <1>3, <1>5 DEF c

LEMMA FreshType ==
  ASSUME TypeOK, NEW w \in Writers
  PROVE  Fresh(w) = <<w, write[w].minted + 1>> /\ Fresh(w) \in Id
<1>1. write[w].minted + 1 \in Nat \ {0}
  BY DEF TypeOK
<1> QED BY <1>1 DEF Fresh, Id

\* What was staged or stored does not have a new id.
LEMMA NoFresh ==
  ASSUME IInv, NEW w \in Writers, pc[w] = "busy", NEW n,
         n \in Members(write[w].staged) \/ n \in Members(nodes)
  PROVE  n.id # <<w, write[w].minted + 1>>
<1>1. n \in Known
  BY DEF Known
<1> QED BY <1>1, FreshId DEF IInv

LEMMA PrimaryInv ==
  ASSUME IInv, NEW w \in Writers, Primary(w)
  PROVE  Kept
<1> DEFINE r == write[w]
           e == Head(r.todo).event
           built == BuildPrimary(e, Fresh(w))
           node == IF built.key # None /\ e.kind # "preference"
                   THEN ResolveByKey(r, built.key, built) ELSE built
           previous == IF node.type \in DOMAIN r.last THEN r.last[node.type] ELSE None
           a == Stage(r, node)
           b == Link(w, a, "PRECEDED_BY", node.id, previous)
           p == PrimaryIs(b, node)
<1>1. /\ pc[w] = "busy" /\ r.todo # <<>> /\ Head(r.todo).stage = "primary" /\ GoesOn(w, p, 1)
  BY Zenon DEF Primary, At
<1>2. TypeOK /\ WriteOK(w) /\ CopiesOK
  BY DEF IInv
<1>3. e \in MemoryEvent /\ Fresh(w) = <<w, r.minted + 1>> /\ Fresh(w) \in Id
  BY Zenon, <1>1, <1>2, HeadType, FreshType
<1>4. /\ built \in Node /\ built.id = Fresh(w) /\ built.key = KeyOf(e) /\ Tagged(built)
      /\ built.type = "Preference" <=> e.kind = "preference"
  BY <1>3, BuildType
<1>5. built.key # None => built.key \in Key
  BY SMTT(30), <1>3, <1>4, KeyType
<1>6. \/ node \in Members(r.staged) \/ (node \in Members(nodes) /\ node.key # None)
      \/ node = built /\ Fresher(w, built)
  <2>1. CASE built.key # None /\ e.kind # "preference"
    <3>1. node = ResolveByKey(r, built.key, built)
      BY <2>1
    <3>2. \/ node \in Members(r.staged)
          \/ node \in Members(nodes) /\ node.key = built.key
          \/ node = built /\ built.key \notin DOMAIN r.keys /\ \A n \in Members(nodes) : n.key # built.key
      <4> HIDE DEF built, node
      <4> QED BY <3>1, ResolveMeans
    <3>3. ASSUME built.key \notin DOMAIN r.keys, \A n \in Members(nodes) : n.key # built.key
          PROVE  Fresher(w, built)
      <4>1. \A c \in Members(r.staged) : c.key = built.key => Robbed(w)
        <5> HIDE DEF built
        <5> QED BY <1>5, <2>1, <3>3, UnknownKey
      <4> HIDE DEF built
      <4> QED BY <1>3, <1>4, <3>3, <4>1 DEF Fresher
    <3> HIDE DEF built, node
    <3> QED BY <2>1, <3>2, <3>3
  <2>2. CASE built.key = None \/ e.kind = "preference"
    <3>1. node = built
      BY <2>2
    <3> HIDE DEF built, node
    <3> QED BY <1>3, <1>4, <2>2, <3>1 DEF Fresher
  <2> QED BY <2>1, <2>2
<1> HIDE DEF built, node
<1>7. node \in Node
  BY <1>2, <1>4, <1>6, StoredNode, StagedNode
<1>8. Comes(w, node)
  BY <1>2, <1>6, StoredNode, KeyedNode DEF Comes
<1>9. Fits(w, r)
  BY <1>2, FitsSelf
<1>10. /\ Fits(w, a) /\ node.id \in Ids(a.staged) /\ Ids(r.staged) \subseteq Ids(a.staged)
       /\ \A m \in Members(a.staged) : m = node \/ m \in Members(r.staged)
       /\ a.minted = r.minted /\ a.last = r.last
  BY <1>7, <1>8, <1>9, FitsStage
<1>11. previous \in Ids(a.staged) \cup {None}
  <2>1. node.type \in DOMAIN r.last => r.last[node.type] \in Ids(r.staged)
    BY <1>2 DEF TypeOK
  <2> QED BY <1>10, <2>1
<1> HIDE DEF a, previous
<1>12. Fits(w, b) /\ b.staged = a.staged /\ b.minted = a.minted /\ b.last = a.last
  <2>1. "PRECEDED_BY" \in EdgeTypes
    BY DEF EdgeTypes
  <2> QED BY <1>2, <1>10, <1>11, <2>1, FitsLink
<1> HIDE DEF b
<1>13. /\ Keeps(p) /\ p.todo = b.todo /\ p.staged = b.staged /\ p.links = b.links /\ p.keys = b.keys
       /\ p.last = Assign(b.last, node.type, node.id) /\ p.primary = node.id /\ p.minted = b.minted + 1
  <2>1. Keeps(b)
    BY <1>12 DEF Fits
  <2> QED BY <2>1, PrimaryFields
<1> HIDE DEF p
<1>14. Fits(w, p)
  <2>1. node.type \in NodeTypes
    BY <1>7, NodeFields
  <2>2. \A t \in DOMAIN p.last : t \in NodeTypes /\ p.last[t] \in Ids(p.staged)
    BY <1>10, <1>12, <1>13, <2>1 DEF Fits, Assign
  <2> QED BY <1>12, <1>13, <2>2 DEF Fits
<1>15. p.primary \in Ids(p.staged) /\ p.minted = r.minted + 1
  BY <1>10, <1>12, <1>13
<1>16. r.todo # <<>> /\ Head(r.todo).stage # "exact"
  BY <1>1
<1> QED BY <1>1, <1>14, <1>15, <1>16, GoesOnInv

\* Giving out an id.
LEMMA FitsMinted ==
  ASSUME NEW w \in Writers, NEW p, Fits(w, p), NEW x
  PROVE  LET q == [p EXCEPT !.minted = x]
         IN  Fits(w, q) /\ q.staged = p.staged /\ q.primary = p.primary /\ q.minted = x
<1> DEFINE q == [p EXCEPT !.minted = x]
<1>1. Keeps(p)
  BY DEF Fits
<1>2. /\ Keeps(q) /\ q.todo = p.todo /\ q.staged = p.staged /\ q.links = p.links /\ q.keys = p.keys
      /\ q.last = p.last /\ q.primary = p.primary /\ q.minted = x
  BY <1>1, MintedMeans
<1> HIDE DEF q
<1>3. Fits(w, q)
  BY <1>2 DEF Fits
<1> QED BY <1>2, <1>3 DEF q

LEMMA AnchorInv ==
  ASSUME IInv, NEW w \in Writers, Anchor(w)
  PROVE  Kept
<1> DEFINE r == write[w]
           key == SessionKey(Head(r.todo).event.session)
           stored == FindByNaturalKey(key)
           session == IF key \in DOMAIN r.keys THEN r.keys[key]
                      ELSE IF stored = None THEN None ELSE stored.id
           p == Link(w, r, "BELONGS_TO", r.primary, session)
<1>1. pc[w] = "busy" /\ r.todo # <<>> /\ Head(r.todo).stage = "anchor"
  BY DEF Anchor, At
<1>0. GoesOn(w, p, 1)
  BY Zenon DEF Anchor
<1>2. TypeOK /\ WriteOK(w)
  BY DEF IInv
<1> HIDE DEF p
<1>3. r.primary \in Ids(r.staged)
  BY <1>1, HeadType
<1>4. session \in Ids(r.staged) \cup Ids(nodes) \cup {None}
  <2>1. key \in DOMAIN r.keys => r.keys[key] \in Ids(r.staged)
    BY <1>2 DEF TypeOK
  <2>2. stored # None => stored \in Members(nodes)
    BY <1>2, FindMeans DEF TypeOK, NodesOK
  <2>3. stored # None => stored.id \in Ids(nodes)
    BY <1>2, <2>2, StoredNode
  <2> HIDE DEF stored, key
  <2> QED BY <2>1, <2>3
<1> HIDE DEF session
<1>5. Fits(w, r)
  BY <1>2, FitsSelf
<1> USE DEF p
<1>6. Fits(w, p) /\ p.staged = r.staged /\ p.primary = r.primary /\ p.minted = r.minted
  <2>1. "BELONGS_TO" \in EdgeTypes
    BY DEF EdgeTypes
  <2> QED BY <1>2, <1>3, <1>4, <1>5, <2>1, FitsLink
<1> HIDE DEF p
<1>7. \A n \in Members(p.staged) : n.id = <<w, r.minted + 1>> => p.minted = r.minted + 1
  BY <1>1, <1>6, NoFresh
<1>9. p.primary \in Ids(p.staged) /\ p.minted \in {r.minted, r.minted + 1}
  BY <1>3, <1>6
<1>8. r.todo # <<>> /\ Head(r.todo).stage # "exact"
  BY <1>1
<1>10. Prepared(w, p)
  BY <1>6, <1>7, <1>9 DEF Prepared
<1> QED BY <1>0, <1>1, <1>8, <1>10, OneOnInv

LEMMA SupersedeInv ==
  ASSUME IInv, NEW w \in Writers, Supersede(w)
  PROVE  Kept
<1> DEFINE r == write[w]
           e == Head(r.todo).event
           prior == FindByNaturalKey(KeyOf(e))
           node == [prior EXCEPT !.marks = @ \cup {"superseded"}]
           a == Stage(r, node)
           p == Link(w, a, "SUPERSEDES", r.primary, prior.id)
<1>1. pc[w] = "busy" /\ r.todo # <<>> /\ Head(r.todo).stage = "supersede"
  BY DEF Supersede, At
<1>2. TypeOK /\ WriteOK(w)
  BY DEF IInv
<1>3. r.primary \in Ids(r.staged)
  BY <1>1, HeadType
<1>4. Fits(w, r)
  BY <1>2, FitsSelf
<1>5. r.todo # <<>> /\ Head(r.todo).stage # "exact"
  BY <1>1
<1>6. CASE ~ (prior # None /\ prior.label # e.label)
  <2>1. GoesOn(w, r, 1)
    BY <1>6 DEF Supersede
  <2>2. \A n \in Members(r.staged) : n.id = <<w, r.minted + 1>> => r.minted = r.minted + 1
    BY <1>1, NoFresh
  <2>3. r.minted \in {r.minted, r.minted + 1}
    OBVIOUS
  <2>4. Prepared(w, r)
    BY <1>3, <1>4, <2>2, <2>3 DEF Prepared
  <2> QED BY <1>1, <1>5, <2>1, <2>4, OneOnInv
<1>7. CASE prior # None /\ prior.label # e.label
  <2>1. GoesOn(w, p, 1)
    BY <1>7 DEF Supersede
  <2>2. prior \in Members(nodes) /\ prior.type # "Action"
    <3>1. KeyOf(e) # None
      <4>1. e \in MemoryEvent /\ e.kind = "preference"
        BY <1>1, <1>2, HeadType
      <4> QED BY <4>1, KeyType, MemoryAssumption
    <3>2. prior \in Members(nodes) /\ prior.key = KeyOf(e)
      BY <1>2, <1>7, FindMeans DEF TypeOK, NodesOK
    <3> QED BY <3>1, <3>2, KeyedNode
  <2> HIDE DEF prior
  <2>3. prior \in Node /\ prior.id \in Ids(nodes)
    BY <1>2, <2>2, StoredNode
  <2>4. node \in Node /\ node.id = prior.id /\ Alike(node, prior)
    BY <2>3 DEF Node, Marks, Alike
  <2> HIDE DEF node
  <2>5. Comes(w, node)
    BY <2>2, <2>4 DEF Comes, Alike
  <2>6. /\ Fits(w, a) /\ node.id \in Ids(a.staged) /\ Ids(r.staged) \subseteq Ids(a.staged)
        /\ \A m \in Members(a.staged) : m = node \/ m \in Members(r.staged)
        /\ a.primary = r.primary /\ a.minted = r.minted
    BY <1>4, <2>4, <2>5, FitsStage
  <2> HIDE DEF a
  <2>7. Fits(w, p) /\ p.staged = a.staged /\ p.primary = a.primary /\ p.minted = a.minted
    <3>1. "SUPERSEDES" \in EdgeTypes
      BY DEF EdgeTypes
    <3>2. r.primary \in Ids(a.staged) \cup Ids(nodes) /\ prior.id \in Ids(a.staged) \cup Ids(nodes) \cup {None}
      BY <1>3, <2>3, <2>6
    <3> QED BY <1>2, <2>6, <3>1, <3>2, FitsLink
  <2> HIDE DEF p
  <2>8. \A n \in Members(p.staged) : n.id = <<w, r.minted + 1>> => p.minted = r.minted + 1
    <3>1. prior.id # <<w, r.minted + 1>>
      BY <1>1, <2>2, NoFresh
    <3>2. \A n \in Members(r.staged) : n.id # <<w, r.minted + 1>>
      BY <1>1, NoFresh
    <3> QED BY <2>4, <2>6, <2>7, <3>1, <3>2
  <2>9. p.primary \in Ids(p.staged) /\ p.minted \in {r.minted, r.minted + 1}
    BY <1>3, <2>6, <2>7
  <2>10. Prepared(w, p)
    BY <2>7, <2>8, <2>9 DEF Prepared
  <2> QED BY <1>1, <1>5, <2>1, <2>10, OneOnInv
<1> QED BY <1>6, <1>7

LEMMA RollUpInv ==
  ASSUME IInv, NEW w \in Writers, RollUp(w)
  PROVE  Kept
<1> DEFINE r == write[w]
           d == Head(r.todo).event.domain
           new == NewNode(Fresh(w), "Domain", None, d)
           built == [new EXCEPT !.domain = d]
           node == ResolveByKey(r, DomainKey(d), built)
           a == Stage(r, node)
           b == Link(w, a, "BELONGS_TO", r.primary, node.id)
           p == [b EXCEPT !.minted = b.minted + 1]
<1>1. pc[w] = "busy" /\ r.todo # <<>> /\ Head(r.todo).stage = "domain"
  BY Zenon DEF RollUp, At
<1>0. GoesOn(w, p, 1)
  BY Zenon DEF RollUp
<1>2. TypeOK /\ WriteOK(w)
  BY DEF IInv
<1>3. r.primary \in Ids(r.staged) /\ d \in Domains /\ d \in Names
  BY <1>1, HeadType, MemoryAssumption
<1>4. Fresh(w) = <<w, r.minted + 1>> /\ Fresh(w) \in Id
  BY <1>2, FreshType
<1> HIDE DEF d
<1>5. built \in Node /\ built.id = Fresh(w) /\ built.key = None
  <2>1. "Domain" \in NodeTypes
    BY DEF NodeTypes
  <2>2. new \in Node /\ new.id = Fresh(w) /\ new.key = None
    BY <1>3, <1>4, <2>1, NewNodeType
  <2> HIDE DEF new
  <2> QED BY <1>3, <2>2 DEF Node
<1> HIDE DEF built
<1>6. node \in Members(r.staged) \/ (node \in Members(nodes) /\ node.type # "Action") \/ node = built
  <2>1. DomainKey(d) # None
    BY <1>3, MemoryAssumption DEF DomainKey, Key
  <2> DEFINE key == DomainKey(d)
  <2>2. node = ResolveByKey(r, key, built)
    OBVIOUS
  <2> HIDE DEF key, node
  <2>3. \/ node \in Members(r.staged) \/ (node \in Members(nodes) /\ node.key = key)
        \/ node = built
    BY <2>2, ResolveMeans
  <2> QED BY <2>1, <2>3, KeyedNode DEF key
<1> HIDE DEF node
<1>7. node \in Node
  BY <1>2, <1>5, <1>6, StoredNode, StagedNode
<1>8. Comes(w, node)
  <2>1. Fresher(w, built)
    BY <1>4, <1>5 DEF Fresher, Tagged
  <2> QED BY <1>2, <1>6, <2>1, StoredNode DEF Comes
<1>9. Fits(w, r)
  BY <1>2, FitsSelf
<1>10. /\ Fits(w, a) /\ node.id \in Ids(a.staged) /\ Ids(r.staged) \subseteq Ids(a.staged)
       /\ a.primary = r.primary /\ a.minted = r.minted
  BY <1>7, <1>8, <1>9, FitsStage
<1> HIDE DEF a
<1>11. Fits(w, b) /\ b.staged = a.staged /\ b.primary = a.primary /\ b.minted = a.minted
  <2>1. "BELONGS_TO" \in EdgeTypes
    BY DEF EdgeTypes
  <2>2. r.primary \in Ids(a.staged) \cup Ids(nodes) /\ node.id \in Ids(a.staged) \cup Ids(nodes) \cup {None}
    BY <1>3, <1>10
  <2> QED BY <1>2, <1>10, <2>1, <2>2, FitsLink
<1> HIDE DEF b
<1>12. Fits(w, p) /\ p.staged = b.staged /\ p.primary = b.primary /\ p.minted = b.minted + 1
  BY <1>11, FitsMinted
<1> HIDE DEF p
<1>13. p.primary \in Ids(p.staged) /\ p.minted = r.minted + 1
  BY <1>3, <1>10, <1>11, <1>12
<1>14. r.todo # <<>> /\ Head(r.todo).stage # "exact"
  BY <1>1
<1> QED BY <1>0, <1>1, <1>12, <1>13, <1>14, GoesOnInv

LEMMA EntityKeyType ==
  ASSUME NEW x \in Mention
  PROVE  EntityKey(x) \in Key /\ EntityKey(x) # None /\ EntityKey(x)[1] = "entity"
<1>1. x.sort \in Names /\ x.name \in Names
  BY DEF Mention
<1>2. EntityKey(x) \in Key /\ EntityKey(x)[1] = "entity"
  BY <1>1 DEF EntityKey, Key
<1> QED BY <1>2, MemoryAssumption

LEMMA ResolveEntityInv ==
  ASSUME IInv, NEW w \in Writers, ResolveEntity(w)
  PROVE  Kept
<1> DEFINE r == write[w]
           x == Head(r.todo).entity
           key == EntityKey(x)
           stored == FindByNaturalKey(key)
           known == Link(w, r, "REFERS_TO", r.primary, r.keys[key])
           a == Stage(r, stored)
           found == Link(w, a, "REFERS_TO", r.primary, stored.id)
<1>1. pc[w] = "busy" /\ r.todo # <<>> /\ Head(r.todo).stage = "exact"
  BY Zenon DEF ResolveEntity, At
<1>2. TypeOK /\ WriteOK(w)
  BY DEF IInv
<1>3. r.primary \in Ids(r.staged) /\ x \in Mention
  BY <1>1, HeadType
<1>4. key \in Key /\ key # None
  BY <1>3, EntityKeyType
<1>5. Fits(w, r)
  BY <1>2, FitsSelf
<1>6. \/ stored = None /\ \A n \in Members(nodes) : n.key # key
      \/ stored # None /\ stored \in Members(nodes) /\ stored.key = key
  BY <1>2, FindMeans DEF TypeOK, NodesOK
<1>7. "REFERS_TO" \in EdgeTypes
  BY DEF EdgeTypes
<1>8. r.minted \in {r.minted, r.minted + 1}
  OBVIOUS
<1>9. \A n \in Members(r.staged) : n.id # <<w, r.minted + 1>>
  BY <1>1, NoFresh
<1>10. CASE key \in DOMAIN r.keys
  <2>1. GoesOn(w, known, 2)
    BY Zenon, <1>10 DEF ResolveEntity
  <2>2. r.keys[key] \in Ids(r.staged)
    BY <1>2, <1>10 DEF TypeOK
  <2>3. /\ Fits(w, known) /\ known.staged = r.staged /\ known.primary = r.primary
        /\ known.minted = r.minted
    <3> DEFINE id == r.keys[key]
    <3>1. id \in Ids(r.staged) \cup Ids(nodes) \cup {None}
      BY <2>2
    <3> HIDE DEF id
    <3>2. r.primary \in Ids(r.staged) \cup Ids(nodes)
      BY <1>3
    <3>3. LET q == Link(w, r, "REFERS_TO", r.primary, id)
          IN  /\ Fits(w, q) /\ q.staged = r.staged /\ q.primary = r.primary /\ q.minted = r.minted
      BY ZenonT(30), <1>2, <1>5, <1>7, <3>1, <3>2, FitsLink
    <3>4. known = Link(w, r, "REFERS_TO", r.primary, id)
      BY DEF id
    <3> HIDE DEF known
    <3> QED BY <3>3, <3>4
  <2> HIDE DEF known
  <2>4. Prepared(w, known)
    BY <1>3, <1>8, <1>9, <2>3 DEF Prepared
  <2> QED BY <1>1, <2>1, <2>4, TwoOnInv
<1>11. CASE key \notin DOMAIN r.keys /\ stored # None
  <2>1. GoesOn(w, found, 2)
    BY Zenon, <1>11 DEF ResolveEntity
  <2>2. stored \in Members(nodes) /\ stored.type # "Action"
    BY <1>4, <1>6, <1>11, KeyedNode
  <2> HIDE DEF stored
  <2>3. stored \in Node /\ stored.id \in Ids(nodes) /\ Comes(w, stored)
    BY <1>2, <2>2, StoredNode DEF Comes
  <2>4. /\ Fits(w, a) /\ Ids(r.staged) \subseteq Ids(a.staged)
        /\ \A m \in Members(a.staged) : m = stored \/ m \in Members(r.staged)
        /\ a.primary = r.primary /\ a.minted = r.minted
    BY <1>5, <2>3, FitsStage
  <2> HIDE DEF a
  <2>5. r.primary \in Ids(a.staged) \cup Ids(nodes) /\ stored.id \in Ids(a.staged) \cup Ids(nodes) \cup {None}
    BY <1>3, <2>3, <2>4
  <2>6. /\ Fits(w, found) /\ found.staged = a.staged /\ found.primary = a.primary
        /\ found.minted = a.minted
    BY <1>2, <1>7, <2>4, <2>5, FitsLink
  <2> HIDE DEF found
  <2>7. stored.id # <<w, r.minted + 1>>
    BY <1>1, <2>2, NoFresh
  <2>8. \A n \in Members(found.staged) : n.id = <<w, r.minted + 1>> => found.minted = r.minted + 1
    BY <1>9, <2>4, <2>6, <2>7
  <2>9. found.primary \in Ids(found.staged) /\ found.minted \in {r.minted, r.minted + 1}
    BY <1>3, <2>4, <2>6
  <2>10. Prepared(w, found)
    BY <2>6, <2>8, <2>9 DEF Prepared
  <2> QED BY <1>1, <2>1, <2>10, TwoOnInv
<1>12. CASE key \notin DOMAIN r.keys /\ stored = None
  <2>1. GoesOn(w, r, 1)
    BY Zenon, <1>12 DEF ResolveEntity
  <2>2. \A n \in Members(nodes) : n.key # key
    BY <1>6, <1>12
  <2>3. \A c \in Members(r.staged) : c.key = key => Robbed(w)
    <3> HIDE DEF key
    <3> QED BY <1>4, <1>12, <2>2, UnknownKey
  <2>4. Prepared(w, r)
    BY <1>3, <1>5, <1>8, <1>9 DEF Prepared
  <2> QED BY <1>1, <2>1, <2>2, <2>3, <2>4, MissedInv
<1> QED BY <1>10, <1>11, <1>12

LEMMA CoreferInv ==
  ASSUME IInv, NEW w \in Writers, Corefer(w)
  PROVE  Kept
<1> DEFINE r == write[w]
           x == Head(r.todo).entity
           key == EntityKey(x)
           entities == {i \in DOMAIN nodes : nodes[i].type = "Entity" /\ nodes[i].sort = x.sort}
           twins == {i \in entities : nodes[i].label = x.label}
           twin == FirstOf(nodes, twins)
           built == [NewNode(Fresh(w), "Entity", key, x.label) EXCEPT !.sort = x.sort, !.marks = {"embedded"}]
           close == {i \in entities : <<nodes[i].label, x.label>> \in Related}
           made == Link(w, Stage(r, built), "REFERS_TO", r.primary, built.id)
           known == Link(w, r, "REFERS_TO", r.primary, twin.id)
<1>1. pc[w] = "busy" /\ r.todo # <<>> /\ Head(r.todo).stage = "similar"
  BY Zenon DEF Corefer, At
<1>2. TypeOK /\ WriteOK(w) /\ KeysOK(w)
  BY DEF IInv
<1>3. r.primary \in Ids(r.staged) /\ x \in Mention
  BY <1>1, HeadType
<1>4. key \in Key /\ key # None /\ key[1] = "entity"
  BY <1>3, EntityKeyType
<1>5. Fits(w, r)
  BY <1>2, FitsSelf
<1>6. "REFERS_TO" \in EdgeTypes /\ "SIMILAR_TO" \in EdgeTypes
  BY DEF EdgeTypes
<1>7. \A n \in Members(r.staged) : n.id # <<w, r.minted + 1>>
  BY <1>1, NoFresh
<1>8. r.todo # <<>> /\ Head(r.todo).stage # "exact"
  BY <1>1
<1>9. twin # None => twin \in Members(nodes) /\ twin.type = "Entity"
  <2>1. twins \in SUBSET DOMAIN nodes /\ \A i \in twins : nodes[i].type = "Entity"
    OBVIOUS
  <2> HIDE DEF twins
  <2>2. \/ twins = {} /\ twin = None
        \/ \E i \in twins : twin = nodes[i]
    BY <1>2, <2>1, FirstOfMeans DEF TypeOK, NodesOK
  <2> HIDE DEF twin
  <2> QED BY <2>1, <2>2 DEF Members
<1>10. CASE twin # None
  <2> DEFINE s == [known EXCEPT !.staged = Put(known.staged, twin)]
             m == [s EXCEPT !.minted = known.minted + 1]
             p == [m EXCEPT !.keys = Assign(known.keys, key, twin.id)]
  <2>1. GoesOn(w, p, 1)
    BY Zenon, <1>10 DEF Corefer
  <2> HIDE DEF twin, key
  <2>2. /\ twin \in Node /\ twin.id \in Ids(nodes) /\ twin.type # "Action"
        /\ \E n \in Members(nodes) : n.id = twin.id /\ Alike(twin, n)
    BY <1>2, <1>9, <1>10, StoredNode
  <2>3. /\ Fits(w, known) /\ known.staged = r.staged /\ known.primary = r.primary /\ known.minted = r.minted
    <3>1. r.primary \in Ids(r.staged) \cup Ids(nodes) /\ twin.id \in Ids(r.staged) \cup Ids(nodes) \cup {None}
      BY <1>3, <2>2
    <3> QED BY ZenonT(30), <1>2, <1>5, <1>6, <3>1, FitsLink
  <2> HIDE DEF known
  <2>4. /\ Fits(w, s) /\ twin.id \in Ids(s.staged) /\ Ids(known.staged) \subseteq Ids(s.staged)
        /\ \A n \in Members(s.staged) : n = twin \/ n \in Members(known.staged)
    <3>1. Source(w, known.keys, twin)
      BY <2>2 DEF Source
    <3> QED BY <2>2, <2>3, <3>1, FitsPut
  <2>5. s.primary = known.primary /\ s.keys = known.keys
    BY <2>3, StagedMeans DEF Fits
  <2> HIDE DEF s
  <2>6. Fits(w, m) /\ m.staged = s.staged /\ m.primary = s.primary /\ m.minted = known.minted + 1
    BY <2>4, FitsMinted
  <2>7. m.keys = known.keys
    BY <2>4, <2>5, MintedMeans DEF Fits
  <2> HIDE DEF m
  <2>8. p = [m EXCEPT !.keys = Assign(m.keys, key, twin.id)]
    BY <2>7
  <2> HIDE DEF p
  <2>9. Fits(w, p) /\ p.staged = m.staged
    <3>1. twin.id \in Ids(m.staged)
      BY <2>4, <2>6
    <3> QED BY <1>4, <2>6, <2>8, <3>1, FitsAssign
  <2>10. p.primary = m.primary /\ p.minted = m.minted
    BY <2>6, <2>8, KeysMeans DEF Fits
  <2>11. p.primary \in Ids(p.staged) /\ p.minted = r.minted + 1
    BY <1>3, <2>3, <2>4, <2>5, <2>6, <2>9, <2>10
  <2>12. Prepared(w, p)
    BY <2>9, <2>11 DEF Prepared
  <2> QED BY <1>1, <1>8, <2>1, <2>12, OneOnInv
<1>11. CASE twin = None
  <2> DEFINE similar == {[type |-> "SIMILAR_TO", from |-> built.id, to |-> nodes[i].id, by |-> w] : i \in close}
             a == Stage(r, built)
             m == [made EXCEPT !.minted = made.minted + 1]
             p == [m EXCEPT !.links = made.links \cup similar]
  <2>1. GoesOn(w, p, 1)
    BY Zenon, <1>11 DEF Corefer
  <2>2. Fresh(w) = <<w, r.minted + 1>> /\ Fresh(w) \in Id
    BY <1>2, FreshType
  <2> HIDE DEF key
  <2>3. built \in Node /\ built.id = Fresh(w) /\ built.key = key /\ built.type = "Entity"
    <3> DEFINE new == NewNode(Fresh(w), "Entity", key, x.label)
               n == [new EXCEPT !.sort = x.sort]
    <3>1. x.label \in Names /\ x.sort \in Names /\ "Entity" \in NodeTypes /\ "embedded" \in Marks
      BY <1>3 DEF Mention, NodeTypes, Marks
    <3>2. new \in Node /\ new.id = Fresh(w) /\ new.key = key /\ new.type = "Entity"
      BY <1>4, <2>2, <3>1, NewNodeType
    <3>3. built = [n EXCEPT !.marks = {"embedded"}]
      BY Zenon
    <3> HIDE DEF new, built, x
    <3>4. n \in Node /\ n.id = Fresh(w) /\ n.key = key /\ n.type = "Entity"
      BY <3>1, <3>2 DEF Node
    <3> HIDE DEF n
    <3> QED BY <3>1, <3>3, <3>4 DEF Node
  <2> HIDE DEF built
  <2>4. Comes(w, built)
    <3>1. Heads(w, "similar")
      BY <1>1 DEF Heads
    <3>2. /\ \A n \in Members(nodes) : n.key = key => Late(w, n)
          /\ \A c \in Members(r.staged) : c.key = key => Robbed(w)
      BY <1>2, <3>1 DEF KeysOK, key
    <3>3. Tagged(built)
      BY <1>4, <2>3 DEF Tagged
    <3>4. Fresher(w, built)
      BY <2>2, <2>3, <3>2, <3>3 DEF Fresher
    <3> QED BY <3>4 DEF Comes
  <2>5. /\ Fits(w, a) /\ built.id \in Ids(a.staged) /\ Ids(r.staged) \subseteq Ids(a.staged)
        /\ a.primary = r.primary /\ a.minted = r.minted
    BY <1>5, <2>3, <2>4, FitsStage
  <2>6. Fits(w, made) /\ made.staged = a.staged /\ made.primary = a.primary /\ made.minted = a.minted
    <3> HIDE DEF a
    <3>1. r.primary \in Ids(a.staged) \cup Ids(nodes) /\ built.id \in Ids(a.staged) \cup Ids(nodes) \cup {None}
      BY <1>3, <2>5
    <3>2. LET q == Link(w, a, "REFERS_TO", r.primary, built.id)
          IN  /\ Fits(w, q) /\ q.staged = a.staged /\ q.primary = a.primary /\ q.minted = a.minted
      BY ZenonT(30), <1>2, <1>6, <2>5, <3>1, FitsLink
    <3> QED BY <3>2 DEF a
  <2> HIDE DEF a, made
  <2>7. /\ Fits(w, m) /\ m.staged = made.staged /\ m.primary = made.primary
        /\ m.minted = made.minted + 1
    BY <2>6, FitsMinted
  <2>8. m.links = made.links
    BY <2>6, MintedMeans DEF Fits
  <2> HIDE DEF m
  <2>9. \A e \in similar : e \in Edge /\ e.by = w /\ e.type = "SIMILAR_TO" /\ e.from = built.id /\ e.to \in Ids(nodes)
    <3>1. close \subseteq DOMAIN nodes
      OBVIOUS
    <3> HIDE DEF close
    <3>2. \A i \in close : nodes[i].id \in Ids(nodes) /\ nodes[i].id \in Id
      <4>1. \A i \in close : nodes[i].id \in Ids(nodes)
        BY <3>1 DEF Ids
      <4>2. Ids(nodes) \subseteq Id
        BY <1>2, IdsType DEF TypeOK, NodesOK
      <4> QED BY <4>1, <4>2
    <3>3. built.id \in Id
      BY <2>2, <2>3
    <3> QED BY <1>6, <3>2, <3>3 DEF Edge
  <2> HIDE DEF similar
  <2>10. Fits(w, p) /\ p.staged = m.staged /\ p.primary = m.primary /\ p.minted = m.minted
    <3> DEFINE links == made.links \cup similar
    <3>1. links \in SUBSET Edge
      BY <2>6, <2>9 DEF Fits
    <3>2. \A e \in links : e \in m.links
            \/ (e.by = w /\ e.type # "DERIVED_FROM"
               /\ e.from \in Ids(m.staged) \cup Ids(nodes) /\ e.to \in Ids(m.staged) \cup Ids(nodes))
      BY <2>5, <2>6, <2>7, <2>8, <2>9
    <3> HIDE DEF links
    <3>3. LET q == [m EXCEPT !.links = links]
          IN  Fits(w, q) /\ q.staged = m.staged /\ q.primary = m.primary /\ q.minted = m.minted
      BY <2>7, <3>1, <3>2, FitsLinks
    <3> QED BY <3>3 DEF links
  <2> HIDE DEF p
  <2>11. p.primary \in Ids(p.staged) /\ p.minted = r.minted + 1
    BY <1>3, <2>5, <2>6, <2>7, <2>10
  <2>12. Prepared(w, p)
    BY <2>10, <2>11 DEF Prepared
  <2> QED BY <1>1, <1>8, <2>1, <2>12, OneOnInv
<1> QED BY <1>10, <1>11
-----------------------------------------------------------------------------
(* Flows begin and end                                                     *)

\* A flow that has not ended begins, goes on or ends.
Moves(f, s) ==
  /\ pc' = [pc EXCEPT ![f] = s]
  /\ \/ pc[f] = "idle" /\ before' = [before EXCEPT ![f] = Ended]
     \/ pc[f] = "busy" /\ before' = before

LEMMA MovesOn ==
  ASSUME TypeOK, HistoryOK, NEW f \in Flows, NEW s \in {"busy", "done"}, Moves(f, s)
  PROVE  /\ \A g \in Flows : pc[g] # "idle" => pc'[g] # "idle" /\ before'[g] = before[g]
         /\ \A g \in Flows \ {f} : pc'[g] = pc[g] /\ before'[g] = before[g]
         /\ pc'[f] = s /\ Ended \subseteq Ended'
         /\ pc' \in [Flows -> {"idle", "busy", "done"}] /\ before' \in [Flows -> SUBSET Flows]
         /\ \A g \in Flows : before'[g] \subseteq Ended'
<1>1. pc \in [Flows -> {"idle", "busy", "done"}] /\ before \in [Flows -> SUBSET Flows]
  BY DEF TypeOK
<1>2. Ended \subseteq Flows /\ \A g \in Flows : before[g] \subseteq Ended
  BY DEF HistoryOK, Ended
<1>3. /\ \A g \in Flows \ {f} : pc'[g] = pc[g] /\ before'[g] = before[g]
      /\ pc'[f] = s /\ pc[f] # "done"
      /\ pc[f] # "idle" => before'[f] = before[f]
      /\ pc[f] = "idle" => before'[f] = Ended
  BY <1>1, <1>2 DEF Moves
<1>4. pc' \in [Flows -> {"idle", "busy", "done"}]
  BY <1>1 DEF Moves
<1>5. before' \in [Flows -> SUBSET Flows]
  BY <1>1, <1>2 DEF Moves
<1>6. Ended \subseteq Ended'
  BY <1>3 DEF Ended
<1>7. \A g \in Flows : before'[g] \subseteq Ended'
  BY <1>2, <1>3, <1>6
<1>8. \A g \in Flows : pc[g] # "idle" => pc'[g] # "idle" /\ before'[g] = before[g]
  BY <1>3
<1> QED BY <1>3, <1>4, <1>5, <1>6, <1>7, <1>8

\* What a write sees of a step that leaves the nodes alone.
LEMMA AloneOutside ==
  ASSUME NEW v \in Writers, UNCHANGED <<nodes, gone>>, write'[v] = write[v], pc'[v] = pc[v]
  PROVE  Outside(v)
BY AloneSees DEF Outside

LEMMA AloneForget ==
  ASSUME IInv, NEW g \in Forgets, Ended \subseteq Ended', UNCHANGED <<nodes, origin>>,
         forget'[g] = forget[g], pc'[g] = pc[g]
  PROVE  ForgetOK(g)'
<1>1. nodes' = nodes /\ origin' = origin
  OBVIOUS
<1>2. ForgetOK(g)
  BY DEF IInv
<1> QED BY <1>1, <1>2 DEF ForgetOK, NoForget

\* The rest of the invariant when the nodes are left alone.
LEMMA AloneInv ==
  ASSUME IInv, TypeOK', Ended \subseteq Ended', UNCHANGED <<nodes, origin, makers, gone, forgot>>,
         edges' \subseteq edges,
         \A g \in Flows : pc[g] # "idle" => pc'[g] # "idle" /\ before'[g] = before[g],
         \A g \in Flows : before'[g] \subseteq Ended',
         \A j \in Jobs : pc[j] = "busy" => pc'[j] \in {"busy", "done"},
         \A v \in Writers : (write'[v] = write[v] /\ pc'[v] = pc[v])
           \/ (write'[v].staged = <<>> /\ WriteOK(v)' /\ KeysOK(v)'),
         \A g \in Forgets : (forget'[g] = forget[g] /\ pc'[g] = pc[g]) \/ ForgetOK(g)'
  PROVE  Kept
<1>1. /\ nodes' = nodes /\ origin' = origin /\ makers' = makers /\ gone' = gone /\ forgot' = forgot
      /\ edges' \subseteq edges
  OBVIOUS
<1>2. Forward
  BY <1>1 DEF Forward
<1>3. TypeOK /\ HistoryOK /\ CopiesOK /\ OneNodePerKey /\ CascadeHolds /\ ForgottenStays
  BY DEF IInv
<1>4. UNCHANGED <<nodes, gone>> /\ UNCHANGED <<nodes, origin>>
  OBVIOUS
<1>5. ASSUME NEW v \in Writers PROVE WriteOK(v)' /\ KeysOK(v)'
  <2>1. CASE write'[v] = write[v] /\ pc'[v] = pc[v]
    <3>1. Outside(v)
      BY <1>4, <2>1, AloneOutside
    <3>2. WriteOK(v) /\ KeysOK(v)
      BY DEF IInv
    <3> QED BY <1>2, <1>3, <3>1, <3>2, OutsideWrite, OutsideKeys
  <2> QED BY <2>1
<1>6. ASSUME NEW g \in Forgets PROVE ForgetOK(g)'
  BY <1>4, AloneForget
<1>7. HistoryOK'
  <2>1. \A d \in Domains : forgot'[d] \subseteq Ended'
    BY <1>1, <1>3 DEF HistoryOK
  <2>2. Stores \subseteq Stores'
    BY StoresStay
  <2> QED BY <1>1, <1>3, <2>1, <2>2 DEF HistoryOK
<1>8. CopiesOK' /\ Traced
  <2>1. \A v \in Writers : Members(write'[v].staged) \subseteq Members(write[v].staged)
    BY DEF Members
  <2>2. Known' \subseteq Known
    BY <1>1, <2>1 DEF Known
  <2>3. Traced
    BY <2>2 DEF Traced, Alike
  <2> QED BY <1>3, <2>2, <2>3 DEF CopiesOK
<1>9. OneNodePerKey'
  <2>1. \A n \in Members(nodes') : \E m \in Members(nodes) : m.id = n.id /\ Alike(n, m)
    BY <1>1 DEF Alike
  <2> QED BY <1>2, <1>3, <2>1, NodesKeepKeys
<1>10. CascadeHolds' /\ ForgottenStays'
  BY <1>1, <1>3 DEF CascadeHolds, ForgottenStays
<1>11. \A j \in Jobs : Sees(j)
  BY <1>4, AloneSees
<1>12. IInv'
  BY <1>5, <1>6, <1>7, <1>8, <1>9, <1>10 DEF IInv
<1> QED BY <1>1, <1>2, <1>8, <1>11, <1>12 DEF Kept

\* The parts of the types.
StoreType ==
  /\ NodesOK(nodes) /\ edges \subseteq Edge
  /\ origin \in [Ids(nodes) -> Flows]
  /\ Ids(nodes) \subseteq DOMAIN makers /\ DOMAIN makers \subseteq Id
  /\ \A id \in DOMAIN makers : makers[id] \subseteq Flows
  /\ DOMAIN gone \subseteq Id /\ \A id \in DOMAIN gone : gone[id] \subseteq Flows

WriteType(w) ==
  /\ NodesOK(write[w].staged) /\ write[w].links \subseteq Edge /\ write[w].minted \in Nat
  /\ \A k \in DOMAIN write[w].keys : k \in Key /\ write[w].keys[k] \in Ids(write[w].staged)
  /\ \A t \in DOMAIN write[w].last : t \in NodeTypes /\ write[w].last[t] \in Ids(write[w].staged)

ForgetType(g) ==
  /\ forget[g].ids \subseteq Id /\ forget[g].listed \subseteq Flows
  /\ forget[g].domain \in Domains \cup {None} /\ forget[g].found \in BOOLEAN

LEMMA Types ==
  TypeOK <=>
    /\ StoreType /\ paused \in BOOLEAN
    /\ pc \in [Flows -> {"idle", "busy", "done"}] /\ before \in [Flows -> SUBSET Flows]
    /\ forgot \in [Domains -> SUBSET Flows]
    /\ DOMAIN write = Writers /\ DOMAIN forget = Forgets
    /\ \A w \in Writers : WriteType(w)
    /\ \A g \in Forgets : ForgetType(g)
BY DEF TypeOK, StoreType, WriteType, ForgetType

LEMMA TypesNext ==
  TypeOK' <=>
    /\ StoreType' /\ paused' \in BOOLEAN
    /\ pc' \in [Flows -> {"idle", "busy", "done"}] /\ before' \in [Flows -> SUBSET Flows]
    /\ forgot' \in [Domains -> SUBSET Flows]
    /\ DOMAIN write' = Writers /\ DOMAIN forget' = Forgets
    /\ \A w \in Writers : WriteType(w)'
    /\ \A g \in Forgets : ForgetType(g)'
BY DEF TypeOK, StoreType, WriteType, ForgetType

LEMMA StoreTypeAlone ==
  ASSUME StoreType, UNCHANGED <<nodes, origin, makers, gone>>, edges' \subseteq edges
  PROVE  StoreType'
<1>1. nodes' = nodes /\ edges' \subseteq edges /\ origin' = origin /\ makers' = makers /\ gone' = gone
  OBVIOUS
<1> QED BY <1>1 DEF StoreType

\* A write that has made no call yet.
LEMMA BegunWrite ==
  ASSUME NEW w, NEW s \in Begun, write'[w] = [NoWrite EXCEPT !.todo = s]
  PROVE  WriteType(w)' /\ write'[w].staged = <<>> /\ (pc'[w] = "busy" => WriteOK(w)' /\ KeysOK(w)')
<1> DEFINE r == [todo |-> s, staged |-> <<>>, links |-> {}, keys |-> <<>>, last |-> <<>>,
                 primary |-> None, minted |-> 0]
<1>1. write'[w] = r
  BY DEF NoWrite
<1>2. /\ s \in Seq(Calling) /\ Chained(s)
      /\ s # <<>> => Head(s).stage = "primary"
  BY DEF Begun, Whole
<1>3. /\ Keeps(r) /\ r.todo = s /\ r.staged = <<>> /\ r.links = {} /\ r.primary = None /\ r.minted = 0
      /\ r.keys = <<>> /\ r.last = <<>>
  BY DEF Keeps
<1> HIDE DEF r
<1>4. NodesOK(<<>>) /\ Members(<<>>) = {} /\ Members(r.staged) = {}
  BY <1>3 DEF NodesOK, Distinct, Members
<1>5. WriteType(w)'
  <2>1. /\ write'[w].staged = <<>> /\ write'[w].links = {} /\ write'[w].minted = 0
        /\ write'[w].keys = <<>> /\ write'[w].last = <<>>
    BY <1>1, <1>3
  <2>2. DOMAIN write'[w].keys = {} /\ DOMAIN write'[w].last = {}
    BY <2>1
  <2> QED BY <1>4, <2>1, <2>2 DEF WriteType
<1>6. ASSUME pc'[w] = "busy" PROVE WriteOK(w)'
  BY <1>1, <1>2, <1>3, <1>4, <1>6 DEF WriteOK, Heads
<1>7. KeysOK(w)'
  BY <1>1, <1>2, <1>3, <1>4 DEF KeysOK, Heads
<1> QED BY <1>1, <1>3, <1>5, <1>6, <1>7

LEMMA QuietType ==
  ASSUME NEW w, write'[w] = NoWrite
  PROVE  WriteType(w)' /\ write'[w].staged = <<>>
<1>1. /\ write'[w].staged = <<>> /\ write'[w].links = {} /\ write'[w].minted = 0
      /\ write'[w].keys = <<>> /\ write'[w].last = <<>>
  BY DEF NoWrite
<1>2. NodesOK(<<>>) /\ DOMAIN write'[w].keys = {} /\ DOMAIN write'[w].last = {}
  BY <1>1 DEF NodesOK, Distinct
<1> QED BY <1>1, <1>2 DEF WriteType

LEMMA RecordEventsInv ==
  ASSUME IInv, NEW w \in Writers, RecordEvents(w)
  PROVE  Kept
<1>1. TypeOK /\ HistoryOK /\ WriteOK(w)
  BY DEF IInv
<1>2. pc[w] = "idle" /\ before' = [before EXCEPT ![w] = Ended]
  BY DEF RecordEvents, Begin
<1>3. /\ UNCHANGED <<nodes, origin, makers, gone, forgot>> /\ UNCHANGED <<nodes, origin, makers, gone>>
      /\ edges' \subseteq edges /\ paused' = paused /\ forget' = forget /\ forgot' = forgot
  BY DEF RecordEvents, store
<1>4. w \in Flows /\ w \notin Forgets
  BY MemoryAssumption DEF Flows
<1>5. /\ DOMAIN write = Writers /\ write[w] = NoWrite
  BY <1>1, <1>2 DEF TypeOK, WriteOK
<1>6. \E s \in {"busy", "done"} :
        /\ Moves(w, s) /\ DOMAIN write' = Writers /\ \A v \in Writers \ {w} : write'[v] = write[v]
        /\ WriteType(w)' /\ write'[w].staged = <<>> /\ (pc'[w] = s => WriteOK(w)' /\ KeysOK(w)')
  <2>1. PICK batch \in Batches :
          IF paused
          THEN pc' = [pc EXCEPT ![w] = "done"] /\ UNCHANGED write
          ELSE /\ pc' = [pc EXCEPT ![w] = "busy"]
               /\ write' = [write EXCEPT ![w] = [NoWrite EXCEPT !.todo = Calls(batch)]]
    BY DEF RecordEvents
  <2>2. CASE paused
    <3>1. Moves(w, "done")
      BY <1>2, <2>1, <2>2 DEF Moves
    <3>2. write' = write /\ write'[w] = NoWrite
      BY <1>5, <2>1, <2>2
    <3> QED BY <1>5, <3>1, <3>2, QuietType, QuietWriteNext
  <2>3. CASE ~ paused
    <3> DEFINE s == Calls(batch)
    <3>1. s \in Begun
      BY CallsType
    <3> HIDE DEF s
    <3>2. write' = [write EXCEPT ![w] = [NoWrite EXCEPT !.todo = s]] /\ pc' = [pc EXCEPT ![w] = "busy"]
      BY <2>1, <2>3 DEF s
    <3>3. Moves(w, "busy")
      BY <1>2, <3>2 DEF Moves
    <3>4. /\ DOMAIN write' = Writers /\ \A v \in Writers \ {w} : write'[v] = write[v]
          /\ write'[w] = [NoWrite EXCEPT !.todo = s]
      BY <1>5, <3>2
    <3>5. WriteType(w)' /\ write'[w].staged = <<>> /\ (pc'[w] = "busy" => WriteOK(w)' /\ KeysOK(w)')
      BY <3>1, <3>4, BegunWrite
    <3> QED BY <3>3, <3>4, <3>5
  <2> QED BY <2>2, <2>3
<1>7. PICK s \in {"busy", "done"} :
        /\ Moves(w, s) /\ DOMAIN write' = Writers /\ \A v \in Writers \ {w} : write'[v] = write[v]
        /\ WriteType(w)' /\ write'[w].staged = <<>> /\ (pc'[w] = s => WriteOK(w)' /\ KeysOK(w)')
  BY <1>6
<1>8. /\ \A g \in Flows : pc[g] # "idle" => pc'[g] # "idle" /\ before'[g] = before[g]
      /\ \A g \in Flows \ {w} : pc'[g] = pc[g] /\ before'[g] = before[g]
      /\ pc'[w] = s /\ Ended \subseteq Ended'
      /\ pc' \in [Flows -> {"idle", "busy", "done"}] /\ before' \in [Flows -> SUBSET Flows]
      /\ \A g \in Flows : before'[g] \subseteq Ended'
  BY <1>1, <1>4, <1>7, MovesOn
<1>9. TypeOK'
  <2>1. \A v \in Writers : WriteType(v)'
    BY <1>1, <1>7, Types DEF WriteType
  <2>2. \A g \in Forgets : ForgetType(g)'
    BY <1>1, <1>3, Types DEF ForgetType
  <2>3. StoreType'
    BY <1>1, <1>3, Types, StoreTypeAlone
  <2> QED BY <1>1, <1>3, <1>7, <1>8, <2>1, <2>2, <2>3, Types, TypesNext
<1>10. \A v \in Writers : (write'[v] = write[v] /\ pc'[v] = pc[v])
         \/ (write'[v].staged = <<>> /\ WriteOK(v)' /\ KeysOK(v)')
  BY <1>4, <1>7, <1>8 DEF Flows
<1>11. \A g \in Forgets : (forget'[g] = forget[g] /\ pc'[g] = pc[g]) \/ ForgetOK(g)'
  BY <1>3, <1>4, <1>8 DEF Flows
<1>12. \A j \in Jobs : pc[j] = "busy" => pc'[j] \in {"busy", "done"}
  BY <1>8, MemoryAssumption DEF Flows
<1> QED BY <1>3, <1>8, <1>9, <1>10, <1>11, <1>12, AloneInv

LEMMA WriteFailsInv ==
  ASSUME IInv, NEW w \in Writers, WriteFails(w)
  PROVE  Kept
<1>1. TypeOK /\ HistoryOK
  BY DEF IInv
<1>2. /\ UNCHANGED <<nodes, origin, makers, gone, forgot>> /\ UNCHANGED <<nodes, origin, makers, gone>>
      /\ edges' \subseteq edges /\ paused' = paused /\ forget' = forget /\ forgot' = forgot
  BY DEF WriteFails, store
<1>3. w \in Flows /\ w \notin Forgets
  BY MemoryAssumption DEF Flows
<1>4. Moves(w, "done")
  BY DEF WriteFails, Moves
<1>5. /\ DOMAIN write' = Writers /\ \A v \in Writers \ {w} : write'[v] = write[v]
      /\ write'[w] = NoWrite
  BY <1>1 DEF WriteFails, TypeOK
<1>6. WriteType(w)' /\ write'[w].staged = <<>> /\ WriteOK(w)' /\ KeysOK(w)'
  BY <1>5, QuietType, QuietWriteNext
<1>7. /\ \A g \in Flows : pc[g] # "idle" => pc'[g] # "idle" /\ before'[g] = before[g]
      /\ \A g \in Flows \ {w} : pc'[g] = pc[g] /\ before'[g] = before[g]
      /\ Ended \subseteq Ended'
      /\ pc' \in [Flows -> {"idle", "busy", "done"}] /\ before' \in [Flows -> SUBSET Flows]
      /\ \A g \in Flows : before'[g] \subseteq Ended'
  BY <1>1, <1>3, <1>4, MovesOn
<1>8. TypeOK'
  <2>1. \A v \in Writers : WriteType(v)'
    BY <1>1, <1>5, <1>6, Types DEF WriteType
  <2>2. \A g \in Forgets : ForgetType(g)'
    BY <1>1, <1>2, Types DEF ForgetType
  <2>3. StoreType'
    BY <1>1, <1>2, Types, StoreTypeAlone
  <2> QED BY <1>1, <1>2, <1>5, <1>7, <2>1, <2>2, <2>3, Types, TypesNext
<1>9. \A v \in Writers : (write'[v] = write[v] /\ pc'[v] = pc[v])
        \/ (write'[v].staged = <<>> /\ WriteOK(v)' /\ KeysOK(v)')
  BY <1>5, <1>6, <1>7 DEF Flows
<1>10. \A g \in Forgets : (forget'[g] = forget[g] /\ pc'[g] = pc[g]) \/ ForgetOK(g)'
  BY <1>2, <1>3, <1>7 DEF Flows
<1>11. \A j \in Jobs : pc[j] = "busy" => pc'[j] \in {"busy", "done"}
  BY <1>7, MemoryAssumption DEF Flows
<1> QED BY <1>2, <1>7, <1>8, <1>9, <1>10, <1>11, AloneInv

-----------------------------------------------------------------------------
(* Requests to forget that leave the nodes alone                           *)

LEMMA ForgetsInv ==
  ASSUME IInv, NEW g \in Forgets, NEW s \in {"busy", "done"}, Moves(g, s),
         UNCHANGED <<nodes, origin, makers, gone, forgot>>, UNCHANGED <<paused, write>>,
         edges' \subseteq edges, DOMAIN forget' = Forgets,
         \A h \in Forgets \ {g} : forget'[h] = forget[h],
         Ended \subseteq Ended' /\ pc'[g] = s => ForgetOK(g)'
  PROVE  Kept
<1>1. TypeOK /\ HistoryOK
  BY DEF IInv
<1>2. /\ UNCHANGED <<nodes, origin, makers, gone>> /\ edges' \subseteq edges /\ paused' = paused
      /\ write' = write /\ forgot' = forgot
  OBVIOUS
<1>3. g \in Flows /\ g \notin Writers
  BY MemoryAssumption DEF Flows
<1>4. /\ \A h \in Flows : pc[h] # "idle" => pc'[h] # "idle" /\ before'[h] = before[h]
      /\ \A h \in Flows \ {g} : pc'[h] = pc[h] /\ before'[h] = before[h]
      /\ pc'[g] = s /\ Ended \subseteq Ended'
      /\ pc' \in [Flows -> {"idle", "busy", "done"}] /\ before' \in [Flows -> SUBSET Flows]
      /\ \A h \in Flows : before'[h] \subseteq Ended'
  BY <1>1, <1>3, MovesOn
<1>5. ForgetOK(g)'
  BY <1>4
<1>6. TypeOK'
  <2>1. \A v \in Writers : WriteType(v)'
    BY <1>1, <1>2, Types DEF WriteType
  <2>2. \A h \in Forgets : ForgetType(h)'
    <3>1. ForgetType(g)'
      BY <1>5 DEF ForgetOK, ForgetType
    <3>2. \A h \in Forgets \ {g} : ForgetType(h)'
      BY <1>1, Types DEF ForgetType
    <3> QED BY <3>1, <3>2
  <2>3. StoreType'
    BY <1>1, <1>2, Types, StoreTypeAlone
  <2>4. DOMAIN write' = Writers
    BY <1>1, <1>2, Types
  <2> QED BY <1>1, <1>2, <1>4, <2>1, <2>2, <2>3, <2>4, Types, TypesNext
<1>7. \A v \in Writers : (write'[v] = write[v] /\ pc'[v] = pc[v])
        \/ (write'[v].staged = <<>> /\ WriteOK(v)' /\ KeysOK(v)')
  BY <1>2, <1>3, <1>4 DEF Flows
<1>8. \A h \in Forgets : (forget'[h] = forget[h] /\ pc'[h] = pc[h]) \/ ForgetOK(h)'
  BY <1>4, <1>5 DEF Flows
<1>9. \A j \in Jobs : pc[j] = "busy" => pc'[j] \in {"busy", "done"}
  BY <1>4, MemoryAssumption DEF Flows
<1> QED BY <1>2, <1>4, <1>6, <1>7, <1>8, <1>9, AloneInv

LEMMA NoForgetOK ==
  ASSUME NEW g, forget'[g] = NoForget
  PROVE  ForgetOK(g)'
BY DEF ForgetOK, NoForget

LEMMA ForgetEdgeInv ==
  ASSUME IInv, NEW g \in Forgets, ForgetEdge(g)
  PROVE  Kept
<1>1. Moves(g, "done")
  BY DEF ForgetEdge, Ends, Begin, Moves
<1>2. /\ UNCHANGED <<nodes, origin, makers, gone, forgot>> /\ UNCHANGED <<paused, write>>
      /\ edges' \subseteq edges
  BY DEF ForgetEdge, Ends
<1>3. /\ DOMAIN forget' = Forgets /\ \A h \in Forgets \ {g} : forget'[h] = forget[h]
      /\ forget'[g] = NoForget
  BY DEF IInv, TypeOK, ForgetEdge, Ends
<1>4. ForgetOK(g)'
  BY <1>3, NoForgetOK
<1> QED BY <1>1, <1>2, <1>3, <1>4, ForgetsInv

LEMMA ListsInv ==
  ASSUME IInv, NEW g \in Forgets, NEW domain \in Domains \cup {None}, NEW ids \in SUBSET Id,
         NEW found \in BOOLEAN,
         domain # None => \A n \in Members(nodes) : n.domain = domain => n.id \in ids,
         Lists(g, [domain |-> domain, ids |-> ids, listed |-> Ended, found |-> found])
  PROVE  Kept
<1> DEFINE r == [domain |-> domain, ids |-> ids, listed |-> Ended, found |-> found]
<1>1. Moves(g, "busy")
  BY DEF Lists, Begin, Moves
<1>2. /\ UNCHANGED <<nodes, origin, makers, gone, forgot>> /\ UNCHANGED <<paused, write>>
      /\ edges' \subseteq edges
  BY DEF Lists, store
<1>3. /\ DOMAIN forget' = Forgets /\ \A h \in Forgets \ {g} : forget'[h] = forget[h]
      /\ forget'[g] = r
  BY DEF IInv, TypeOK, Lists
<1>4. ASSUME Ended \subseteq Ended', pc'[g] = "busy" PROVE ForgetOK(g)'
  <2>1. Ended \in SUBSET Flows
    BY DEF Ended
  <2>2. r \in [domain: Domains \cup {None}, ids: SUBSET Id, listed: SUBSET Flows, found: BOOLEAN]
    BY <2>1
  <2>3. r.listed \subseteq Ended' /\ r.domain = domain /\ r.ids = ids
    BY <1>4
  <2> HIDE DEF r
  <2> QED BY <1>2, <1>3, <1>4, <2>2, <2>3 DEF ForgetOK
<1> QED BY <1>1, <1>2, <1>3, <1>4, ForgetsInv

LEMMA ListDomainInv ==
  ASSUME IInv, NEW g \in Forgets, ListDomain(g)
  PROVE  Kept
<1>1. PICK d \in Domains :
        Lists(g, [domain |-> d, ids |-> NodesOf(d), listed |-> Ended, found |-> FALSE])
  BY DEF ListDomain
<1>2. Ids(nodes) \subseteq Id
  BY IdsType DEF IInv, TypeOK, NodesOK
<1>3. NodesOf(d) \in SUBSET Id
  BY <1>2 DEF NodesOf, Ids
<1>4. \A n \in Members(nodes) : n.domain = d => n.id \in NodesOf(d)
  BY DEF NodesOf, Members
<1> DEFINE ids == NodesOf(d)
<1>5. ids \in SUBSET Id /\ \A n \in Members(nodes) : n.domain = d => n.id \in ids
  BY <1>3, <1>4
<1>6. Lists(g, [domain |-> d, ids |-> ids, listed |-> Ended, found |-> FALSE])
  BY <1>1
<1> HIDE DEF ids
<1> QED BY <1>5, <1>6, ListsInv

LEMMA ListTimeRangeInv ==
  ASSUME IInv, NEW g \in Forgets, ListTimeRange(g)
  PROVE  Kept
<1> DEFINE ids == Ids(nodes)
           domain == None
           found == TRUE
<1>1. Lists(g, [domain |-> domain, ids |-> ids, listed |-> Ended, found |-> found])
  BY DEF ListTimeRange
<1>2. ids \in SUBSET Id
  BY IdsType DEF IInv, TypeOK, NodesOK
<1>3. domain \in Domains \cup {None} /\ domain = None /\ found \in BOOLEAN
  OBVIOUS
<1> HIDE DEF ids, domain, found
<1> QED BY <1>1, <1>2, <1>3, ListsInv

LEMMA ForgetFields ==
  ASSUME NEW r, r = [domain |-> r.domain, ids |-> r.ids, listed |-> r.listed, found |-> r.found],
         NEW ids, NEW found
  PROVE  [[r EXCEPT !.found = found] EXCEPT !.ids = ids]
           = [domain |-> r.domain, ids |-> ids, listed |-> r.listed, found |-> found]
<1> DEFINE a == [domain |-> r.domain, ids |-> r.ids, listed |-> r.listed, found |-> found]
           b == [domain |-> r.domain, ids |-> ids, listed |-> r.listed, found |-> found]
<1>1. [r EXCEPT !.found = found] = a
  OBVIOUS
<1>2. [a EXCEPT !.ids = ids] = b
  OBVIOUS
<1> QED BY <1>1, <1>2

LEMMA FindDomainInv ==
  ASSUME IInv, NEW g \in Forgets, FindDomain(g)
  PROVE  Kept
<1> DEFINE r == forget[g]
           entity == FindByNaturalKey(DomainKey(r.domain))
           ids == IF entity = None THEN r.ids ELSE r.ids \cup {entity.id}
           q == [domain |-> r.domain, ids |-> ids, listed |-> r.listed, found |-> TRUE]
<1>1. TypeOK /\ ForgetOK(g)
  BY DEF IInv
<1>2. pc[g] = "busy"
  BY DEF FindDomain
<1>3. Moves(g, "busy")
  BY <1>1, <1>2 DEF FindDomain, Moves, TypeOK
<1>4. /\ UNCHANGED <<nodes, origin, makers, gone, forgot>> /\ UNCHANGED <<paused, write>>
      /\ edges' \subseteq edges
  BY DEF FindDomain, store
<1>5. ids \in SUBSET Id /\ r.ids \subseteq ids
  <2>1. entity # None => entity \in Members(nodes)
    BY <1>1, FindMeans DEF TypeOK, NodesOK
  <2>2. entity # None => entity.id \in Id
    BY <1>1, <2>1, StoredNode, NodeFields
  <2>3. r.ids \subseteq Id
    BY <1>1 DEF TypeOK
  <2> HIDE DEF entity
  <2> QED BY <2>2, <2>3
<1>6. r \in [domain: Domains \cup {None}, ids: SUBSET Id, listed: SUBSET Flows, found: BOOLEAN]
  BY <1>1 DEF ForgetOK
<1>7. /\ DOMAIN forget' = Forgets /\ \A h \in Forgets \ {g} : forget'[h] = forget[h]
      /\ forget'[g] = q
  <2>1. forget' = [forget EXCEPT ![g].found = TRUE, ![g].ids = ids]
    BY Zenon DEF FindDomain
  <2> HIDE DEF ids
  <2>2. forget' = [forget EXCEPT ![g] = [[r EXCEPT !.found = TRUE] EXCEPT !.ids = ids]]
    BY <1>1, <2>1 DEF TypeOK
  <2>3. [[r EXCEPT !.found = TRUE] EXCEPT !.ids = ids] = q
    <3> DEFINE found == TRUE
    <3> HIDE DEF found
    <3>1. [[r EXCEPT !.found = found] EXCEPT !.ids = ids]
            = [domain |-> r.domain, ids |-> ids, listed |-> r.listed, found |-> found]
      <4>1. r = [domain |-> r.domain, ids |-> r.ids, listed |-> r.listed, found |-> r.found]
        BY <1>6
      <4> HIDE DEF r
      <4> QED BY Zenon, <4>1, ForgetFields
    <3> QED BY <3>1 DEF found
  <2> QED BY <1>1, <2>2, <2>3 DEF TypeOK
<1>8. ASSUME Ended \subseteq Ended', pc'[g] = "busy" PROVE ForgetOK(g)'
  <2>1. q \in [domain: Domains \cup {None}, ids: SUBSET Id, listed: SUBSET Flows, found: BOOLEAN]
    BY <1>5, <1>6
  <2>2. q.listed = r.listed /\ q.domain = r.domain /\ q.ids = ids
    OBVIOUS
  <2>3. r.listed \subseteq Ended /\ nodes' = nodes /\ origin' = origin
    BY <1>1, <1>4 DEF ForgetOK
  <2>4. r.domain # None =>
          \A n \in Members(nodes) : n.domain = r.domain /\ origin[n.id] \in r.listed => n.id \in r.ids
    BY <1>1 DEF ForgetOK
  <2> HIDE DEF q, ids, r
  <2> QED BY <1>5, <1>7, <1>8, <2>1, <2>2, <2>3, <2>4 DEF ForgetOK
<1> QED BY <1>3, <1>4, <1>7, <1>8, ForgetsInv

LEMMA SetPausedInv ==
  ASSUME IInv, SetPaused
  PROVE  Kept
<1>1. /\ UNCHANGED <<nodes, origin, makers, gone, forgot>> /\ edges' \subseteq edges
      /\ UNCHANGED <<nodes, edges, origin, makers, gone, pc, write, forget, before, forgot>>
      /\ paused' = ~ paused
  BY DEF SetPaused, store
<1>2. TypeOK /\ HistoryOK
  BY DEF IInv
<1>3. TypeOK'
  BY <1>1, <1>2 DEF TypeOK
<1>4. Ended \subseteq Ended' /\ \A g \in Flows : before'[g] \subseteq Ended'
  BY <1>1, <1>2 DEF HistoryOK, Ended
<1> QED BY <1>1, <1>3, <1>4, AloneInv
-----------------------------------------------------------------------------
(* Steps that change the nodes                                             *)

\* What the history says after flow f has changed the nodes.
Remembered(f) ==
  /\ origin' \in [Ids(nodes') -> Flows]
  /\ \A id \in Ids(nodes') \ Ids(nodes) : origin'[id] = f
  /\ \A id \in Ids(nodes') \cap Ids(nodes) : origin'[id] = origin[id]
  /\ DOMAIN makers' = DOMAIN makers \cup (Ids(nodes') \ Ids(nodes))
  /\ \A id \in DOMAIN makers' :
       /\ MakersOf(id) \subseteq makers'[id] /\ makers'[id] \subseteq MakersOf(id) \cup {f}
       /\ f \in makers'[id] <=> (f \in MakersOf(id) \/ id \in Ids(nodes') \ Ids(nodes))
  /\ DOMAIN gone' = DOMAIN gone \cup (Ids(nodes) \ Ids(nodes'))
  /\ \A id \in Ids(nodes) \ Ids(nodes') : gone'[id] = Underway
  /\ \A id \in DOMAIN gone : id \in Ids(nodes) \ Ids(nodes') \/ gone'[id] = gone[id]

LEMMA RememberMeans ==
  ASSUME TypeOK, NEW f \in Flows, Remember(f)
  PROVE  Remembered(f)
<1> DEFINE removed == Ids(nodes) \ Ids(nodes')
           added == Ids(nodes') \ Ids(nodes)
<1>1. /\ origin' = [id \in Ids(nodes') |-> IF id \in added THEN f ELSE origin[id]]
      /\ makers' = [id \in DOMAIN makers \cup added |-> MakersOf(id) \cup (IF id \in added THEN {f} ELSE {})]
      /\ gone' = [id \in DOMAIN gone \cup removed |-> IF id \in removed THEN Underway ELSE gone[id]]
  BY Zenon DEF Remember
<1>2. origin \in [Ids(nodes) -> Flows]
  BY DEF TypeOK
<1>3. /\ origin' \in [Ids(nodes') -> Flows]
      /\ \A id \in added : origin'[id] = f
      /\ \A id \in Ids(nodes') \cap Ids(nodes) : origin'[id] = origin[id]
  BY <1>1, <1>2
<1>4. /\ DOMAIN makers' = DOMAIN makers \cup added
      /\ \A id \in DOMAIN makers' :
           /\ MakersOf(id) \subseteq makers'[id] /\ makers'[id] \subseteq MakersOf(id) \cup {f}
           /\ f \in makers'[id] <=> (f \in MakersOf(id) \/ id \in added)
  BY <1>1
<1>5. /\ DOMAIN gone' = DOMAIN gone \cup removed
      /\ \A id \in removed : gone'[id] = Underway
      /\ \A id \in DOMAIN gone : id \in removed \/ gone'[id] = gone[id]
  BY <1>1
<1> QED BY <1>3, <1>4, <1>5 DEF Remembered

LEMMA RememberedType ==
  ASSUME TypeOK, NEW f \in Flows, Remembered(f), NodesOK(nodes'), edges' \subseteq Edge
  PROVE  StoreType'
<1>1. Ids(nodes) \subseteq Id /\ Ids(nodes') \subseteq Id
  BY IdsType DEF TypeOK, NodesOK
<1>2. Underway \subseteq Flows
  BY DEF Underway
<1>3. Ids(nodes') \subseteq DOMAIN makers' /\ DOMAIN makers' \subseteq Id
  BY <1>1 DEF TypeOK, Remembered
<1>4. \A id \in DOMAIN makers' : makers'[id] \subseteq Flows
  BY MakersType DEF Remembered
<1>5. DOMAIN gone' \subseteq Id /\ \A id \in DOMAIN gone' : gone'[id] \subseteq Flows
  BY <1>1, <1>2 DEF TypeOK, Remembered
<1> QED BY <1>3, <1>4, <1>5 DEF Remembered, StoreType

LEMMA RememberedForward ==
  ASSUME NEW f, Remembered(f), \A g \in Flows : pc[g] # "idle" => pc'[g] # "idle" /\ before'[g] = before[g]
  PROVE  Forward
BY DEF Forward, Remembered, MakersOf

LEMMA ForgottenMembers ==
  ASSUME ForgottenStays, NEW n \in Members(nodes), n.domain # None
  PROVE  origin[n.id] \notin forgot[n.domain]
BY DEF ForgottenStays, Members

LEMMA ForgottenMembersNext ==
  ASSUME \A n \in Members(nodes') : n.domain # None => origin'[n.id] \notin forgot'[n.domain]
  PROVE  ForgottenStays'
BY DEF ForgottenStays, Members

\* What flow f has forgotten, or leaves forgotten, when it deletes nodes.
Forgot(ids) ==
  \A d \in Domains : \A f \in forgot'[d] :
    \/ f \in forgot[d]
    \/ f \in Ended /\ \A n \in Members(nodes) : n.domain = d /\ origin[n.id] = f => n.id \in ids

LEMMA DeletesInv ==
  ASSUME IInv, NEW g \in Forgets, NEW ids, DeleteNodes(g, ids), Moves(g, "done"),
         forget' = [forget EXCEPT ![g] = NoForget], UNCHANGED <<paused, write>>,
         forgot' \in [Domains -> SUBSET Flows], Forgot(ids)
  PROVE  Kept
<1>1. /\ TypeOK /\ HistoryOK /\ CopiesOK /\ OneNodePerKey /\ CascadeHolds /\ ForgottenStays
      /\ \A v \in Writers : WriteOK(v) /\ KeysOK(v)
      /\ \A h \in Forgets : ForgetOK(h)
  BY DEF IInv
<1>2. g \in Flows /\ g \notin Writers /\ Writers \subseteq Flows
  BY MemoryAssumption DEF Flows
<1>3. nodes \in Seq(Node) /\ Distinct(nodes)
  BY <1>1 DEF TypeOK, NodesOK
<1>4. /\ NodesOK(nodes')
      /\ \A n : n \in Members(nodes') <=> n \in Members(nodes) /\ n.id \notin ids
  <2> DEFINE P == {i \in DOMAIN nodes : nodes[i].id \notin ids}
  <2>1. nodes' = Filter(nodes, P) /\ P \in SUBSET DOMAIN nodes
    BY DEF DeleteNodes
  <2>2. \A n : (\E i \in P : nodes[i] = n) <=> n \in Members(nodes) /\ n.id \notin ids
    BY DEF Members
  <2> HIDE DEF P
  <2>3. /\ Filter(nodes, P) \in Seq(Node) /\ Distinct(Filter(nodes, P))
        /\ \A n : n \in Members(Filter(nodes, P)) <=> \E i \in P : nodes[i] = n
    BY <1>3, <2>1, FilterMembers
  <2> QED BY <2>1, <2>2, <2>3 DEF NodesOK
<1>5. /\ \A id : id \in Ids(nodes') <=> id \in Ids(nodes) /\ id \notin ids
      /\ \A n \in Members(nodes') : n.id \in Ids(nodes') /\ n.id \in Ids(nodes)
  <2>1. \A id : id \in Ids(nodes) <=> \E n \in Members(nodes) : n.id = id
    BY DEF Ids, Members
  <2>2. \A id : id \in Ids(nodes') <=> \E n \in Members(nodes') : n.id = id
    BY DEF Ids, Members
  <2> QED BY <1>4, <2>1, <2>2
<1>6. Remembered(g)
  BY <1>1, <1>2, RememberMeans DEF DeleteNodes
<1>7. edges' = {e \in edges : e.from \notin ids /\ e.to \notin ids}
  BY DEF DeleteNodes, Incident
<1>8. /\ \A f \in Flows : pc[f] # "idle" => pc'[f] # "idle" /\ before'[f] = before[f]
      /\ \A f \in Flows \ {g} : pc'[f] = pc[f] /\ before'[f] = before[f]
      /\ pc'[g] = "done" /\ Ended \subseteq Ended'
      /\ pc' \in [Flows -> {"idle", "busy", "done"}] /\ before' \in [Flows -> SUBSET Flows]
      /\ \A f \in Flows : before'[f] \subseteq Ended'
  <2> DEFINE s == "done"
  <2>1. s \in {"busy", "done"} /\ Moves(g, s)
    OBVIOUS
  <2> HIDE DEF s
  <2>2. /\ \A f \in Flows : pc[f] # "idle" => pc'[f] # "idle" /\ before'[f] = before[f]
        /\ \A f \in Flows \ {g} : pc'[f] = pc[f] /\ before'[f] = before[f]
        /\ pc'[g] = s /\ Ended \subseteq Ended'
        /\ pc' \in [Flows -> {"idle", "busy", "done"}] /\ before' \in [Flows -> SUBSET Flows]
        /\ \A f \in Flows : before'[f] \subseteq Ended'
    BY <1>1, <1>2, <2>1, MovesOn
  <2> QED BY <2>2 DEF s
<1>9. Forward
  BY <1>6, <1>8, RememberedForward
<1>10. g \notin Ended /\ before'[g] \subseteq Ended
  BY <1>1, <1>2 DEF Moves, Ended, HistoryOK, TypeOK
<1>11. /\ DOMAIN forget' = Forgets /\ \A h \in Forgets \ {g} : forget'[h] = forget[h]
       /\ forget'[g] = NoForget
  BY <1>1 DEF TypeOK
<1>12. TypeOK'
  <2>1. StoreType'
    <3>1. edges' \subseteq Edge
      BY <1>1, <1>7 DEF TypeOK
    <3> QED BY <1>1, <1>2, <1>4, <1>6, <3>1, RememberedType
  <2>2. \A v \in Writers : WriteType(v)'
    BY <1>1, Types DEF WriteType
  <2>3. \A h \in Forgets : ForgetType(h)'
    <3>1. ForgetType(g)'
      BY <1>11 DEF ForgetType, NoForget
    <3>2. \A h \in Forgets \ {g} : ForgetType(h)'
      BY <1>1, <1>11, Types DEF ForgetType
    <3> QED BY <3>1, <3>2
  <2>4. DOMAIN write' = Writers /\ paused' \in BOOLEAN
    BY <1>1, Types
  <2> QED BY <1>8, <1>11, <2>1, <2>2, <2>3, <2>4, TypesNext
<1>20. ASSUME NEW v \in Flows \ {g}, pc[v] = "busy" PROVE Sees(v)
  <2>1. \A n \in Members(nodes') : \E m \in Members(nodes) : m.id = n.id /\ Alike(n, m)
    BY <1>4 DEF Alike
  <2>2. Robbed(v)'
    <3>1. v \notin Ended /\ v # g /\ pc'[v] = "busy"
      BY <1>8, <1>20 DEF Ended
    <3>2. g \notin before'[v]
      BY <1>1, <1>2, <1>8, <1>10, <1>20 DEF HistoryOK
    <3>3. Overlap(v, g)'
      BY <1>8, <1>10, <3>1, <3>2 DEF Overlap
    <3> QED BY <3>3 DEF Robbed
  <2>3. /\ \A id \in Ids(nodes) \ Ids(nodes') : id \in DOMAIN gone' /\ v \in gone'[id]
        /\ \A id \in DOMAIN gone : id \in DOMAIN gone' /\ (v \in gone[id] => v \in gone'[id])
    <3>1. v \in Underway
      BY <1>20 DEF Underway
    <3> QED BY <1>6, <3>1 DEF Remembered
  <2> QED BY <2>1, <2>2, <2>3 DEF Sees
<1>13. ASSUME NEW v \in Writers PROVE WriteOK(v)' /\ KeysOK(v)'
  <2>1. Outside(v)
    BY <1>2, <1>8, <1>20 DEF Outside
  <2> QED BY <1>1, <1>9, <2>1, OutsideWrite, OutsideKeys
<1>14. HistoryOK'
  <2>1. \A d \in Domains : forgot'[d] \subseteq Ended'
    BY <1>1, <1>8 DEF Forgot, HistoryOK
  <2>2. Stores \subseteq Stores'
    <3>1. \A j \in Jobs : j \in Flows \ {g}
      BY MemoryAssumption DEF Flows
    <3> QED BY <1>8, <3>1, StoresStay
  <2>3. ASSUME NEW id \in DOMAIN makers' PROVE id[1] \in Stores' /\ makers'[id] \subseteq Stores'
    <3>1. id \in DOMAIN makers /\ makers'[id] \subseteq makers[id]
      BY <1>5, <1>6 DEF Remembered, MakersOf
    <3> QED BY <1>1, <2>2, <3>1 DEF HistoryOK
  <2> QED BY <1>8, <2>1, <2>3 DEF HistoryOK
<1>15. CopiesOK' /\ Traced
  <2>1. Known' \subseteq Known
    BY <1>4 DEF Known
  <2> QED BY <1>1, <2>1 DEF CopiesOK, Traced, Alike
<1>16. ASSUME NEW h \in Forgets PROVE ForgetOK(h)'
  <2>1. CASE h = g
    BY <1>11, <2>1, NoForgetOK
  <2>2. CASE h # g
    <3>1. forget'[h] = forget[h] /\ pc'[h] = pc[h]
      BY <1>8, <1>11, <2>2 DEF Flows
    <3>2. \A n \in Members(nodes') : n \in Members(nodes) /\ origin'[n.id] = origin[n.id]
      BY <1>4, <1>5, <1>6 DEF Remembered
    <3>3. ForgetOK(h)
      BY <1>1
    <3> QED BY <1>8, <3>1, <3>2, <3>3 DEF ForgetOK, NoForget
  <2> QED BY <2>1, <2>2
<1>17. OneNodePerKey'
  <2>1. \A n \in Members(nodes') : \E m \in Members(nodes) : m.id = n.id /\ Alike(n, m)
    BY <1>4 DEF Alike
  <2> QED BY <1>1, <1>9, <1>12, <2>1, NodesKeepKeys
<1>18. CascadeHolds'
  <2> SUFFICES ASSUME NEW e \in edges', NEW id \in {e.from, e.to}
               PROVE  id \in Ids(nodes') \/ (id \in DOMAIN gone' /\ e.by \in gone'[id])
    BY DEF CascadeHolds
  <2>1. e \in edges /\ id \notin ids
    BY <1>7
  <2>2. id \in Ids(nodes) \/ (id \in DOMAIN gone /\ e.by \in gone[id])
    BY <1>1, <2>1 DEF CascadeHolds
  <2> QED BY <1>5, <1>6, <2>1, <2>2 DEF Remembered
<1>19. ForgottenStays'
  <2> SUFFICES ASSUME NEW n \in Members(nodes'), n.domain # None
               PROVE  origin'[n.id] \notin forgot'[n.domain]
    BY ForgottenMembersNext
  <2>1. n \in Members(nodes) /\ n.id \notin ids /\ origin'[n.id] = origin[n.id]
    BY <1>4, <1>5, <1>6 DEF Remembered
  <2>2. n.domain \in Domains
    BY <1>1, <2>1, StoredNode, NodeFields
  <2>3. origin[n.id] \notin forgot[n.domain]
    BY <1>1, <2>1, ForgottenMembers
  <2> QED BY <2>1, <2>2, <2>3 DEF Forgot
<1>21. IInv'
  BY <1>12, <1>13, <1>14, <1>15, <1>16, <1>17, <1>18, <1>19 DEF IInv
<1>22. \A j \in Jobs : j \in Flows \ {g}
  BY MemoryAssumption DEF Flows
<1>23. DOMAIN makers' = DOMAIN makers
  BY <1>5, <1>6 DEF Remembered
<1> QED BY <1>9, <1>15, <1>20, <1>21, <1>22, <1>23 DEF Kept

LEMMA ForgetNodeInv ==
  ASSUME IInv, NEW g \in Forgets, ForgetNode(g)
  PROVE  Kept
<1>1. PICK id \in DOMAIN origin \cup DOMAIN gone : DeleteNodes(g, {id})
  BY DEF ForgetNode
<1>2. /\ forget' = [forget EXCEPT ![g] = NoForget] /\ UNCHANGED <<paused, write>> /\ forgot' = forgot
  BY DEF ForgetNode, Ends
<1>3. Moves(g, "done")
  BY DEF ForgetNode, Ends, Begin, Moves
<1>4. forgot' \in [Domains -> SUBSET Flows]
  BY <1>2 DEF IInv, TypeOK
<1>5. Forgot({id})
  BY <1>2 DEF Forgot
<1> QED BY <1>1, <1>2, <1>3, <1>4, <1>5, DeletesInv

LEMMA DeleteListedInv ==
  ASSUME IInv, NEW g \in Forgets, DeleteListed(g)
  PROVE  Kept
<1> DEFINE r == forget[g]
           ids == r.ids
<1>1. DeleteNodes(g, ids) /\ pc[g] = "busy"
  BY DEF DeleteListed
<1>2. /\ forget' = [forget EXCEPT ![g] = NoForget] /\ UNCHANGED <<paused, write>>
      /\ forgot' = IF r.domain = None THEN forgot ELSE [forgot EXCEPT ![r.domain] = @ \cup r.listed]
  BY DEF DeleteListed, Ends
<1>3. Moves(g, "done")
  BY DEF DeleteListed, Ends, Moves
<1>4. TypeOK /\ ForgetOK(g)
  BY DEF IInv
<1>5. r.domain \in Domains \cup {None} /\ r.listed \subseteq Flows /\ r.listed \subseteq Ended
  BY <1>4 DEF TypeOK, ForgetOK
<1>6. /\ forgot' \in [Domains -> SUBSET Flows]
      /\ \A d \in Domains : forgot'[d] = forgot[d]
           \/ (d = r.domain /\ d # None /\ forgot'[d] = forgot[d] \cup r.listed)
  <2>1. forgot \in [Domains -> SUBSET Flows]
    BY <1>4 DEF TypeOK
  <2> HIDE DEF r
  <2> QED BY <1>2, <1>5, <2>1
<1>7. Forgot(ids)
  BY <1>4, <1>5, <1>6 DEF Forgot, ForgetOK
<1> HIDE DEF ids
<1> QED BY <1>1, <1>2, <1>3, <1>6, <1>7, DeletesInv

LEMMA CommitInv ==
  ASSUME IInv, NEW w \in Writers, Commit(w)
  PROVE  Kept
<1> DEFINE s == write[w].staged
           added == Ids(nodes') \ Ids(nodes)
           Old(n) == \E m \in Members(nodes) : m.id = n.id /\ Alike(n, m)
           New(n) == n \in Members(s) /\ n.id \in added
<1>1. /\ TypeOK /\ HistoryOK /\ CopiesOK /\ OneNodePerKey /\ CascadeHolds /\ ForgottenStays
      /\ \A v \in Writers : WriteOK(v) /\ KeysOK(v)
      /\ \A h \in Forgets : ForgetOK(h)
  BY DEF IInv
<1>2. w \in Flows /\ w \notin Forgets /\ Writers \subseteq Flows
  BY MemoryAssumption DEF Flows
<1>3. /\ pc[w] = "busy" /\ nodes' = PutAll(nodes, s) /\ edges' = edges \cup write[w].links
      /\ Remember(w) /\ pc' = [pc EXCEPT ![w] = "done"] /\ write' = [write EXCEPT ![w] = NoWrite]
      /\ paused' = paused /\ forget' = forget /\ before' = before /\ forgot' = forgot
  BY DEF Commit, ApplyBatch
<1>4. /\ NodesOK(nodes') /\ Ids(nodes') = Ids(nodes) \cup Ids(s)
      /\ \A n \in Members(nodes') : n \in Members(s) \/ (n \in Members(nodes) /\ n.id \notin Ids(s))
  <2>1. nodes \in Seq(Node) /\ s \in Seq(Node) /\ Distinct(nodes) /\ Distinct(s)
    BY <1>1 DEF TypeOK, NodesOK
  <2> HIDE DEF s
  <2> QED BY <1>3, <2>1, PutAllMeans DEF NodesOK
<1>5. /\ \A n \in Members(nodes) : n.id \in Ids(nodes)
      /\ \A n \in Members(nodes') : n.id \in Ids(nodes')
      /\ \A n \in Members(s) : n.id \in Ids(s)
      /\ \A id \in Ids(s) : \E n \in Members(s) : n.id = id
      /\ \A id \in Ids(nodes) : \E n \in Members(nodes) : n.id = id
  BY DEF Ids, Members
<1>6. Remembered(w)
  BY <1>1, <1>2, <1>3, RememberMeans
<1>7. /\ \A f \in Flows : pc[f] # "idle" => pc'[f] # "idle" /\ before'[f] = before[f]
      /\ \A f \in Flows \ {w} : pc'[f] = pc[f] /\ before'[f] = before[f]
      /\ pc'[w] = "done" /\ Ended \subseteq Ended'
      /\ pc' \in [Flows -> {"idle", "busy", "done"}] /\ before' \in [Flows -> SUBSET Flows]
      /\ \A f \in Flows : before'[f] \subseteq Ended'
  <2> DEFINE q == "done"
  <2>1. q \in {"busy", "done"} /\ Moves(w, q)
    BY <1>3 DEF Moves
  <2> HIDE DEF q
  <2>2. /\ \A f \in Flows : pc[f] # "idle" => pc'[f] # "idle" /\ before'[f] = before[f]
        /\ \A f \in Flows \ {w} : pc'[f] = pc[f] /\ before'[f] = before[f]
        /\ pc'[w] = q /\ Ended \subseteq Ended'
        /\ pc' \in [Flows -> {"idle", "busy", "done"}] /\ before' \in [Flows -> SUBSET Flows]
        /\ \A f \in Flows : before'[f] \subseteq Ended'
    BY <1>1, <1>2, <2>1, MovesOn
  <2> QED BY <2>2 DEF q
<1>8. Forward
  BY <1>6, <1>7, RememberedForward
<1>9. w \notin Ended /\ w \in Ended' /\ \A f \in Flows : w \notin before[f]
  BY <1>1, <1>2, <1>3, <1>7 DEF Ended, HistoryOK
<1>10. /\ DOMAIN write' = Writers /\ \A v \in Writers \ {w} : write'[v] = write[v]
       /\ write'[w] = NoWrite
  BY <1>1, <1>3 DEF TypeOK
<1>11. \A n \in Members(nodes') : n \in Known /\ (Old(n) \/ New(n))
  <2> SUFFICES ASSUME NEW n \in Members(nodes') PROVE n \in Known /\ (Old(n) \/ New(n))
    OBVIOUS
  <2>1. n \in Known
    BY <1>4 DEF Known
  <2>2. CASE n.id \in Ids(nodes)
    <3>1. PICK m \in Members(nodes) : m.id = n.id
      BY <1>5, <2>2
    <3>2. m \in Known
      BY DEF Known
    <3>3. Alike(n, m)
      BY <1>1, <2>1, <3>1, <3>2 DEF CopiesOK
    <3> QED BY <2>1, <3>1, <3>3
  <2>3. CASE n.id \notin Ids(nodes)
    <3>1. n \in Members(s)
      BY <1>4, <1>5, <2>3
    <3> QED BY <1>5, <2>1, <2>3, <3>1
  <2> QED BY <2>2, <2>3
<1>12. \A n : New(n) => n.id \in DOMAIN makers' /\ w \in makers'[n.id] /\ origin'[n.id] = w
                         /\ w \in MakersOf(n.id)'
  BY <1>6 DEF Remembered, MakersOf
<1>13. \A n \in Members(nodes) : n.id \in Ids(nodes) /\ n.id \in Ids(nodes') /\ origin'[n.id] = origin[n.id]
  BY <1>4, <1>5, <1>6 DEF Remembered
<1>14. TypeOK'
  <2>1. StoreType'
    <3>1. edges' \subseteq Edge
      BY <1>1, <1>3 DEF TypeOK
    <3> QED BY <1>1, <1>2, <1>4, <1>6, <3>1, RememberedType
  <2>2. \A v \in Writers : WriteType(v)'
    <3>1. WriteType(w)'
      BY <1>10, QuietType
    <3>2. \A v \in Writers \ {w} : WriteType(v)'
      BY <1>1, <1>10, Types DEF WriteType
    <3> QED BY <3>1, <3>2
  <2>3. \A h \in Forgets : ForgetType(h)'
    BY <1>1, <1>3, Types DEF ForgetType
  <2>4. DOMAIN forget' = Forgets /\ paused' \in BOOLEAN /\ forgot' \in [Domains -> SUBSET Flows]
    BY <1>1, <1>3, Types
  <2> QED BY <1>7, <1>10, <2>1, <2>2, <2>3, <2>4, TypesNext
<1> HIDE DEF s, added
<1>22. ASSUME NEW v \in Flows \ {w} PROVE Sees(v)
  <2>1. \A n \in Members(nodes') :
          \/ \E m \in Members(nodes) : m.id = n.id /\ Alike(n, m)
          \/ n.id \in DOMAIN makers' /\ \E u \in makers'[n.id] : u # v /\ u \notin before[v]
    BY <1>9, <1>11, <1>12, <1>22
  <2>2. Ids(nodes) \subseteq Ids(nodes')
    BY <1>4
  <2>3. \A id \in DOMAIN gone : id \in DOMAIN gone' /\ gone'[id] = gone[id]
    BY <1>6, <2>2 DEF Remembered
  <2> QED BY <2>1, <2>2, <2>3 DEF Sees
<1>15. ASSUME NEW v \in Writers PROVE WriteOK(v)' /\ KeysOK(v)'
  <2>1. CASE v = w
    BY <1>10, <2>1, QuietWriteNext
  <2>2. CASE v # w
    <3>1. Outside(v)
      BY <1>2, <1>7, <1>10, <1>22, <2>2 DEF Outside
    <3> QED BY <1>1, <1>8, <3>1, OutsideWrite, OutsideKeys
  <2> QED BY <2>1, <2>2
<1>25. ASSUME NEW id \in DOMAIN makers' \ DOMAIN makers PROVE id[1] = w
  <2>1. id \in Ids(s)
    BY <1>4, <1>6 DEF Remembered
  <2>2. PICK n \in Members(s) : n.id = id
    BY <1>5, <2>1
  <2> QED BY <1>1, <2>2 DEF WriteOK, s
<1>16. HistoryOK'
  <2>1. \A d \in Domains : forgot'[d] \subseteq Ended'
    BY <1>1, <1>3, <1>7 DEF HistoryOK
  <2>3. Stores \subseteq Stores' /\ w \in Stores'
    <3>1. \A j \in Jobs : j \in Flows \ {w}
      BY MemoryAssumption DEF Flows
    <3> QED BY <1>7, <1>9, <3>1, StoresStay DEF Stores
  <2>2. ASSUME NEW id \in DOMAIN makers' PROVE id[1] \in Stores' /\ makers'[id] \subseteq Stores'
    <3>1. \A x \in DOMAIN makers : x[1] \in Stores' /\ makers[x] \subseteq Stores'
      BY <1>1, <2>3 DEF HistoryOK
    <3>2. MakersOf(id) \subseteq Stores'
      BY <3>1 DEF MakersOf
    <3>3. makers'[id] \subseteq Stores'
      BY <1>6, <2>3, <3>2 DEF Remembered
    <3>4. CASE id \in DOMAIN makers
      BY <3>1, <3>3, <3>4
    <3>5. CASE id \notin DOMAIN makers
      <4>1. id[1] = w
        BY <1>25, <3>5
      <4> QED BY <2>3, <3>3, <4>1
    <3> QED BY <3>4, <3>5
  <2> QED BY <1>7, <2>1, <2>2 DEF HistoryOK
<1>17. CopiesOK' /\ Traced
  <2>1. Members(write'[w].staged) = {}
    BY <1>10 DEF NoWrite, Members
  <2>2. \A v \in Writers : Members(write'[v].staged) \subseteq Known
    BY <1>10, <2>1 DEF Known
  <2>3. Known' \subseteq Known
    BY <1>11, <2>2 DEF Known
  <2> QED BY <1>1, <2>3 DEF CopiesOK, Traced, Alike
<1>18. ASSUME NEW h \in Forgets PROVE ForgetOK(h)'
  <2>1. forget'[h] = forget[h] /\ pc'[h] = pc[h]
    BY <1>2, <1>3, <1>7 DEF Flows
  <2>2. ForgetOK(h)
    BY <1>1
  <2>3. ASSUME NEW n \in Members(nodes'), forget[h].domain # None,
               n.domain = forget[h].domain, origin'[n.id] \in forget[h].listed
        PROVE  n.id \in forget[h].ids
    <3>1. CASE Old(n)
      BY <1>13, <2>2, <2>3, <3>1 DEF ForgetOK, Alike
    <3>2. CASE New(n)
      BY <1>9, <1>12, <2>2, <2>3, <3>2 DEF ForgetOK
    <3> QED BY <1>11, <3>1, <3>2
  <2> QED BY <1>7, <2>1, <2>2, <2>3 DEF ForgetOK, NoForget
<1>19. OneNodePerKey'
  <2>1. \A n : \A u \in MakersOf(n.id) : u \notin before[w] => Rivals(u, w)'
    <3> SUFFICES ASSUME NEW n, NEW u \in MakersOf(n.id), u \notin before[w]
                 PROVE  Rivals(u, w)'
      OBVIOUS
    <3>1. u \in Stores
      BY <1>1 DEF HistoryOK, MakersOf
    <3>4. u \in Flows /\ pc[u] # "idle" /\ u # w
      BY <1>2, <1>3, <3>1, StoresMean
    <3>2. Overlap(u, w)
      BY <1>3, <1>9, <3>4 DEF Overlap
    <3>3. Rivals(u, w)
      BY <3>2 DEF Rivals
    <3> QED BY <1>2, <1>8, <3>3, <3>4, RivalsStay
  <2>2. \A n : MakersOf(n.id) \subseteq MakersOf(n.id)'
    BY <1>8, MakersStay
  \* What is stored clashes with what is new.
  <2>3. ASSUME NEW n, NEW m, Old(n), New(m), Clash(n, m)
        PROVE  Apart(n, m)'
    <3>1. PICK a \in Members(nodes) : a.id = n.id /\ Alike(n, a)
      BY <2>3
    <3>2. Clash(a, m)
      BY <2>3, <3>1 DEF Clash, Alike
    <3>3. Apart(a, m) \/ Late(w, a)
      BY <1>1, <2>3, <3>2 DEF KeysOK, s
    <3>4. Apart(n, m) \/ Late(w, n)
      BY <3>1, <3>3, SameIds
    <3>5. CASE Apart(n, m)
      BY <1>1, <1>8, <3>5, ApartStays
    <3>6. CASE Late(w, n)
      BY <1>12, <2>1, <2>2, <2>3, <3>6 DEF Late, Apart
    <3> QED BY <3>4, <3>5, <3>6
  <2> SUFFICES ASSUME NEW n \in Members(nodes'), NEW m \in Members(nodes'), Clash(n, m)
               PROVE  Apart(n, m)'
    BY <1>14, KeyMembersNext
  <2>4. Tagged(n) /\ Tagged(m)
    BY <1>1, <1>11 DEF CopiesOK
  <2>5. CASE Old(n) /\ Old(m)
    <3>1. PICK a \in Members(nodes) : a.id = n.id /\ Alike(n, a)
      BY <2>5
    <3>2. PICK b \in Members(nodes) : b.id = m.id /\ Alike(m, b)
      BY <2>5
    <3>3. Clash(a, b)
      BY <3>1, <3>2 DEF Clash, Alike
    <3>4. Apart(a, b)
      BY <1>1, <3>3, KeyMembers
    <3>5. Apart(n, m)
      BY <3>1, <3>2, <3>4 DEF Apart
    <3> QED BY <1>1, <1>8, <3>5, ApartStays
  <2>6. CASE Old(n) /\ New(m)
    BY <2>3, <2>6
  <2>7. CASE New(n) /\ Old(m)
    <3>1. Clash(m, n)
      BY <2>4, ClashBoth
    <3>2. Apart(m, n)'
      BY <2>3, <2>7, <3>1
    <3> QED BY <3>2, ApartBothNext
  <2>8. CASE New(n) /\ New(m)
    <3>1. Apart(n, m) \/ Late(w, n) \/ Late(w, m) \/ Robbed(w)
      BY <1>1, <2>8 DEF KeysOK, s
    <3>2. CASE Apart(n, m)
      BY <1>1, <1>8, <3>2, ApartStays
    <3>3. CASE Late(w, n)
      BY <1>12, <2>1, <2>2, <2>8, <3>3 DEF Late, Apart
    <3>4. CASE Late(w, m)
      <4>1. Apart(m, n)'
        BY <1>12, <2>1, <2>2, <2>8, <3>4 DEF Late, Apart
      <4> QED BY <4>1, ApartBothNext
    <3>5. CASE Robbed(w)
      <4>1. Rivals(w, w)
        BY <3>5 DEF Robbed, Rivals
      <4>2. Rivals(w, w)'
        BY <1>2, <1>8, <4>1, RivalsStay
      <4> QED BY <1>12, <2>8, <4>2 DEF Apart
    <3> QED BY <3>1, <3>2, <3>3, <3>4, <3>5
  <2> QED BY <1>11, <2>5, <2>6, <2>7, <2>8
<1>20. CascadeHolds'
  <2> SUFFICES ASSUME NEW e \in edges', NEW id \in {e.from, e.to}
               PROVE  id \in Ids(nodes') \/ (id \in DOMAIN gone' /\ e.by \in gone'[id])
    BY DEF CascadeHolds
  <2>1. id \in Ids(nodes') \/ (id \in DOMAIN gone /\ e.by \in gone[id])
    <3>1. CASE e \in edges
      BY <1>1, <1>4, <3>1 DEF CascadeHolds
    <3>2. CASE e \in write[w].links
      BY <1>1, <1>4, <3>2 DEF WriteOK, s
    <3> QED BY <1>3, <3>1, <3>2
  <2> QED BY <1>4, <1>6, <2>1 DEF Remembered
<1>21. ForgottenStays'
  <2> SUFFICES ASSUME NEW n \in Members(nodes'), n.domain # None
               PROVE  origin'[n.id] \notin forgot'[n.domain]
    BY ForgottenMembersNext
  <2>1. CASE Old(n)
    <3>1. PICK a \in Members(nodes) : a.id = n.id /\ Alike(n, a)
      BY <2>1
    <3>2. origin[a.id] \notin forgot[a.domain]
      BY <1>1, <3>1, ForgottenMembers DEF Alike
    <3> QED BY <1>3, <1>13, <3>1, <3>2 DEF Alike
  <2>2. CASE New(n)
    <3>1. n \in Node
      BY <1>1, <2>2, StagedNode DEF s
    <3>2. n.domain \in Domains
      BY <3>1, NodeFields
    <3> QED BY <1>1, <1>3, <1>9, <1>12, <2>2, <3>2 DEF HistoryOK
  <2> QED BY <1>11, <2>1, <2>2
<1>23. IInv'
  BY <1>14, <1>15, <1>16, <1>17, <1>18, <1>19, <1>20, <1>21 DEF IInv
<1>24. \A j \in Jobs : j \in Flows \ {w}
  BY MemoryAssumption DEF Flows
<1> QED BY <1>8, <1>17, <1>22, <1>23, <1>24, <1>25 DEF Kept

-----------------------------------------------------------------------------
(* The specification                                                       *)

LEMMA InitInv == Init => IInv
<1> SUFFICES ASSUME Init PROVE IInv
  OBVIOUS
<1>1. /\ nodes = <<>> /\ edges = {} /\ paused = FALSE
      /\ pc = [f \in Flows |-> "idle"] /\ write = [w \in Writers |-> NoWrite]
      /\ forget = [g \in Forgets |-> NoForget] /\ before = [f \in Flows |-> {}]
      /\ origin = <<>> /\ makers = <<>> /\ gone = <<>> /\ forgot = [d \in Domains |-> {}]
  BY DEF Init
<1>2. NodesOK(nodes) /\ Members(nodes) = {} /\ Ids(nodes) = {} /\ DOMAIN makers = {} /\ DOMAIN gone = {}
      /\ DOMAIN nodes = {} /\ origin \in [{} -> Flows]
  BY <1>1 DEF NodesOK, Distinct, Members, Ids
<1>3. StoreType
  BY <1>1, <1>2 DEF StoreType
<1>4. ASSUME NEW w \in Writers PROVE WriteType(w) /\ WriteOK(w) /\ KeysOK(w) /\ Members(write[w].staged) = {}
  <2>1. write[w] = NoWrite
    BY <1>1
  <2>2. /\ write[w].staged = <<>> /\ write[w].links = {} /\ write[w].minted = 0
        /\ write[w].keys = <<>> /\ write[w].last = <<>>
    BY <2>1 DEF NoWrite
  <2>3. NodesOK(<<>>) /\ DOMAIN write[w].keys = {} /\ DOMAIN write[w].last = {}
        /\ Members(write[w].staged) = {}
    BY <2>2 DEF NodesOK, Distinct, Members
  <2>4. WriteType(w)
    BY <2>2, <2>3 DEF WriteType
  <2> QED BY <2>1, <2>3, <2>4, QuietWrite
<1>5. ASSUME NEW g \in Forgets PROVE ForgetType(g) /\ ForgetOK(g)
  <2>1. forget[g] = NoForget
    BY <1>1
  <2> QED BY <2>1 DEF ForgetType, ForgetOK, NoForget
<1>6. TypeOK
  <2>1. /\ paused \in BOOLEAN /\ pc \in [Flows -> {"idle", "busy", "done"}]
        /\ before \in [Flows -> SUBSET Flows] /\ forgot \in [Domains -> SUBSET Flows]
        /\ DOMAIN write = Writers /\ DOMAIN forget = Forgets
    BY <1>1
  <2> QED BY <1>3, <1>4, <1>5, <2>1, Types
<1>7. HistoryOK
  BY <1>1, <1>2 DEF HistoryOK
<1>8. CopiesOK
  <2>1. Known = {}
    BY <1>2, <1>4 DEF Known
  <2> QED BY <2>1 DEF CopiesOK
<1>9. OneNodePerKey /\ CascadeHolds /\ ForgottenStays
  BY <1>1, <1>2 DEF OneNodePerKey, CascadeHolds, ForgottenStays
<1> QED BY <1>4, <1>5, <1>6, <1>7, <1>8, <1>9 DEF IInv

LEMMA StutterInv ==
  ASSUME IInv, UNCHANGED vars
  PROVE  Kept
<1>1. /\ UNCHANGED <<nodes, origin, makers, gone, forgot>> /\ edges' \subseteq edges
      /\ UNCHANGED <<nodes, edges, origin, makers, gone, pc, write, forget, before, forgot, paused>>
  BY DEF vars
<1>2. TypeOK /\ HistoryOK
  BY DEF IInv
<1>3. TypeOK'
  BY <1>1, <1>2 DEF TypeOK
<1>4. Ended \subseteq Ended' /\ \A g \in Flows : before'[g] \subseteq Ended'
  BY <1>1, <1>2 DEF HistoryOK, Ended
<1> QED BY <1>1, <1>3, <1>4, AloneInv

LEMMA NextInv ==
  ASSUME IInv, [Next]_vars
  PROVE  Kept
<1>1. ASSUME NEW w \in Writers, Writing(w) PROVE Kept
  BY <1>1, RecordEventsInv, PrimaryInv, AnchorInv, SupersedeInv, RollUpInv, ResolveEntityInv, CoreferInv,
     CommitInv, WriteFailsInv DEF Writing
<1>2. ASSUME NEW g \in Forgets, Forgetting(g) PROVE Kept
  BY <1>2, ForgetNodeInv, ForgetEdgeInv, ListDomainInv, ListTimeRangeInv, FindDomainInv, DeleteListedInv
     DEF Forgetting
<1> QED BY <1>1, <1>2, SetPausedInv, StutterInv DEF Next

LEMMA Invariance == Spec => []IInv
<1>1. IInv /\ [Next]_vars => IInv'
  BY NextInv DEF Kept
<1> QED BY <1>1, InitInv, PTL DEF Spec

\* Whatever the writes and the requests to forget are, and however their calls of the
\* store fall between one another, the store's maps, the batches that writes have
\* staged and what requests have listed are what the code's types say, with each id
\* standing for one node, in the store and in every batch.
THEOREM TypeCorrect == Spec => []TypeOK
<1>1. IInv => TypeOK
  BY DEF IInv
<1> QED BY <1>1, Invariance, PTL

\* Two nodes of one natural key are never made by one batch alone nor by calls of
\* recordEvents that followed one another: behind any two stand calls that overlapped,
\* or one that had a node removed from under it (writer.ts, resolveByKey and resolveEntity).
THEOREM KeysAreShared == Spec => []OneNodePerKey
<1>1. IInv => OneNodePerKey
  BY DEF IInv
<1> QED BY <1>1, Invariance, PTL

\* An edge never leads to a node that was not there for its writer: what it leads to is
\* stored, or was removed while the call that wrote the edge was under way (deleteNodes
\* takes a node's edges with it, applyBatch writes a batch's edges with its nodes).
THEOREM EdgesLead == Spec => []CascadeHolds
<1>1. IInv => CascadeHolds
  BY DEF IInv
<1> QED BY <1>1, Invariance, PTL

\* Once the forgetting of a domain has returned, nothing of that domain that a call of
\* recordEvents had stored before the forgetting began is in the store as that call stored it
\* (memorySystem.ts, forget): a write that overlapped may have put back a copy, as its own.
THEOREM ForgettingLasts == Spec => []ForgottenStays
<1>1. IInv => ForgottenStays
  BY DEF IInv
<1> QED BY <1>1, Invariance, PTL

-----------------------------------------------------------------------------
(* What consolidation lists                                                *)

\* What a filter leaves of any sequence.
LEMMA FilterElements ==
  ASSUME NEW S, NEW s \in Seq(S), NEW P \in SUBSET DOMAIN s
  PROVE  /\ Filter(s, P) \in Seq(S)
         /\ \A m : m \in Members(Filter(s, P)) <=> \E i \in P : s[i] = m
<1> DEFINE t == Filter(s, P)
<1>1. t \in Seq(S) /\ \E pos : Picks(s, P, Len(s), t, pos)
  BY FilterMeans
<1> HIDE DEF t
<1>2. PICK pos : Picks(s, P, Len(s), t, pos)
  BY <1>1
<1>3. Len(s) \in Nat /\ Len(t) \in Nat /\ DOMAIN s = 1 .. Len(s) /\ DOMAIN t = 1 .. Len(t)
  BY <1>1
<1>4. ASSUME NEW m, m \in Members(t) PROVE \E i \in P : s[i] = m
  <2>1. PICK i \in 1 .. Len(t) : t[i] = m
    BY <1>3, <1>4 DEF Members
  <2>2. pos[i] \in P /\ t[i] = s[pos[i]]
    BY <1>2 DEF Picks
  <2> QED BY <2>1, <2>2
<1>5. ASSUME NEW k \in P PROVE s[k] \in Members(t)
  <2>1. PICK i \in 1 .. Len(t) : pos[i] = k
    BY <1>2, <1>3 DEF Picks
  <2>2. t[i] = s[k]
    BY <1>2, <2>1 DEF Picks
  <2> QED BY <1>3, <2>2 DEF Members
<1> QED BY <1>1, <1>4, <1>5 DEF t

\* The nodes of a type.
LEMMA OfMeans ==
  ASSUME NEW s, NodesOK(s), NEW type
  PROVE  /\ NodesOK(Of(s, type))
         /\ \A n : n \in Members(Of(s, type)) <=> n \in Members(s) /\ n.type = type
<1> DEFINE P == {i \in DOMAIN s : s[i].type = type}
<1>1. Of(s, type) = Filter(s, P)
  BY DEF Of, Where
<1>2. P \in SUBSET DOMAIN s /\ \A n : (\E i \in P : s[i] = n) <=> n \in Members(s) /\ n.type = type
  BY DEF Members
<1> HIDE DEF P
<1>3. /\ Filter(s, P) \in Seq(Node) /\ Distinct(Filter(s, P))
      /\ \A n : n \in Members(Filter(s, P)) <=> \E i \in P : s[i] = n
  BY <1>2, FilterMembers DEF NodesOK
<1> QED BY <1>1, <1>2, <1>3 DEF NodesOK

\* The nodes that bear a mark.
LEMMA MarkedMeans ==
  ASSUME NEW s, NodesOK(s), NEW mark
  PROVE  /\ NodesOK(Marked(s, mark))
         /\ \A n : n \in Members(Marked(s, mark)) <=> n \in Members(s) /\ mark \in n.marks
<1> DEFINE P == {i \in DOMAIN s : mark \in s[i].marks}
<1>1. Marked(s, mark) = Filter(s, P)
  BY DEF Marked, Where
<1>2. P \in SUBSET DOMAIN s /\ \A n : (\E i \in P : s[i] = n) <=> n \in Members(s) /\ mark \in n.marks
  BY DEF Members
<1> HIDE DEF P
<1>3. /\ Filter(s, P) \in Seq(Node) /\ Distinct(Filter(s, P))
      /\ \A n : n \in Members(Filter(s, P)) <=> \E i \in P : s[i] = n
  BY <1>2, FilterMembers DEF NodesOK
<1> QED BY <1>1, <1>2, <1>3 DEF NodesOK

\* The same nodes, with a mark more.
LEMMA MarkMeans ==
  ASSUME NEW s, NodesOK(s), NEW mark \in Marks
  PROVE  /\ NodesOK(Mark(s, mark)) /\ Ids(Mark(s, mark)) = Ids(s)
         /\ \A n \in Members(Mark(s, mark)) :
              /\ mark \in n.marks
              /\ \E c \in Members(s) :
                   n.id = c.id /\ Alike(n, c) /\ n.marks = c.marks \cup {mark}
<1> DEFINE t == Mark(s, mark)
<1>1. s \in Seq(Node) /\ Len(s) \in Nat /\ DOMAIN s = 1 .. Len(s) /\ \A i \in DOMAIN s : s[i] \in Node
  BY DEF NodesOK
<1>2. t = [i \in 1 .. Len(s) |-> [s[i] EXCEPT !.marks = @ \cup {mark}]]
  BY <1>1 DEF Mark
<1> HIDE DEF t
<1>3. ASSUME NEW n \in Node
      PROVE  LET m == [n EXCEPT !.marks = @ \cup {mark}]
             IN  m \in Node /\ m.id = n.id /\ Alike(m, n) /\ m.marks = n.marks \cup {mark}
  BY DEF Node, Alike
<1>4. \A i \in 1 .. Len(s) :
        /\ t[i] \in Node /\ t[i].id = s[i].id /\ Alike(t[i], s[i])
        /\ t[i].marks = s[i].marks \cup {mark}
  BY <1>1, <1>2, <1>3
<1>5. t \in [1 .. Len(s) -> Node]
  BY <1>2, <1>4
<1>6. t \in Seq(Node)
  BY <1>1, <1>5, SeqDef
<1>7. DOMAIN t = 1 .. Len(s)
  BY <1>2
<1>8. NodesOK(t) /\ Ids(t) = Ids(s)
  BY <1>1, <1>4, <1>6, <1>7 DEF NodesOK, Distinct, Ids
<1> QED BY <1>1, <1>4, <1>7, <1>8 DEF t, Members

\* The members of s, by what the function k gives for each.
Groups(s, k) ==
  LET firsts == Filter(s, {i \in DOMAIN s : ~ \E h \in 1 .. i - 1 : k[s[h]] = k[s[i]]})
  IN  [g \in DOMAIN firsts |-> Filter(s, {i \in DOMAIN s : k[s[i]] = k[firsts[g]]})]

Grouping(s, k, gs) ==
  /\ gs \in Seq(Seq(Node))
  /\ \A g \in Members(gs) :
       /\ NodesOK(g) /\ g # <<>> /\ Members(g) \subseteq Members(s)
       /\ \A a, b \in Members(g) : k[a] = k[b]
  /\ \A a \in Members(s) : \E g \in Members(gs) : \A b \in Members(s) : k[b] = k[a] => b \in Members(g)

LEMMA GroupsMean ==
  ASSUME NEW s, NodesOK(s), NEW k
  PROVE  Grouping(s, k, Groups(s, k))
<1> DEFINE P == {i \in DOMAIN s : ~ \E h \in 1 .. i - 1 : k[s[h]] = k[s[i]]}
           firsts == Filter(s, P)
           Q(n) == {i \in DOMAIN s : k[s[i]] = k[n]}
           gs == [g \in DOMAIN firsts |-> Filter(s, Q(firsts[g]))]
<1>1. s \in Seq(Node) /\ Distinct(s) /\ Len(s) \in Nat /\ DOMAIN s = 1 .. Len(s)
  BY DEF NodesOK
<1>2. Groups(s, k) = gs
  BY DEF Groups
<1>3. P \in SUBSET DOMAIN s
  OBVIOUS
<1>4. \A a \in Members(s) : \E i \in P : k[s[i]] = k[a]
  <2> SUFFICES ASSUME NEW a \in Members(s) PROVE \E i \in P : k[s[i]] = k[a]
    OBVIOUS
  <2> DEFINE T == {i \in DOMAIN s : k[s[i]] = k[a]}
  <2>1. PICK j \in DOMAIN s : s[j] = a
    BY DEF Members
  <2>2. T \subseteq Nat /\ T # {}
    BY <1>1, <2>1
  <2>3. PICK x \in T : \A y \in T : x <= y
    BY <2>2, Least
  <2>4. ASSUME NEW h \in 1 .. x - 1 PROVE k[s[h]] # k[s[x]]
    <3>1. h \in DOMAIN s /\ ~ (x <= h)
      BY <1>1, <2>3
    <3>2. h \notin T
      BY <2>3, <3>1
    <3> QED BY <2>3, <3>1, <3>2
  <2>5. x \in DOMAIN s /\ k[s[x]] = k[a]
    BY <2>3
  <2> HIDE DEF T
  <2>6. x \in P
    BY <2>4, <2>5
  <2> QED BY <2>5, <2>6
<1> HIDE DEF P
<1>5. /\ firsts \in Seq(Node)
      /\ \A m : m \in Members(firsts) <=> \E i \in P : s[i] = m
  BY <1>1, <1>3, FilterElements
<1> HIDE DEF firsts
<1>6. ASSUME NEW n
      PROVE  /\ Filter(s, Q(n)) \in Seq(Node) /\ Distinct(Filter(s, Q(n)))
             /\ \A m : m \in Members(Filter(s, Q(n))) <=> m \in Members(s) /\ k[m] = k[n]
  <2>1. Q(n) \in SUBSET DOMAIN s
    OBVIOUS
  <2>2. \A m : (\E i \in Q(n) : s[i] = m) <=> m \in Members(s) /\ k[m] = k[n]
    BY DEF Members
  <2> HIDE DEF Q
  <2>3. /\ Filter(s, Q(n)) \in Seq(Node) /\ Distinct(Filter(s, Q(n)))
        /\ \A m : m \in Members(Filter(s, Q(n))) <=> \E i \in Q(n) : s[i] = m
    BY <1>1, <2>1, FilterMembers
  <2> QED BY <2>2, <2>3
<1> HIDE DEF Q
<1>7. gs \in Seq(Seq(Node))
  <2>1. Len(firsts) \in Nat /\ DOMAIN firsts = 1 .. Len(firsts)
    BY <1>5
  <2>2. gs \in [1 .. Len(firsts) -> Seq(Node)]
    BY <1>6, <2>1
  <2> HIDE DEF gs
  <2> QED BY <2>1, <2>2, SeqDef
<1>8. ASSUME NEW g \in Members(gs)
      PROVE  /\ NodesOK(g) /\ g # <<>> /\ Members(g) \subseteq Members(s)
             /\ \A a, b \in Members(g) : k[a] = k[b]
  <2>1. PICK i \in DOMAIN firsts : g = Filter(s, Q(firsts[i]))
    BY DEF Members
  <2>2. firsts[i] \in Members(s)
    BY <1>3, <1>5 DEF Members
  <2>3. firsts[i] \in Members(g)
    BY <1>6, <2>1, <2>2
  <2>4. NodesOK(g) /\ Members(g) \subseteq Members(s) /\ \A a, b \in Members(g) : k[a] = k[b]
    BY <1>6, <2>1 DEF NodesOK
  <2>5. DOMAIN g # {} /\ DOMAIN <<>> = {}
    BY <2>3 DEF Members
  <2> QED BY <2>4, <2>5
<1>9. ASSUME NEW a \in Members(s)
      PROVE  \E g \in Members(gs) : \A b \in Members(s) : k[b] = k[a] => b \in Members(g)
  <2>1. PICK i \in P : k[s[i]] = k[a]
    BY <1>4
  <2>2. PICK x \in DOMAIN firsts : firsts[x] = s[i]
    BY <1>5 DEF Members
  <2>3. gs[x] \in Members(gs) /\ gs[x] = Filter(s, Q(firsts[x]))
    BY <2>2 DEF Members
  <2> QED BY <1>6, <2>1, <2>2, <2>3
<1> QED BY <1>2, <1>7, <1>8, <1>9 DEF Grouping

\* What the jobs group by.
Looks == [n \in Node |-> <<n.sort, n.label>>]
Titles == [n \in Node |-> n.label]
Keys == [n \in Node |-> n.key]

LEMMA GroupsLike ==
  ASSUME NEW s, NodesOK(s)
  PROVE  /\ GroupsBy(s, LAMBDA n : <<n.sort, n.label>>) = Groups(s, Looks)
         /\ GroupsBy(s, LAMBDA n : n.label) = Groups(s, Titles)
         /\ GroupsBy(s, LAMBDA n : n.key) = Groups(s, Keys)
<1>1. s \in Seq(Node) /\ Len(s) \in Nat /\ DOMAIN s = 1 .. Len(s) /\ \A i \in DOMAIN s : s[i] \in Node
  BY DEF NodesOK
<1>2. ASSUME NEW P \in SUBSET DOMAIN s
      PROVE  \A g \in DOMAIN Filter(s, P) : Filter(s, P)[g] \in Node
  <2>1. Filter(s, P) \in Seq(Node)
    BY <1>1, FilterElements
  <2> QED BY <2>1
<1>3. GroupsBy(s, LAMBDA n : n.key) = Groups(s, Keys)
  <2> DEFINE P == {i \in DOMAIN s : ~ \E h \in 1 .. i - 1 : s[h].key = s[i].key}
             R == {i \in DOMAIN s : ~ \E h \in 1 .. i - 1 : Keys[s[h]] = Keys[s[i]]}
             Q(n) == {i \in DOMAIN s : s[i].key = n.key}
             T(n) == {i \in DOMAIN s : Keys[s[i]] = Keys[n]}
  <2>1. \A n \in Node : Keys[n] = n.key
    BY DEF Keys
  <2>2. R = P
    <3>1. \A i \in DOMAIN s : \A h \in 1 .. i - 1 : h \in DOMAIN s
      BY <1>1
    <3> QED BY <1>1, <2>1, <3>1
  <2>3. \A n \in Node : T(n) = Q(n)
    BY <1>1, <2>1
  <2>4. GroupsBy(s, LAMBDA n : n.key) = [g \in DOMAIN Filter(s, P) |-> Filter(s, Q(Filter(s, P)[g]))]
    BY DEF GroupsBy, Where
  <2>5. Groups(s, Keys) = [g \in DOMAIN Filter(s, R) |-> Filter(s, T(Filter(s, R)[g]))]
    BY DEF Groups
  <2>6. P \in SUBSET DOMAIN s
    OBVIOUS
  <2> HIDE DEF P, R, Q, T
  <2> QED BY <1>2, <2>2, <2>3, <2>4, <2>5, <2>6
<1>4. GroupsBy(s, LAMBDA n : n.label) = Groups(s, Titles)
  <2> DEFINE P == {i \in DOMAIN s : ~ \E h \in 1 .. i - 1 : s[h].label = s[i].label}
             R == {i \in DOMAIN s : ~ \E h \in 1 .. i - 1 : Titles[s[h]] = Titles[s[i]]}
             Q(n) == {i \in DOMAIN s : s[i].label = n.label}
             T(n) == {i \in DOMAIN s : Titles[s[i]] = Titles[n]}
  <2>1. \A n \in Node : Titles[n] = n.label
    BY DEF Titles
  <2>2. R = P
    <3>1. \A i \in DOMAIN s : \A h \in 1 .. i - 1 : h \in DOMAIN s
      BY <1>1
    <3> QED BY <1>1, <2>1, <3>1
  <2>3. \A n \in Node : T(n) = Q(n)
    BY <1>1, <2>1
  <2>4. GroupsBy(s, LAMBDA n : n.label) = [g \in DOMAIN Filter(s, P) |-> Filter(s, Q(Filter(s, P)[g]))]
    BY DEF GroupsBy, Where
  <2>5. Groups(s, Titles) = [g \in DOMAIN Filter(s, R) |-> Filter(s, T(Filter(s, R)[g]))]
    BY DEF Groups
  <2>6. P \in SUBSET DOMAIN s
    OBVIOUS
  <2> HIDE DEF P, R, Q, T
  <2> QED BY <1>2, <2>2, <2>3, <2>4, <2>5, <2>6
<1>5. GroupsBy(s, LAMBDA n : <<n.sort, n.label>>) = Groups(s, Looks)
  <2> DEFINE P == {i \in DOMAIN s : ~ \E h \in 1 .. i - 1 : <<s[h].sort, s[h].label>> = <<s[i].sort, s[i].label>>}
             R == {i \in DOMAIN s : ~ \E h \in 1 .. i - 1 : Looks[s[h]] = Looks[s[i]]}
             Q(n) == {i \in DOMAIN s : <<s[i].sort, s[i].label>> = <<n.sort, n.label>>}
             T(n) == {i \in DOMAIN s : Looks[s[i]] = Looks[n]}
  <2>1. \A n \in Node : Looks[n] = <<n.sort, n.label>>
    BY DEF Looks
  <2>2. R = P
    <3>1. \A i \in DOMAIN s : \A h \in 1 .. i - 1 : h \in DOMAIN s
      BY <1>1
    <3>2. \A i \in DOMAIN s : Looks[s[i]] = <<s[i].sort, s[i].label>>
      BY <1>1, <2>1
    <3>3. \A i \in DOMAIN s : (\E h \in 1 .. i - 1 : Looks[s[h]] = Looks[s[i]])
            <=> (\E h \in 1 .. i - 1 : <<s[h].sort, s[h].label>> = <<s[i].sort, s[i].label>>)
      <4> SUFFICES ASSUME NEW i \in DOMAIN s, NEW h \in 1 .. i - 1
                   PROVE  Looks[s[h]] = Looks[s[i]] <=> <<s[h].sort, s[h].label>> = <<s[i].sort, s[i].label>>
        OBVIOUS
      <4> QED BY <3>1, <3>2, Zenon
    <3> QED BY <3>3, Zenon
  <2>3. \A n \in Node : T(n) = Q(n)
    BY <1>1, <2>1
  <2>4. GroupsBy(s, LAMBDA n : <<n.sort, n.label>>)
          = [g \in DOMAIN Filter(s, P) |-> Filter(s, Q(Filter(s, P)[g]))]
    BY DEF GroupsBy, Where
  <2>5. Groups(s, Looks) = [g \in DOMAIN Filter(s, R) |-> Filter(s, T(Filter(s, R)[g]))]
    BY DEF Groups
  <2>6. P \in SUBSET DOMAIN s
    OBVIOUS
  <2> HIDE DEF P, R, Q, T
  <2> QED BY <1>2, <2>2, <2>3, <2>4, <2>5, <2>6
<1> QED BY <1>3, <1>4, <1>5

-----------------------------------------------------------------------------
(* What the jobs list                                                      *)

Merging == [canonical: Node, duplicate: Id]

\* The merges that entities call for.
LEMMA MergesMean ==
  ASSUME NEW s, NodesOK(s)
  PROVE  /\ Merges(s) \in Seq(Merging)
         /\ \A m \in Members(Merges(s)) :
              m.canonical \in Members(s) /\ m.duplicate \in Ids(s) /\ m.canonical.id # m.duplicate
<1> DEFINE alike == GroupsBy(s, LAMBDA n : <<n.sort, n.label>>)
           M == {m \in Merging : m.canonical \in Members(s) /\ m.duplicate \in Ids(s)
                                  /\ m.canonical.id # m.duplicate}
           ss == [i \in DOMAIN alike |-> [k \in 1 .. Len(alike[i]) - 1 |->
                    [canonical |-> alike[i][1], duplicate |-> alike[i][k + 1].id]]]
<1>1. Merges(s) = FlattenSeq(ss)
  BY DEF Merges
<1>2. alike = Groups(s, Looks)
  BY GroupsLike
<1> HIDE DEF alike
<1>3. /\ alike \in Seq(Seq(Node))
      /\ \A g \in Members(alike) : NodesOK(g) /\ g # <<>> /\ Members(g) \subseteq Members(s)
  BY <1>2, GroupsMean DEF Grouping
<1>4. ASSUME NEW i \in DOMAIN alike
      PROVE  [k \in 1 .. Len(alike[i]) - 1 |->
                [canonical |-> alike[i][1], duplicate |-> alike[i][k + 1].id]] \in Seq(M)
  <2> DEFINE g == alike[i]
  <2>1. g \in Members(alike)
    BY DEF Members
  <2> HIDE DEF g
  <2>2. g \in Seq(Node) /\ Distinct(g) /\ g # <<>> /\ Members(g) \subseteq Members(s)
    BY <1>3, <2>1 DEF NodesOK
  <2>3. Len(g) \in Nat /\ Len(g) # 0 /\ DOMAIN g = 1 .. Len(g) /\ \A k \in 1 .. Len(g) : g[k] \in Node
    BY <2>2
  <2>4. ASSUME NEW k \in 1 .. Len(g) - 1
        PROVE  [canonical |-> g[1], duplicate |-> g[k + 1].id] \in M
    <3>1. 1 \in DOMAIN g /\ k + 1 \in DOMAIN g /\ k + 1 # 1
      BY <2>3
    <3>2. g[1] \in Members(s) /\ g[k + 1] \in Members(s) /\ g[1] \in Node /\ g[k + 1] \in Node
      BY <2>2, <2>3, <3>1 DEF Members
    <3>3. g[k + 1].id \in Ids(s) /\ g[k + 1].id \in Id
      BY <3>2, NodeFields DEF Ids, Members
    <3>4. g[1].id # g[k + 1].id
      BY <2>2, <3>1 DEF Distinct
    <3> QED BY <3>2, <3>3, <3>4 DEF Merging
  <2> DEFINE n == Len(g) - 1
             f == [k \in 1 .. n |-> [canonical |-> g[1], duplicate |-> g[k + 1].id]]
  <2>5. n \in Nat
    BY <2>3
  <2>6. f \in [1 .. n -> M]
    <3> HIDE DEF M
    <3> QED BY <2>4
  <2> HIDE DEF M, f, n
  <2>7. f \in Seq(M)
    BY <2>5, <2>6, SeqDef
  <2> QED BY <2>7 DEF g, f, n
<1>5. ss \in Seq(Seq(M))
  <2>1. Len(alike) \in Nat /\ DOMAIN alike = 1 .. Len(alike)
    BY <1>3
  <2> HIDE DEF M
  <2>2. ss \in [1 .. Len(alike) -> Seq(M)]
    BY <1>4, <2>1
  <2> HIDE DEF ss
  <2> QED BY <2>1, <2>2, SeqDef
<1>6. FlattenSeq(ss) \in Seq(M)
  <2> HIDE DEF ss, M
  <2> DEFINE C == Seq(M)
  <2>1. <<>> \in C /\ \A a, b \in C : a \o b \in C
    OBVIOUS
  <2>2. ss \in Seq(C)
    BY <1>5
  <2> HIDE DEF C
  <2>3. FlattenSeq(ss) \in C
    BY <2>1, <2>2, FlattenIn
  <2> QED BY <2>3 DEF C
<1>7. \A i \in DOMAIN FlattenSeq(ss) : FlattenSeq(ss)[i] \in M
  <2> HIDE DEF ss, M
  <2> QED BY <1>6
<1> HIDE DEF ss
<1>8. FlattenSeq(ss) \in Seq(Merging)
  BY <1>6
<1> QED BY <1>1, <1>7, <1>8 DEF Members

\* A function that is given from one number to the next.
Stepping(C, n, x, step) == n \in Nat /\ x \in C /\ \A i \in 1 .. n : \A c \in C : step[<<i, c>>] \in C
Stepped(f, x, step, n) == f[0] = x /\ \A i \in 1 .. n : f[i] = step[<<i, f[i - 1]>>]

LEMMA Steps ==
  ASSUME NEW C, NEW n, NEW x, NEW step, Stepping(C, n, x, step)
  PROVE  \E f \in [0 .. n -> C] : Stepped(f, x, step, n)
<1> USE DEF Stepping, Stepped
<1> DEFINE N == {m \in Nat : m <= n => \E f \in [0 .. m -> C] : Stepped(f, x, step, m)}
<1>1. 0 \in N
  <2> DEFINE f == [i \in 0 .. 0 |-> x]
  <2>1. f \in [0 .. 0 -> C] /\ Stepped(f, x, step, 0)
    OBVIOUS
  <2> HIDE DEF f
  <2> QED BY <2>1
<1>2. ASSUME NEW m \in Nat, m \in N PROVE m + 1 \in N
  <2> SUFFICES ASSUME m + 1 <= n PROVE \E f \in [0 .. m + 1 -> C] : Stepped(f, x, step, m + 1)
    OBVIOUS
  <2>1. PICK f \in [0 .. m -> C] : Stepped(f, x, step, m)
    BY <1>2
  <2> DEFINE y == step[<<m + 1, f[m]>>]
             g == [i \in 0 .. m + 1 |-> IF i = m + 1 THEN y ELSE f[i]]
  <2>2. y \in C
    <3>1. f[m] \in C /\ m + 1 \in 1 .. n
      BY <2>1
    <3> QED BY <3>1
  <2> HIDE DEF y
  <2>3. g \in [0 .. m + 1 -> C] /\ g[m + 1] = y /\ \A i \in 0 .. m : g[i] = f[i]
    BY <2>2
  <2> HIDE DEF g
  <2>4. Stepped(g, x, step, m + 1)
    <3>1. \A i \in 1 .. m + 1 : i \in 1 .. m \/ i = m + 1
      OBVIOUS
    <3>2. \A i \in 1 .. m : i - 1 \in 0 .. m /\ i \in 0 .. m
      OBVIOUS
    <3>3. g[m + 1] = step[<<m + 1, g[m + 1 - 1]>>]
      BY <2>3 DEF y
    <3> QED BY <2>1, <2>3, <3>1, <3>2, <3>3
  <2> QED BY <2>3, <2>4
<1> HIDE DEF N
<1>3. n \in N
  BY <1>1, <1>2, SetInduction
<1> QED BY <1>3 DEF N

LEMMA ClustersMean ==
  ASSUME NEW s, NodesOK(s)
  PROVE  /\ Clusters(s) \in Seq(Seq(Node))
         /\ \A c \in Members(Clusters(s)) : c # <<>> /\ Members(c) \subseteq Members(s)
<1> DEFINE One == {c \in Seq(Node) : c # <<>> /\ Members(c) \subseteq Members(s)}
           C == Seq(One)
           Near2(i, t) == {k \in DOMAIN s : s[k].id \notin t \cup {s[i].id} /\ Near(s[i], s[k])}
           Taken(c) == UNION {Ids(c[k]) : k \in DOMAIN c}
           Adds(i, c) == IF s[i].id \in Taken(c) THEN c
                         ELSE Append(c, <<s[i]>> \o Filter(s, Near2(i, Taken(c))))
           D(f) == [i \in 0 .. Len(s) |-> IF i = 0 THEN <<>> ELSE Adds(i, f[i - 1])]
           f == CHOOSE h : h = D(h)
           step == [p \in (1 .. Len(s)) \X C |-> Adds(p[1], p[2])]
<1>1. s \in Seq(Node) /\ Len(s) \in Nat /\ DOMAIN s = 1 .. Len(s) /\ \A i \in DOMAIN s : s[i] \in Node
  BY DEF NodesOK
<1>2. ASSUME NEW i \in 1 .. Len(s), NEW t PROVE <<s[i]>> \o Filter(s, Near2(i, t)) \in One
  <2>1. Near2(i, t) \in SUBSET DOMAIN s
    OBVIOUS
  <2> DEFINE u == Filter(s, Near2(i, t))
             v == <<s[i]>> \o u
  <2> HIDE DEF Near2
  <2>2. u \in Seq(Node) /\ \A m : m \in Members(u) => m \in Members(s)
    <3>1. u \in Seq(Node) /\ \A m : m \in Members(u) <=> \E x \in Near2(i, t) : s[x] = m
      BY <1>1, <2>1, FilterElements
    <3> HIDE DEF u
    <3> QED BY <2>1, <3>1 DEF Members
  <2>3. <<s[i]>> \in Seq(Node) /\ Len(<<s[i]>>) = 1 /\ <<s[i]>>[1] = s[i] /\ s[i] \in Members(s)
    BY <1>1 DEF Members
  <2> HIDE DEF u
  <2>4. /\ v \in Seq(Node) /\ Len(v) = 1 + Len(u)
        /\ \A k \in 1 .. 1 + Len(u) : v[k] = IF k <= 1 THEN s[i] ELSE u[k - 1]
    BY <2>2, <2>3, ConcatProperties
  <2> HIDE DEF v
  <2>5. Len(u) \in Nat /\ DOMAIN u = 1 .. Len(u) /\ DOMAIN v = 1 .. 1 + Len(u)
    BY <2>2, <2>4
  <2>6. ASSUME NEW k \in DOMAIN v PROVE v[k] \in Members(s)
    <3>1. k <= 1 \/ k - 1 \in DOMAIN u
      BY <2>5
    <3> QED BY <2>2, <2>3, <2>4, <2>5, <3>1 DEF Members
  <2>7. v # <<>>
    BY <2>5, <2>4
  <2> QED BY <2>4, <2>6, <2>7 DEF u, v, Members
<1>3. \A i \in 1 .. Len(s) : \A c \in C : Adds(i, c) \in C
  <2> SUFFICES ASSUME NEW i \in 1 .. Len(s), NEW c \in C PROVE Adds(i, c) \in C
    OBVIOUS
  <2> DEFINE v == <<s[i]>> \o Filter(s, Near2(i, Taken(c)))
  <2>1. v \in One
    BY <1>2
  <2> HIDE DEF v, One
  <2>2. Append(c, v) \in Seq(One)
    BY <2>1, AppendProperties
  <2> QED BY <2>2 DEF v
<1> HIDE DEF Adds, C
<1>4. \A i \in 1 .. Len(s) : \A c \in C : step[<<i, c>>] \in C
  BY <1>3
<1>5. <<>> \in C
  BY DEF C
<1>6. PICK g \in [0 .. Len(s) -> C] :
        g[0] = <<>> /\ \A i \in 1 .. Len(s) : g[i] = step[<<i, g[i - 1]>>]
  <2> DEFINE n == Len(s)
             x == <<>>
  <2>1. Stepping(C, n, x, step)
    BY <1>1, <1>4, <1>5 DEF Stepping
  <2> HIDE DEF step, n, x, D, f
  <2>2. \E g \in [0 .. n -> C] : Stepped(g, x, step, n)
    BY <2>1, Steps
  <2> QED BY <2>2 DEF n, x, Stepped
<1>7. \A i \in 1 .. Len(s) : g[i] = Adds(i, g[i - 1])
  <2>1. \A i \in 1 .. Len(s) : g[i - 1] \in C
    BY <1>1, <1>6
  <2> QED BY <1>6, <2>1
<1>8. g = D(g)
  <2>1. \A i \in 0 .. Len(s) : g[i] = IF i = 0 THEN <<>> ELSE Adds(i, g[i - 1])
    <3>1. \A i \in 0 .. Len(s) : i = 0 \/ i \in 1 .. Len(s)
      BY <1>1
    <3> QED BY <1>6, <1>7, <3>1
  <2> QED BY <1>6, <2>1
<1>9. f = D(f)
  <2> HIDE DEF D
  <2> QED BY <1>8
<1>10. f[0] = <<>> /\ \A i \in 1 .. Len(s) : f[i] = Adds(i, f[i - 1])
  <2>1. \A i \in 0 .. Len(s) : f[i] = D(f)[i]
    BY <1>9
  <2> HIDE DEF f
  <2>2. \A i \in 0 .. Len(s) : f[i] = IF i = 0 THEN <<>> ELSE Adds(i, f[i - 1])
    BY <2>1
  <2>3. 0 \in 0 .. Len(s) /\ \A i \in 1 .. Len(s) : i \in 0 .. Len(s) /\ i # 0
    BY <1>1
  <2> QED BY <2>2, <2>3
<1> DEFINE N == {m \in Nat : m <= Len(s) => f[m] \in C}
<1> HIDE DEF f, D, step
<1>11. 0 \in N
  BY <1>5, <1>10
<1>12. ASSUME NEW m \in Nat, m \in N PROVE m + 1 \in N
  <2> SUFFICES ASSUME m + 1 <= Len(s) PROVE f[m + 1] \in C
    OBVIOUS
  <2>1. m + 1 \in 1 .. Len(s) /\ m + 1 - 1 = m /\ f[m] \in C
    BY <1>1, <1>12
  <2> QED BY <1>3, <1>10, <2>1
<1> HIDE DEF N
<1>13. f[Len(s)] \in C
  <2>1. Len(s) \in N
    BY <1>1, <1>11, <1>12, SetInduction
  <2> QED BY <1>1, <2>1 DEF N
<1> DEFINE cs == f[Len(s)]
           P == {i \in DOMAIN cs : Len(cs[i]) >= MinCluster}
<1>14. Clusters(s) = Filter(cs, P)
  BY DEF Clusters, Where, f, D, Adds, Taken, Near2
<1>15. cs \in Seq(One)
  BY <1>13 DEF C
<1>16. P \in SUBSET DOMAIN cs
  OBVIOUS
<1> HIDE DEF cs, P, One
<1>17. /\ Filter(cs, P) \in Seq(One)
       /\ \A m : m \in Members(Filter(cs, P)) <=> \E i \in P : cs[i] = m
  BY <1>15, <1>16, FilterElements
<1>18. \A m \in Members(Filter(cs, P)) : m \in One
  BY <1>15, <1>16, <1>17
<1>19. One \subseteq Seq(Node)
  BY DEF One
<1>20. Filter(cs, P) \in Seq(Seq(Node))
  BY <1>17, <1>19
<1> QED BY <1>14, <1>18, <1>20 DEF One

-----------------------------------------------------------------------------
(* The invariant of the jobs                                               *)

\* The nodes that a job has read and may write.
Held(r) ==
  CASE r.name = "episodes" -> IF r.ready THEN Members(r.seen) ELSE {}
    [] r.name = "entities" -> {m.canonical : m \in Members(r.work)}
    [] r.name = "contradictions" -> UNION {Members(g) : g \in Members(r.work)}
    [] r.name = "decay" -> Members(r.work)
    [] OTHER -> {}

\* The ends of some edges.
Touched(links) == {e.from : e \in links} \cup {e.to : e \in links}

\* What a job may link to without writing it.
Refs(r) ==
  CASE r.name \in {"concepts", "skills", "contradictions"} -> UNION {Ids(g) : g \in Members(r.work)}
    [] r.name = "entities" /\ r.ready ->
         Touched(r.seen) \ {Head(r.work).duplicate}
    [] OTHER -> {}

\* What the variables of a job are, job by job.
RecordOK(r) ==
  /\ r = [name |-> r.name, work |-> r.work, ready |-> r.ready, seen |-> r.seen, minted |-> r.minted]
  /\ r.ready \in BOOLEAN /\ r.minted \in Nat
  /\ r.ready => r.work # <<>> /\ r.name \in {"episodes", "entities", "skills"}
  /\ \/ r.name = "episodes" /\ r.work \in Seq(Node) /\ (r.ready => NodesOK(r.seen))
     \/ /\ r.name = "entities" /\ r.work \in Seq(Merging) /\ (r.ready => r.seen \subseteq Edge)
        /\ \A m \in Members(r.work) : m.canonical.id # m.duplicate
     \/ /\ r.name \in {"concepts", "skills"} /\ r.work \in Seq(Seq(Node))
        /\ \A g \in Members(r.work) : g # <<>>
     \/ /\ r.name = "contradictions" /\ r.work \in Seq(Seq(Node))
        /\ \A g \in Members(r.work) : Distinct(g)
     \/ r.name = "decay" /\ NodesOK(r.work) /\ r.seen \subseteq Id

\* Another call that overlaps the job has put the node there.
Met(j, n) == \E u \in MakersOf(n.id) : Overlap(j, u)

\* What a job holds was stored, and clashes with nothing but the work of calls that overlap.
HeldOK(j) ==
  \A c \in Held(job[j]) :
    /\ c.id \in DOMAIN makers /\ Tagged(c)
    /\ \A n \in Members(nodes) : Clash(n, c) => Apart(n, c) \/ Met(j, n)
    /\ \A d \in Held(job[j]) : Clash(c, d) => Apart(c, d)

\* What a job links to is stored, or was removed under it.
RefsOK(j) == \A id \in Refs(job[j]) : id \in Ids(nodes) \/ (id \in DOMAIN gone /\ j \in gone[id])

\* A skill that was not found is still not stored, unless by a call that overlaps.
SkillOK(j) ==
  job[j].name = "skills" /\ job[j].ready =>
    \A n \in Members(nodes) : n.key = SkillKey(Head(job[j].work)) => Met(j, n)

JobOK(j) ==
  /\ pc[j] # "busy" => job[j] = NoJob
  /\ pc[j] = "busy" =>
       /\ RecordOK(job[j]) /\ HeldOK(j) /\ RefsOK(j) /\ SkillOK(j)
       /\ \A id \in DOMAIN makers : id[1] = j => id[2] <= job[j].minted

\* All copies of a node that consolidations hold are alike, and alike to the others.
JobsAlike ==
  \A j \in Jobs : \A c \in Held(job[j]) :
    /\ \A n \in Known : n.id = c.id => Alike(n, c)
    /\ \A k \in Jobs : \A d \in Held(job[k]) : c.id = d.id => Alike(c, d)

JInv == IInv /\ DOMAIN job = Jobs /\ JobsAlike /\ \A j \in Jobs : JobOK(j)

\* Two values of a preference that are both in force.
InForce(a, b) ==
  /\ a.type = "Preference" /\ b.type = "Preference" /\ a.key = b.key /\ a.id # b.id
  /\ "superseded" \notin a.marks \cup b.marks

\* Of the values in force, those that a job has still to resolve, and none when it is past that.
ValueOK(j) ==
  Alone(j) =>
    /\ InJob(j, "contradictions") =>
         \A a, b \in Members(nodes) :
           InForce(a, b) => \E g \in Members(job[j].work) : {a.id, b.id} \subseteq Ids(g)
    /\ InJob(j, "decay") =>
         /\ Members(job[j].work) \subseteq Members(nodes)
         /\ \A a, b \in Members(nodes) : ~ InForce(a, b)

\* What a merge was read for is what the duplicate still has.
LinkOK(j) ==
  InJob(j, "entities") /\ job[j].ready /\ Alone(j) =>
    job[j].seen = Neighbors(Head(job[j].work).duplicate)

\* Consolidations run one at a time.
Serial == \A j, k \in Jobs : ~ Overlap(j, k)
Derived == {e \in edges : e.type = "DERIVED_FROM"}
AllHeld == UNION {Held(job[j]) : j \in Jobs}

\* What a job knows of the actions and of the entities it works on.
EpisodeJob(j) ==
  /\ InJob(j, "entities") =>
       /\ \A m \in Members(job[j].work) : \A e \in Derived : m.duplicate \notin {e.from, e.to}
       /\ job[j].ready => \A e \in job[j].seen : e.type # "DERIVED_FROM"
  /\ InJob(j, "episodes") /\ job[j].ready =>
       \A n \in Members(job[j].seen) : n.type = "Action" /\ \A e \in Derived : e.to # n.id

\* What is derived into an episode is an action that is marked so wherever it is held.
EpisodeNodes ==
  \A e \in Derived :
    /\ e.from \in DOMAIN makers /\ e.to \in DOMAIN makers
    /\ \A n \in Known \cup AllHeld :
         (n.id = e.to => n.type = "Action") /\ (n.id = e.from => n.type = "Observation")
    /\ \A n \in Members(nodes) \cup AllHeld : n.id = e.to => "compacted" \in n.marks

EpisodesOK ==
  Serial =>
    /\ \A d, e \in Derived : d.to = e.to => d.from = e.from
    /\ EpisodeNodes /\ \A j \in Jobs : EpisodeJob(j)

-----------------------------------------------------------------------------
(* What a job sees of the steps of others                                  *)

LEMMA MetStays ==
  ASSUME TypeOK, Forward, NEW j \in Jobs, NEW n, Met(j, n)
  PROVE  Met(j, n)'
<1>1. PICK u \in MakersOf(n.id) : Overlap(j, u)
  BY DEF Met
<1>2. u \in Flows /\ j \in Flows
  BY MakersType DEF Flows
<1>3. Overlap(j, u)' /\ u \in MakersOf(n.id)'
  BY <1>1, <1>2, OverlapStays, MakersStay
<1> QED BY <1>3 DEF Met

\* What was put into the store by another while a job is under way.
LEMMA MetSeen ==
  ASSUME TypeOK', HistoryOK', NEW j \in Jobs, pc'[j] = "busy", NEW n, n.id \in DOMAIN makers',
         NEW u \in makers'[n.id], u # j, u \notin before'[j]
  PROVE  Met(j, n)'
<1>1. u \in Stores'
  BY DEF HistoryOK
<1>2. u \in Flows /\ pc'[u] \in {"busy", "done"}
  BY <1>1 DEF Stores, Ended, Underway
<1>3. j \notin before'[u]
  BY <1>2 DEF HistoryOK, Ended
<1>4. Overlap(j, u)'
  BY <1>2, <1>3 DEF Overlap
<1> QED BY <1>4 DEF Met, MakersOf

LEMMA SeenClash ==
  ASSUME TypeOK, TypeOK', HistoryOK', Forward, NEW k \in Jobs, pc[k] = "busy", pc'[k] = "busy", Sees(k),
         NEW n \in Members(nodes')
  PROVE  \/ Met(k, n)'
         \/ \E m \in Members(nodes) : m.id = n.id /\ Alike(n, m)
<1>1. k \in Flows /\ before'[k] = before[k]
  BY DEF Forward, Flows
<1>2. ASSUME n.id \in DOMAIN makers', NEW u \in makers'[n.id], u # k, u \notin before[k]
      PROVE  Met(k, n)'
  BY <1>1, <1>2, MetSeen
<1> QED BY <1>2 DEF Sees

LEMMA OutsideHeld ==
  ASSUME TypeOK, TypeOK', HistoryOK', Forward, NEW k \in Jobs, pc[k] = "busy", pc'[k] = "busy", Sees(k),
         job'[k] = job[k], HeldOK(k)
  PROVE  HeldOK(k)'
<1> SUFFICES ASSUME NEW c \in Held(job[k])
             PROVE  /\ c.id \in DOMAIN makers' /\ Tagged(c)
                    /\ \A n \in Members(nodes') : Clash(n, c) => Apart(n, c)' \/ Met(k, n)'
                    /\ \A d \in Held(job[k]) : Clash(c, d) => Apart(c, d)'
  BY DEF HeldOK
<1>1. c.id \in DOMAIN makers' /\ Tagged(c)
  BY DEF HeldOK, Forward
<1>2. ASSUME NEW n \in Members(nodes'), Clash(n, c) PROVE Apart(n, c)' \/ Met(k, n)'
  <2>1. CASE \E m \in Members(nodes) : m.id = n.id /\ Alike(n, m)
    <3>1. PICK m \in Members(nodes) : m.id = n.id /\ Alike(n, m)
      BY <2>1
    <3>2. Clash(m, c)
      BY <1>2, <3>1 DEF Clash, Alike
    <3>3. Apart(m, c) \/ Met(k, m)
      BY <3>2 DEF HeldOK
    <3>4. Apart(n, c) \/ Met(k, n)
      BY <3>1, <3>3 DEF Apart, Met
    <3> QED BY <3>4, ApartStays, MetStays
  <2> QED BY <2>1, SeenClash
<1>3. ASSUME NEW d \in Held(job[k]), Clash(c, d) PROVE Apart(c, d)'
  <2>1. Apart(c, d)
    BY <1>3 DEF HeldOK
  <2> QED BY <2>1, ApartStays
<1> QED BY <1>1, <1>2, <1>3

LEMMA OutsideJob ==
  ASSUME TypeOK, TypeOK', HistoryOK', Forward, NEW k \in Jobs, JobOK(k), pc'[k] = pc[k], job'[k] = job[k],
         pc[k] = "busy" => Sees(k),
         \A id \in DOMAIN makers' \ DOMAIN makers : id[1] # k
  PROVE  JobOK(k)'
<1>1. CASE pc[k] # "busy"
  BY <1>1 DEF JobOK
<1>2. CASE pc[k] = "busy"
  <2>1. RecordOK(job[k]) /\ HeldOK(k) /\ RefsOK(k) /\ SkillOK(k)
        /\ \A id \in DOMAIN makers : id[1] = k => id[2] <= job[k].minted
    BY <1>2 DEF JobOK
  <2>2. HeldOK(k)'
    BY <1>2, <2>1, OutsideHeld
  <2>3. RefsOK(k)'
    BY <1>2, <2>1 DEF RefsOK, Sees
  <2>4. SkillOK(k)'
    <3> SUFFICES ASSUME job[k].name = "skills", job[k].ready, NEW n \in Members(nodes'),
                        n.key = SkillKey(Head(job[k].work))
                 PROVE  Met(k, n)'
      BY DEF SkillOK
    <3>1. CASE \E m \in Members(nodes) : m.id = n.id /\ Alike(n, m)
      <4>1. PICK m \in Members(nodes) : m.id = n.id /\ Alike(n, m)
        BY <3>1
      <4>2. Met(k, m)
        BY <2>1, <4>1 DEF SkillOK, Alike
      <4>3. Met(k, n)
        BY <4>1, <4>2 DEF Met
      <4> QED BY <4>3, MetStays
    <3> QED BY <1>2, <3>1, SeenClash
  <2>5. RecordOK(job'[k]) /\ \A id \in DOMAIN makers' : id[1] = k => id[2] <= job'[k].minted
    BY <2>1
  <2> QED BY <1>2, <2>2, <2>3, <2>4, <2>5 DEF JobOK
<1> QED BY <1>1, <1>2

\* Writes and requests to forget leave the jobs alone.
LEMMA NextJobs ==
  ASSUME TypeOK, [Next]_vars
  PROVE  \A j \in Jobs : pc'[j] = pc[j] /\ before'[j] = before[j]
<1>1. \A f \in Writers \cup Forgets : f \in Flows /\ f \notin Jobs
  BY MemoryAssumption DEF Flows
<1>2. \A j \in Jobs : j \in Flows
  BY DEF Flows
<1>3. pc \in [Flows -> {"idle", "busy", "done"}] /\ before \in [Flows -> SUBSET Flows]
  BY DEF TypeOK
<1>4. ASSUME NEW f \in Writers \cup Forgets,
             pc' = pc \/ pc' = [pc EXCEPT ![f] = "busy"] \/ pc' = [pc EXCEPT ![f] = "done"],
             before' = before \/ before' = [before EXCEPT ![f] = Ended]
      PROVE  \A j \in Jobs : pc'[j] = pc[j] /\ before'[j] = before[j]
  BY <1>1, <1>2, <1>3, <1>4
<1>5. ASSUME NEW w \in Writers, Writing(w) PROVE \A j \in Jobs : pc'[j] = pc[j] /\ before'[j] = before[j]
  <2>1. RecordEvents(w) => (pc' = [pc EXCEPT ![w] = "busy"] \/ pc' = [pc EXCEPT ![w] = "done"])
                           /\ before' = [before EXCEPT ![w] = Ended]
    BY DEF RecordEvents, Begin
  <2>2. Commit(w) \/ WriteFails(w) => pc' = [pc EXCEPT ![w] = "done"] /\ before' = before
    BY DEF Commit, WriteFails
  <2>3. Primary(w) \/ Anchor(w) \/ Supersede(w) \/ RollUp(w) \/ ResolveEntity(w) \/ Corefer(w)
          => pc' = pc /\ before' = before
    <3>1. \A r, n : GoesOn(w, r, n) => pc' = pc /\ before' = before
      BY SMTT(30) DEF GoesOn
    <3>2. Primary(w) \/ Anchor(w) => pc' = pc /\ before' = before
      BY <3>1 DEF Primary, Anchor
    <3>3. Supersede(w) \/ RollUp(w) => pc' = pc /\ before' = before
      BY Zenon, <3>1 DEF Supersede, RollUp
    <3>4. ResolveEntity(w) => pc' = pc /\ before' = before
      BY <3>1 DEF ResolveEntity
    <3>5. Corefer(w) => pc' = pc /\ before' = before
      BY Zenon, <3>1 DEF Corefer
    <3> QED BY <3>2, <3>3, <3>4, <3>5
  <2> QED BY <1>4, <1>5, <2>1, <2>2, <2>3 DEF Writing
<1>6. ASSUME NEW g \in Forgets, Forgetting(g) PROVE \A j \in Jobs : pc'[j] = pc[j] /\ before'[j] = before[j]
  <2>1. ForgetNode(g) \/ ForgetEdge(g)
          => pc' = [pc EXCEPT ![g] = "done"] /\ before' = [before EXCEPT ![g] = Ended]
    BY DEF ForgetNode, ForgetEdge, Begin, Ends
  <2>2. ListDomain(g) \/ ListTimeRange(g)
          => pc' = [pc EXCEPT ![g] = "busy"] /\ before' = [before EXCEPT ![g] = Ended]
    BY DEF ListDomain, ListTimeRange, Lists, Begin
  <2>3. FindDomain(g) => pc' = pc /\ before' = before
    BY DEF FindDomain
  <2>4. DeleteListed(g) => pc' = [pc EXCEPT ![g] = "done"] /\ before' = before
    BY DEF DeleteListed, Ends
  <2> QED BY <1>4, <1>6, <2>1, <2>2, <2>3, <2>4 DEF Forgetting
<1>7. SetPaused \/ UNCHANGED vars => pc' = pc /\ before' = before
  BY DEF SetPaused, vars
<1> QED BY <1>5, <1>6, <1>7 DEF Next

LEMMA OthersInv ==
  ASSUME JInv, [Next]_vars, UNCHANGED job
  PROVE  JInv' /\ Kept
<1>1. IInv /\ JobsAlike /\ DOMAIN job = Jobs /\ \A k \in Jobs : JobOK(k)
  BY DEF JInv
<1>2. Kept
  BY <1>1, NextInv
<1>3. IInv' /\ Forward /\ TypeOK /\ TypeOK' /\ HistoryOK'
  BY <1>1, <1>2 DEF Kept, IInv
<1>4. ASSUME NEW k \in Jobs PROVE JobOK(k)'
  <2>1. pc'[k] = pc[k] /\ before'[k] = before[k]
    BY <1>3, NextJobs
  <2>2. \A id \in DOMAIN makers' \ DOMAIN makers : id[1] # k
    BY <1>2, MemoryAssumption DEF Kept
  <2> QED BY <1>1, <1>2, <1>3, <2>1, <2>2, OutsideJob DEF Kept
<1>5. JobsAlike'
  <2> SUFFICES ASSUME NEW j \in Jobs, NEW c \in Held(job[j])
               PROVE  /\ \A n \in Known' : n.id = c.id => Alike(n, c)
                      /\ \A k \in Jobs : \A d \in Held(job[k]) : c.id = d.id => Alike(c, d)
    BY DEF JobsAlike
  <2>1. \A k \in Jobs : \A d \in Held(job[k]) : c.id = d.id => Alike(c, d)
    BY <1>1 DEF JobsAlike
  <2>2. c.id \in DOMAIN makers
    <3>1. CASE pc[j] = "busy"
      BY <1>1, <3>1 DEF JobOK, HeldOK
    <3>2. CASE pc[j] # "busy"
      <4>1. job[j].name = "none"
        BY <1>1, <3>2 DEF JobOK, NoJob
      <4> QED BY <4>1 DEF Held
    <3> QED BY <3>1, <3>2
  <2>3. ASSUME NEW n \in Known', n.id = c.id PROVE Alike(n, c)
    <3>1. PICK m \in Known : m.id = n.id /\ Alike(n, m)
      BY <1>2, <2>2, <2>3 DEF Kept, Traced
    <3>2. Alike(m, c)
      BY <1>1, <2>3, <3>1 DEF JobsAlike
    <3> QED BY <3>1, <3>2 DEF Alike
  <2> QED BY <2>1, <2>3
<1> QED BY <1>1, <1>2, <1>3, <1>4, <1>5 DEF JInv

-----------------------------------------------------------------------------
(* Steps of a job                                                          *)

\* A step of a job leaves the other jobs, and the calls of others, alone.
OwnStep(j) ==
  /\ \E s \in {"busy", "done"} : Moves(j, s)
  /\ UNCHANGED <<paused, write, forget, forgot>>
  /\ DOMAIN job' = Jobs /\ \A k \in Jobs \ {j} : job'[k] = job[k]
  /\ pc'[j] = "done" => job'[j] = NoJob
  /\ pc'[j] = "busy" => RecordOK(job'[j])

\* A job that goes on without a change of the store holds what it held, or what is stored.
Reads(j) ==
  /\ OwnStep(j)
  /\ UNCHANGED <<nodes, edges, origin, makers, gone>>
  /\ pc[j] = "busy" /\ pc'[j] = "busy" => job'[j].minted = job[j].minted
  /\ Held(job'[j]) \subseteq Held(job[j]) \/ Held(job'[j]) \subseteq Members(nodes)
  /\ Refs(job'[j]) \subseteq Refs(job[j]) \cup Ids(nodes)
  /\ job'[j].name = "skills" /\ job'[j].ready =>
       \A n \in Members(nodes) : n.key # SkillKey(Head(job'[j].work))

\* The nodes that a job writes: copies of those it held, and one that is new.
Copied(j, n) == \E c \in Held(job[j]) : n.id = c.id /\ Alike(n, c) /\ c.marks \subseteq n.marks

Minted(j, n) ==
  /\ n.id = <<j, job[j].minted + 1>> /\ Tagged(n) /\ pc'[j] = "busy" /\ job'[j].minted = job[j].minted + 1
  /\ n.key = None \/ (Held(job[j]) = {} /\ \A m \in Members(nodes) : m.key = n.key => Met(j, m))

Stored(j) ==
  /\ OwnStep(j) /\ pc[j] = "busy"
  /\ NodesOK(nodes') /\ edges' \subseteq Edge /\ Remember(j)
  /\ \A n \in Members(nodes') : n \in Members(nodes) \/ Copied(j, n) \/ Minted(j, n)
  /\ \A e \in edges' : \A id \in {e.from, e.to} :
       /\ id \in Ids(nodes) => id \in Ids(nodes')
       /\ e \in edges \/ (e.by = j /\ id \in Ids(nodes') \cup Refs(job[j]))
  /\ Held(job'[j]) \subseteq Held(job[j]) /\ Refs(job'[j]) \subseteq Refs(job[j])
  /\ pc'[j] = "busy" => ~ job'[j].ready /\ job'[j].minted \in {job[j].minted, job[j].minted + 1}

LEMMA QuietJob ==
  ASSUME NEW j, job[j] = NoJob
  PROVE  Held(job[j]) = {} /\ Refs(job[j]) = {}
BY DEF NoJob, Held, Refs

LEMMA HeldMade ==
  ASSUME NEW j \in Jobs, JobOK(j), NEW c \in Held(job[j])
  PROVE  pc[j] = "busy" /\ c.id \in DOMAIN makers /\ Tagged(c) /\ HeldOK(j)
<1>1. pc[j] = "busy"
  <2> SUFFICES ASSUME pc[j] # "busy" PROVE FALSE
    OBVIOUS
  <2>1. job[j] = NoJob
    BY DEF JobOK
  <2> QED BY <2>1, QuietJob
<1> QED BY <1>1 DEF JobOK, HeldOK

LEMMA OwnMoves ==
  ASSUME TypeOK, HistoryOK, NEW j \in Jobs, OwnStep(j)
  PROVE  /\ \A g \in Flows : pc[g] # "idle" => pc'[g] # "idle" /\ before'[g] = before[g]
         /\ \A g \in Flows \ {j} : pc'[g] = pc[g] /\ before'[g] = before[g]
         /\ pc'[j] \in {"busy", "done"} /\ Ended \subseteq Ended'
         /\ pc' \in [Flows -> {"idle", "busy", "done"}] /\ before' \in [Flows -> SUBSET Flows]
         /\ \A g \in Flows : before'[g] \subseteq Ended'
         /\ j \in Flows /\ j \notin Ended /\ j \notin Writers /\ j \notin Forgets
         /\ pc[j] = "busy" => before'[j] = before[j]
<1>1. j \in Flows /\ j \notin Writers /\ j \notin Forgets
  BY MemoryAssumption DEF Flows
<1>2. PICK s \in {"busy", "done"} : Moves(j, s)
  BY DEF OwnStep
<1>3. j \notin Ended
  BY <1>2 DEF Moves, Ended
<1>4. /\ \A g \in Flows : pc[g] # "idle" => pc'[g] # "idle" /\ before'[g] = before[g]
      /\ \A g \in Flows \ {j} : pc'[g] = pc[g] /\ before'[g] = before[g]
      /\ pc'[j] = s /\ Ended \subseteq Ended'
      /\ pc' \in [Flows -> {"idle", "busy", "done"}] /\ before' \in [Flows -> SUBSET Flows]
      /\ \A g \in Flows : before'[g] \subseteq Ended'
  BY <1>1, <1>2, MovesOn
<1> QED BY <1>1, <1>3, <1>4

\* The types of what a step of a job leaves alone.
LEMMA OwnType ==
  ASSUME TypeOK, HistoryOK, NEW j \in Jobs, OwnStep(j), StoreType'
  PROVE  TypeOK'
<1>1. UNCHANGED <<paused, write, forget, forgot>>
  BY DEF OwnStep
<1>2. paused' = paused /\ write' = write /\ forget' = forget /\ forgot' = forgot
  BY <1>1
<1>3. pc' \in [Flows -> {"idle", "busy", "done"}] /\ before' \in [Flows -> SUBSET Flows]
  BY OwnMoves
<1>4. /\ paused' \in BOOLEAN /\ forgot' \in [Domains -> SUBSET Flows]
      /\ DOMAIN write' = Writers /\ DOMAIN forget' = Forgets
  BY <1>2, Types
<1>5. \A w \in Writers : WriteType(w)'
  BY <1>2, Types DEF WriteType
<1>6. \A g \in Forgets : ForgetType(g)'
  BY <1>2, Types DEF ForgetType
<1> QED BY <1>3, <1>4, <1>5, <1>6, TypesNext

LEMMA ReadsKept ==
  ASSUME IInv, NEW j \in Jobs, Reads(j)
  PROVE  Kept
<1>1. TypeOK /\ HistoryOK /\ OwnStep(j)
  BY DEF IInv, Reads
<1>2. UNCHANGED <<nodes, edges, origin, makers, gone>> /\ UNCHANGED <<paused, write, forget, forgot>>
  BY <1>1 DEF Reads, OwnStep
<1>3. /\ UNCHANGED <<nodes, origin, makers, gone, forgot>> /\ UNCHANGED <<nodes, origin, makers, gone>>
      /\ edges' \subseteq edges /\ write' = write /\ forget' = forget
  BY <1>2
<1>4. TypeOK'
  <2>1. StoreType'
    BY <1>1, <1>3, Types, StoreTypeAlone
  <2> QED BY <1>1, <2>1, OwnType
<1>5. /\ \A g \in Flows : pc[g] # "idle" => pc'[g] # "idle" /\ before'[g] = before[g]
      /\ \A g \in Flows \ {j} : pc'[g] = pc[g] /\ before'[g] = before[g]
      /\ pc'[j] \in {"busy", "done"} /\ Ended \subseteq Ended'
      /\ \A g \in Flows : before'[g] \subseteq Ended'
      /\ j \notin Writers /\ j \notin Forgets
  BY <1>1, OwnMoves
<1>6. \A v \in Writers : write'[v] = write[v] /\ pc'[v] = pc[v]
  BY <1>3, <1>5 DEF Flows
<1>7. \A g \in Forgets : forget'[g] = forget[g] /\ pc'[g] = pc[g]
  BY <1>3, <1>5 DEF Flows
<1>8. \A k \in Jobs : pc[k] = "busy" => pc'[k] \in {"busy", "done"}
  BY <1>5 DEF Flows
<1> QED BY <1>3, <1>4, <1>5, <1>6, <1>7, <1>8, AloneInv

\* What of a job's own step holds in the next state, but for what it holds.
LEMMA OwnJob ==
  ASSUME JInv, IInv', Forward, NEW j \in Jobs, OwnStep(j),
         \A k \in Jobs \ {j} : pc[k] = "busy" => Sees(k),
         \A id \in DOMAIN makers' \ DOMAIN makers : id[1] \in Writers \cup {j}
  PROVE  \A k \in Jobs \ {j} : JobOK(k)'
<1> SUFFICES ASSUME NEW k \in Jobs \ {j} PROVE JobOK(k)'
  OBVIOUS
<1>1. TypeOK /\ HistoryOK /\ JobOK(k) /\ TypeOK' /\ HistoryOK'
  BY DEF JInv, IInv
<1>2. pc'[k] = pc[k]
  BY <1>1, OwnMoves DEF Flows
<1>3. \A id \in DOMAIN makers' \ DOMAIN makers : id[1] # k
  BY MemoryAssumption
<1>4. job'[k] = job[k]
  BY DEF OwnStep
<1> QED BY <1>1, <1>2, <1>3, <1>4, OutsideJob

LEMMA ReadsJob ==
  ASSUME JInv, NEW j \in Jobs, Reads(j), Kept
  PROVE  JobOK(j)'
<1>1. IInv /\ TypeOK /\ HistoryOK /\ CopiesOK /\ OneNodePerKey /\ JobOK(j) /\ Forward /\ TypeOK'
  BY DEF JInv, IInv, Kept
<1>2. nodes' = nodes /\ makers' = makers /\ gone' = gone
  BY DEF Reads
<1>3. OwnStep(j) /\ pc'[j] \in {"busy", "done"} /\ j \in Flows
  BY <1>1, OwnMoves DEF Reads
<1>4. CASE pc'[j] = "done"
  <2>1. job'[j] = NoJob
    BY <1>3, <1>4 DEF OwnStep
  <2> QED BY <1>4, <2>1 DEF JobOK
<1>5. CASE pc'[j] = "busy"
  <2>1. RecordOK(job'[j])
    BY <1>3, <1>5 DEF OwnStep
  <2>2. HeldOK(j)'
    <3> SUFFICES ASSUME NEW c \in Held(job'[j])
                 PROVE  /\ c.id \in DOMAIN makers /\ Tagged(c)
                        /\ \A n \in Members(nodes) : Clash(n, c) => Apart(n, c)' \/ Met(j, n)'
                        /\ \A d \in Held(job'[j]) : Clash(c, d) => Apart(c, d)'
      BY <1>2 DEF HeldOK
    <3>1. CASE Held(job'[j]) \subseteq Held(job[j])
      <4>1. HeldOK(j)
        BY <1>1, <3>1, HeldMade
      <4>2. c.id \in DOMAIN makers /\ Tagged(c)
        BY <3>1, <4>1 DEF HeldOK
      <4>3. ASSUME NEW n \in Members(nodes), Clash(n, c) PROVE Apart(n, c)' \/ Met(j, n)'
        <5>1. Apart(n, c) \/ Met(j, n)
          BY <3>1, <4>1, <4>3 DEF HeldOK
        <5> QED BY <1>1, <5>1, ApartStays, MetStays
      <4>4. ASSUME NEW d \in Held(job'[j]), Clash(c, d) PROVE Apart(c, d)'
        <5>1. Apart(c, d)
          BY <3>1, <4>1, <4>4 DEF HeldOK
        <5> QED BY <1>1, <5>1, ApartStays
      <4> QED BY <4>2, <4>3, <4>4
    <3>2. CASE Held(job'[j]) \subseteq Members(nodes)
      <4>1. c.id \in DOMAIN makers
        <5>1. c.id \in Ids(nodes)
          BY <1>1, <3>2, StoredNode
        <5> QED BY <1>1, <5>1 DEF TypeOK
      <4>2. Tagged(c)
        BY <1>1, <3>2 DEF CopiesOK, Known
      <4>3. ASSUME NEW n \in Members(nodes), NEW d \in Members(nodes), Clash(n, d) PROVE Apart(n, d)'
        BY <1>1, <4>3, KeyMembers, ApartStays
      <4> QED BY <3>2, <4>1, <4>2, <4>3
    <3> QED BY <3>1, <3>2 DEF Reads
  <2>3. RefsOK(j)'
    <3> SUFFICES ASSUME NEW id \in Refs(job'[j])
                 PROVE  id \in Ids(nodes) \/ (id \in DOMAIN gone /\ j \in gone[id])
      BY <1>2 DEF RefsOK
    <3>1. CASE id \in Refs(job[j])
      <4>1. pc[j] = "busy"
        <5>1. job[j] # NoJob
          BY <3>1, QuietJob
        <5> QED BY <1>1, <5>1 DEF JobOK
      <4> QED BY <1>1, <3>1, <4>1 DEF JobOK, RefsOK
    <3> QED BY <3>1 DEF Reads
  <2>4. SkillOK(j)'
    BY <1>2 DEF SkillOK, Reads
  <2>5. ASSUME NEW id \in DOMAIN makers, id[1] = j PROVE id[2] <= job'[j].minted
    <3>1. j \in Stores
      BY <1>1, <2>5 DEF HistoryOK
    <3>2. pc[j] = "busy"
      <4>1. pc[j] # "done"
        BY <1>3 DEF OwnStep, Moves
      <4> QED BY <3>1, <4>1, StoresMean
    <3> QED BY <1>1, <1>5, <2>5, <3>2 DEF JobOK, Reads
  <2> QED BY <1>2, <1>5, <2>1, <2>2, <2>3, <2>4, <2>5 DEF JobOK
<1> QED BY <1>3, <1>4, <1>5

LEMMA ReadsInv ==
  ASSUME JInv, NEW j \in Jobs, Reads(j)
  PROVE  JInv' /\ Kept
<1>1. IInv /\ JobsAlike /\ \A k \in Jobs : JobOK(k)
  BY DEF JInv
<1>2. Kept
  BY <1>1, ReadsKept
<1>3. OwnStep(j) /\ nodes' = nodes /\ write' = write
  BY DEF Reads, OwnStep
<1>4. Forward /\ IInv' /\ CopiesOK'
  BY <1>2 DEF Kept, IInv
<1>5. \A k \in Jobs : JobOK(k)'
  <2>1. \A id \in DOMAIN makers' \ DOMAIN makers : id[1] \in Writers \cup {j}
    BY <1>2 DEF Kept
  <2>2. \A k \in Jobs \ {j} : pc[k] = "busy" => Sees(k)
    BY <1>2 DEF Kept
  <2> QED BY <1>2, <1>3, <1>4, <2>1, <2>2, OwnJob, ReadsJob
<1>6. JobsAlike'
  <2>1. Known' = Known /\ CopiesOK
    BY <1>1, <1>3 DEF Known, IInv
  <2>2. \A k \in Jobs \ {j} : job'[k] = job[k]
    BY <1>3 DEF OwnStep
  <2>3. \A k \in Jobs : Held(job'[k]) \subseteq Held(job[k]) \/ Held(job'[k]) \subseteq Known
    BY <2>2 DEF Reads, Known
  <2>4. ASSUME NEW a, NEW b, NEW k \in Jobs, NEW l \in Jobs,
               a \in Known \cup Held(job[k]), b \in Known \cup Held(job[l]), a.id = b.id
        PROVE  Alike(a, b)
    <3>1. Alike(b, a) => Alike(a, b)
      BY DEF Alike
    <3> QED BY <1>1, <2>1, <2>4, <3>1 DEF JobsAlike, CopiesOK
  <2> QED BY <2>1, <2>3, <2>4 DEF JobsAlike
<1>7. DOMAIN job' = Jobs
  BY <1>3 DEF OwnStep
<1> QED BY <1>2, <1>4, <1>5, <1>6, <1>7 DEF JInv

-----------------------------------------------------------------------------
(* Steps of a job that change the store                                    *)

\* A node was stored before, or it is put into the store by the job.
Was(n) == \E m \in Members(nodes) : m.id = n.id /\ Alike(n, m)
Puts(j, n) == n.id \notin Ids(nodes) /\ (Copied(j, n) \/ Minted(j, n))

\* The id that a job gives to a node no other node has.
LEMMA MintedId ==
  ASSUME JInv, NEW j \in Jobs, pc[j] = "busy"
  PROVE  LET id == <<j, job[j].minted + 1>>
         IN  /\ id \notin DOMAIN makers
             /\ \A n \in Known : n.id # id
             /\ \A k \in Jobs : \A c \in Held(job[k]) : c.id # id
<1> DEFINE id == <<j, job[j].minted + 1>>
<1>1. TypeOK /\ HistoryOK /\ JobOK(j) /\ \A v \in Writers : WriteOK(v)
  BY DEF JInv, IInv
<1>2. id[1] = j /\ id[2] = job[j].minted + 1 /\ job[j].minted \in Nat
  BY <1>1 DEF JobOK, RecordOK
<1>3. id \notin DOMAIN makers
  BY <1>1, <1>2 DEF JobOK
<1> HIDE DEF id
<1>4. ASSUME NEW n \in Known PROVE n.id # id
  <2>1. CASE n \in Members(nodes)
    <3>1. n.id \in Ids(nodes)
      BY <1>1, <2>1, StoredNode
    <3> QED BY <1>1, <1>3, <3>1 DEF TypeOK
  <2>2. ASSUME NEW w \in Writers, n \in Members(write[w].staged) PROVE n.id # id
    <3>1. w # j
      BY MemoryAssumption
    <3> QED BY <1>1, <1>2, <1>3, <2>2, <3>1 DEF WriteOK
  <2> QED BY <2>1, <2>2 DEF Known
<1>5. ASSUME NEW k \in Jobs, NEW c \in Held(job[k]) PROVE c.id # id
  <2>1. c.id \in DOMAIN makers
    BY HeldMade DEF JInv
  <2> QED BY <1>3, <2>1
<1> QED BY <1>3, <1>4, <1>5 DEF id

LEMMA StoredNodes ==
  ASSUME JInv, NEW j \in Jobs, Stored(j)
  PROVE  /\ \A n \in Members(nodes') : Was(n) \/ Puts(j, n)
         /\ \A n \in Members(nodes') : Tagged(n)
<1>1. pc[j] = "busy" /\ JobsAlike /\ JobOK(j) /\ TypeOK /\ CopiesOK
  BY DEF Stored, JInv, IInv
<1>2. ASSUME NEW n \in Members(nodes) PROVE Was(n) /\ Tagged(n)
  BY <1>1 DEF Was, Alike, CopiesOK, Known
<1>3. ASSUME NEW n, Copied(j, n) PROVE (Was(n) \/ Puts(j, n)) /\ Tagged(n)
  <2>1. PICK c \in Held(job[j]) : n.id = c.id /\ Alike(n, c)
    BY <1>3 DEF Copied
  <2>2. Tagged(n)
    BY <1>1, <2>1, HeldMade DEF Tagged, Alike
  <2>3. CASE n.id \in Ids(nodes)
    <3>1. PICK m \in Members(nodes) : m.id = n.id
      BY <2>3 DEF Ids, Members
    <3>2. Alike(m, c)
      BY <1>1, <2>1, <3>1 DEF JobsAlike, Known
    <3> QED BY <2>1, <2>2, <3>1, <3>2 DEF Was, Alike
  <2> QED BY <1>3, <2>2, <2>3 DEF Puts
<1>4. ASSUME NEW n, Minted(j, n) PROVE Puts(j, n) /\ Tagged(n)
  <2>1. n.id \notin DOMAIN makers
    BY <1>1, <1>4, MintedId DEF Minted
  <2> QED BY <1>1, <1>4, <2>1 DEF Puts, Minted, TypeOK
<1> QED BY <1>2, <1>3, <1>4 DEF Stored

LEMMA StoredSees ==
  ASSUME JInv, NEW j \in Jobs, Stored(j)
  PROVE  /\ Remembered(j) /\ Forward
         /\ \A v \in Flows \ {j} : pc[v] = "busy" => Sees(v)
         /\ \A n \in Members(nodes') :
              n.id \in Ids(nodes') /\ (Puts(j, n) => n.id \in DOMAIN makers' /\ j \in makers'[n.id]
                                                     /\ origin'[n.id] = j /\ j \in MakersOf(n.id)')
<1>1. TypeOK /\ HistoryOK /\ OwnStep(j) /\ pc[j] = "busy" /\ j \in Flows
  BY OwnMoves DEF JInv, IInv, Stored
<1>2. Remembered(j)
  BY <1>1, RememberMeans DEF Stored
<1>3. /\ \A g \in Flows : pc[g] # "idle" => pc'[g] # "idle" /\ before'[g] = before[g]
      /\ \A g \in Flows \ {j} : pc'[g] = pc[g] /\ before'[g] = before[g]
      /\ pc'[j] \in {"busy", "done"} /\ j \notin Ended /\ before'[j] = before[j]
  BY <1>1, OwnMoves
<1>4. Forward
  BY <1>2, <1>3, RememberedForward
<1>5. \A n \in Members(nodes') : n.id \in Ids(nodes')
  BY DEF Ids, Members
<1>6. \A n \in Members(nodes') :
        Puts(j, n) => n.id \in DOMAIN makers' /\ j \in makers'[n.id]
                      /\ origin'[n.id] = j /\ j \in MakersOf(n.id)'
  BY <1>2, <1>5 DEF Puts, Remembered, MakersOf
<1>7. ASSUME NEW v \in Flows \ {j}, pc[v] = "busy" PROVE Sees(v)
  <2>1. \A n \in Members(nodes') :
          \/ \E m \in Members(nodes) : m.id = n.id /\ Alike(n, m)
          \/ n.id \in DOMAIN makers' /\ \E u \in makers'[n.id] : u # v /\ u \notin before[v]
    <3>1. j \notin before[v]
      BY <1>1, <1>3 DEF HistoryOK
    <3> QED BY <1>6, <1>7, <3>1, StoredNodes DEF Was
  <2>2. Robbed(v)'
    <3>1. v \notin before[j] /\ j \notin before[v]
      BY <1>1, <1>3, <1>7 DEF HistoryOK, Ended
    <3>2. Overlap(v, j)'
      BY <1>3, <1>7, <3>1 DEF Overlap
    <3> QED BY <3>2 DEF Robbed
  <2>3. /\ \A id \in Ids(nodes) \ Ids(nodes') : id \in DOMAIN gone' /\ v \in gone'[id]
        /\ \A id \in DOMAIN gone : id \in DOMAIN gone' /\ (v \in gone[id] => v \in gone'[id])
    <3>1. v \in Underway
      BY <1>7 DEF Underway
    <3> QED BY <1>2, <3>1 DEF Remembered
  <2> QED BY <2>1, <2>2, <2>3 DEF Sees
<1> QED BY <1>2, <1>4, <1>5, <1>6, <1>7

\* Whoever overlaps the job with one that made a node is a rival to it.
LEMMA MetApart ==
  ASSUME TypeOK, Forward, NEW j \in Jobs, NEW n, NEW m, Met(j, n), j \in MakersOf(m.id)'
  PROVE  Apart(n, m)'
<1>1. PICK u \in MakersOf(n.id)' : Overlap(j, u)'
  BY MetStays DEF Met
<1>2. Rivals(u, j)'
  BY <1>1 DEF Rivals, Overlap
<1> QED BY <1>1, <1>2 DEF Apart

LEMMA StoredKeys ==
  ASSUME JInv, NEW j \in Jobs, Stored(j), TypeOK'
  PROVE  OneNodePerKey'
<1>1. TypeOK /\ OneNodePerKey /\ Forward /\ JobOK(j) /\ pc[j] = "busy"
  BY StoredSees DEF JInv, IInv, Stored
<1>2. HeldOK(j)
  BY <1>1 DEF JobOK
<1>3. \A n \in Members(nodes') : Puts(j, n) => j \in MakersOf(n.id)'
  BY StoredSees
<1>4. \A n, m : Apart(n, m) => Apart(n, m)'
  BY <1>1, ApartStays
<1>5. ASSUME NEW n, NEW m \in Members(nodes'), Was(n), Puts(j, m), Clash(n, m)
      PROVE  Apart(n, m)'
  <2>1. PICK a \in Members(nodes) : a.id = n.id /\ Alike(n, a)
    BY <1>5 DEF Was
  <2>2. Clash(a, m)
    BY <1>5, <2>1 DEF Clash, Alike
  <2>3. Apart(n, m) \/ Met(j, n)
    <3>1. CASE Copied(j, m)
      <4>1. PICK c \in Held(job[j]) : m.id = c.id /\ Alike(m, c)
        BY <3>1 DEF Copied
      <4>2. Clash(a, c)
        BY <2>2, <4>1 DEF Clash, Alike
      <4>3. Apart(a, c) \/ Met(j, a)
        BY <1>2, <4>2 DEF HeldOK
      <4> QED BY <2>1, <4>1, <4>3 DEF Apart, Met
    <3>2. CASE Minted(j, m)
      <4>1. Met(j, a)
        BY <2>2, <3>2 DEF Minted, Clash
      <4> QED BY <2>1, <4>1 DEF Met
    <3> QED BY <1>5, <3>1, <3>2 DEF Puts
  <2> QED BY <1>1, <1>3, <1>4, <1>5, <2>3, MetApart
<1>6. ASSUME NEW n, NEW m, Was(n), Was(m), Clash(n, m) PROVE Apart(n, m)'
  <2>1. PICK a \in Members(nodes) : a.id = n.id /\ Alike(n, a)
    BY <1>6 DEF Was
  <2>2. PICK b \in Members(nodes) : b.id = m.id /\ Alike(m, b)
    BY <1>6 DEF Was
  <2>3. Clash(a, b)
    BY <1>6, <2>1, <2>2 DEF Clash, Alike
  <2>4. Apart(a, b)
    BY <1>1, <2>3, KeyMembers
  <2>5. Apart(n, m)
    BY <2>1, <2>2, <2>4 DEF Apart
  <2> QED BY <1>4, <2>5
<1>7. ASSUME NEW n, NEW m, Puts(j, n), Puts(j, m), Clash(n, m) PROVE Apart(n, m)'
  <2>1. CASE Copied(j, n) /\ Copied(j, m)
    <3>1. PICK c \in Held(job[j]) : n.id = c.id /\ Alike(n, c)
      BY <2>1 DEF Copied
    <3>2. PICK d \in Held(job[j]) : m.id = d.id /\ Alike(m, d)
      BY <2>1 DEF Copied
    <3>3. Clash(c, d)
      BY <1>7, <3>1, <3>2 DEF Clash, Alike
    <3>4. Apart(c, d)
      BY <1>2, <3>3 DEF HeldOK
    <3>5. Apart(n, m)
      BY <3>1, <3>2, <3>4 DEF Apart
    <3> QED BY <1>4, <3>5
  <2>2. CASE Minted(j, n) \/ Minted(j, m)
    <3>1. n.key # None /\ m.key # None
      BY <1>7 DEF Clash
    <3>2. ~ Copied(j, n) /\ ~ Copied(j, m)
      BY <2>2, <3>1 DEF Minted, Copied
    <3>3. n.id = m.id
      BY <1>7, <3>2 DEF Puts, Minted
    <3> QED BY <1>7, <3>3 DEF Clash
  <2> QED BY <1>7, <2>1, <2>2 DEF Puts
<1> SUFFICES ASSUME NEW n \in Members(nodes'), NEW m \in Members(nodes'), Clash(n, m)
             PROVE  Apart(n, m)'
  BY KeyMembersNext
<1>8. CASE Puts(j, n) /\ Was(m)
  <2>1. Clash(m, n)
    BY StoredNodes, ClashBoth
  <2>2. Apart(m, n)'
    BY <1>5, <1>8, <2>1
  <2> QED BY <2>2, ApartBothNext
<1> QED BY <1>5, <1>6, <1>7, <1>8, StoredNodes

LEMMA StoredKept ==
  ASSUME JInv, NEW j \in Jobs, Stored(j)
  PROVE  IInv'
<1>1. /\ TypeOK /\ HistoryOK /\ CopiesOK /\ OneNodePerKey /\ CascadeHolds /\ ForgottenStays
      /\ \A v \in Writers : WriteOK(v) /\ KeysOK(v)
      /\ \A g \in Forgets : ForgetOK(g)
      /\ JobsAlike /\ JobOK(j)
  BY DEF JInv, IInv
<1>2. OwnStep(j) /\ pc[j] = "busy" /\ NodesOK(nodes') /\ edges' \subseteq Edge /\ Remember(j)
  BY DEF Stored
<1>3. /\ \A g \in Flows : pc[g] # "idle" => pc'[g] # "idle" /\ before'[g] = before[g]
      /\ \A g \in Flows \ {j} : pc'[g] = pc[g] /\ before'[g] = before[g]
      /\ pc'[j] \in {"busy", "done"} /\ Ended \subseteq Ended'
      /\ \A g \in Flows : before'[g] \subseteq Ended'
      /\ j \in Flows /\ j \notin Ended /\ j \notin Writers /\ j \notin Forgets
  BY <1>1, <1>2, OwnMoves
<1>4. paused' = paused /\ write' = write /\ forget' = forget /\ forgot' = forgot
  BY <1>2 DEF OwnStep
<1>5. /\ Remembered(j) /\ Forward
      /\ \A v \in Flows \ {j} : pc[v] = "busy" => Sees(v)
  BY StoredSees
<1>6. \A n \in Members(nodes') :
        n.id \in Ids(nodes') /\ (Puts(j, n) => n.id \in DOMAIN makers' /\ j \in makers'[n.id]
                                               /\ origin'[n.id] = j /\ j \in MakersOf(n.id)')
  BY StoredSees
<1>7. \A n \in Members(nodes') : (Was(n) \/ Puts(j, n)) /\ Tagged(n)
  BY StoredNodes
<1>8. TypeOK'
  <2>1. StoreType'
    BY <1>1, <1>2, <1>3, <1>5, RememberedType
  <2> QED BY <1>1, <1>2, <2>1, OwnType
<1>9. ASSUME NEW v \in Writers PROVE WriteOK(v)' /\ KeysOK(v)'
  <2>1. v \in Flows \ {j}
    BY <1>3 DEF Flows
  <2>2. Outside(v)
    BY <1>3, <1>4, <1>5, <2>1 DEF Outside
  <2> QED BY <1>1, <1>5, <2>2, OutsideWrite, OutsideKeys
<1>10. HistoryOK'
  <2>1. \A d \in Domains : forgot'[d] \subseteq Ended'
    BY <1>1, <1>3, <1>4 DEF HistoryOK
  <2>2. Stores \subseteq Stores' /\ j \in Stores'
    <3>1. \A k \in Jobs : pc[k] = "busy" => pc'[k] \in {"busy", "done"}
      BY <1>3 DEF Flows
    <3>2. j \in Stores'
      BY <1>3 DEF Stores, Ended, Underway
    <3> QED BY <1>3, <3>1, <3>2, StoresStay
  <2>3. ASSUME NEW id \in DOMAIN makers' PROVE id[1] \in Stores' /\ makers'[id] \subseteq Stores'
    <3>1. \A x \in DOMAIN makers : x[1] \in Stores' /\ makers[x] \subseteq Stores'
      BY <1>1, <2>2 DEF HistoryOK
    <3>2. makers'[id] \subseteq Stores'
      BY <1>5, <2>2, <3>1 DEF Remembered, MakersOf
    <3>3. CASE id \in DOMAIN makers
      BY <3>1, <3>2, <3>3
    <3>4. CASE id \notin DOMAIN makers
      <4>1. id \in Ids(nodes') /\ id \notin Ids(nodes)
        BY <1>5, <3>4 DEF Remembered
      <4>2. PICK n \in Members(nodes') : n.id = id
        BY <4>1 DEF Ids, Members
      <4>3. Puts(j, n)
        <5>1. ~ Was(n)
          BY <4>1, <4>2 DEF Was, Ids, Members
        <5> QED BY <1>7, <5>1
      <4>4. ~ Copied(j, n)
        BY <1>1, <3>4, <4>2, HeldMade DEF Copied
      <4>5. id[1] = j
        BY <4>2, <4>3, <4>4 DEF Puts, Minted
      <4> QED BY <2>2, <3>2, <4>5
    <3> QED BY <3>3, <3>4
  <2> QED BY <1>3, <2>1, <2>3 DEF HistoryOK
<1>11. CopiesOK'
  <2> DEFINE Held0 == Known \cup Held(job[j])
  <2>1. \A a, b \in Held0 : a.id = b.id => Alike(a, b)
    <3>1. \A a, b : Alike(b, a) => Alike(a, b)
      BY DEF Alike
    <3> QED BY <1>1, <3>1 DEF JobsAlike, CopiesOK
  <2>2. ASSUME NEW n \in Known'
        PROVE  /\ Tagged(n)
               /\ (\E m \in Held0 : m.id = n.id /\ Alike(n, m))
                    \/ (n \in Members(nodes') /\ n.id = <<j, job[j].minted + 1>>)
    <3>1. CASE n \in Known
      BY <1>1, <3>1 DEF CopiesOK, Alike
    <3>2. CASE n \in Members(nodes')
      BY <1>7, <3>2 DEF Was, Puts, Copied, Minted, Known
    <3> QED BY <1>4, <3>1, <3>2 DEF Known
  <2>3. \A m \in Held0 : m.id # <<j, job[j].minted + 1>>
    BY <1>2, MintedId
  <2>4. ASSUME NEW n \in Known', NEW m \in Known', n.id = m.id PROVE Alike(n, m)
    <3>1. CASE \E x \in Held0 : x.id = n.id /\ Alike(n, x)
      <4>1. PICK a \in Held0 : a.id = n.id /\ Alike(n, a)
        BY <3>1
      <4>2. PICK b \in Held0 : b.id = m.id /\ Alike(m, b)
        BY <2>2, <2>3, <2>4, <4>1
      <4>3. Alike(a, b)
        BY <2>1, <2>4, <4>1, <4>2
      <4> QED BY <4>1, <4>2, <4>3 DEF Alike
    <3>2. CASE n \in Members(nodes') /\ n.id = <<j, job[j].minted + 1>>
      <4>1. m \in Members(nodes')
        BY <2>2, <2>3, <2>4, <3>2
      <4>2. n = m
        BY <1>2, <2>4, <3>2, <4>1, DistinctMembers DEF NodesOK
      <4> QED BY <4>2 DEF Alike
    <3> QED BY <2>2, <3>1, <3>2
  <2> QED BY <2>2, <2>4 DEF CopiesOK
<1>12. ASSUME NEW g \in Forgets PROVE ForgetOK(g)'
  <2>1. forget'[g] = forget[g] /\ pc'[g] = pc[g]
    BY <1>3, <1>4 DEF Flows
  <2>2. ForgetOK(g)
    BY <1>1
  <2>3. ASSUME NEW n \in Members(nodes'), forget[g].domain # None,
               n.domain = forget[g].domain, origin'[n.id] \in forget[g].listed
        PROVE  n.id \in forget[g].ids
    <3>1. CASE Was(n)
      <4>1. PICK m \in Members(nodes) : m.id = n.id /\ Alike(n, m)
        BY <3>1 DEF Was
      <4>2. m.id \in Ids(nodes) /\ m.id \in Ids(nodes')
        BY <1>6, <4>1 DEF Ids, Members
      <4>3. origin'[n.id] = origin[m.id]
        BY <1>5, <4>1, <4>2 DEF Remembered
      <4> QED BY <2>2, <2>3, <4>1, <4>3 DEF ForgetOK, Alike
    <3>2. CASE Puts(j, n)
      BY <1>3, <1>6, <2>2, <2>3, <3>2 DEF ForgetOK
    <3> QED BY <1>7, <3>1, <3>2
  <2> QED BY <1>3, <2>1, <2>2, <2>3 DEF ForgetOK, NoForget
<1>13. OneNodePerKey'
  BY <1>8, StoredKeys
<1>14. CascadeHolds'
  <2> SUFFICES ASSUME NEW e \in edges', NEW id \in {e.from, e.to}
               PROVE  id \in Ids(nodes') \/ (id \in DOMAIN gone' /\ e.by \in gone'[id])
    BY DEF CascadeHolds
  <2>1. /\ id \in Ids(nodes) => id \in Ids(nodes')
        /\ e \in edges \/ (e.by = j /\ id \in Ids(nodes') \cup Refs(job[j]))
    BY DEF Stored
  <2>2. id \in Ids(nodes') \/ id \in Ids(nodes) \/ (id \in DOMAIN gone /\ e.by \in gone[id])
    <3>1. CASE e \in edges
      BY <1>1, <3>1 DEF CascadeHolds
    <3>2. CASE e.by = j /\ id \in Ids(nodes') \cup Refs(job[j])
      BY <1>1, <1>2, <3>2 DEF JobOK, RefsOK
    <3> QED BY <2>1, <3>1, <3>2
  <2> QED BY <1>5, <2>1, <2>2 DEF Remembered
<1>15. ForgottenStays'
  <2> SUFFICES ASSUME NEW n \in Members(nodes'), n.domain # None
               PROVE  origin'[n.id] \notin forgot'[n.domain]
    BY ForgottenMembersNext
  <2>1. CASE Was(n)
    <3>1. PICK m \in Members(nodes) : m.id = n.id /\ Alike(n, m)
      BY <2>1 DEF Was
    <3>2. origin[m.id] \notin forgot[m.domain]
      BY <1>1, <3>1, ForgottenMembers DEF Alike
    <3>3. m.id \in Ids(nodes) /\ m.id \in Ids(nodes')
      BY <1>6, <3>1 DEF Ids, Members
    <3> QED BY <1>4, <1>5, <3>1, <3>2, <3>3 DEF Alike, Remembered
  <2>2. CASE Puts(j, n)
    <3>1. n \in Node
      BY <1>2, IdsType DEF NodesOK
    <3>2. n.domain \in Domains
      BY <3>1, NodeFields
    <3> QED BY <1>1, <1>3, <1>4, <1>6, <2>2, <3>2 DEF HistoryOK
  <2> QED BY <1>7, <2>1, <2>2
<1> QED BY <1>8, <1>9, <1>10, <1>11, <1>12, <1>13, <1>14, <1>15 DEF IInv

LEMMA StoredJob ==
  ASSUME JInv, NEW j \in Jobs, Stored(j)
  PROVE  JobOK(j)'
<1>1. TypeOK /\ HistoryOK /\ JobOK(j) /\ OwnStep(j) /\ pc[j] = "busy" /\ Forward /\ Remembered(j) /\ j \in Flows
  BY StoredSees, OwnMoves DEF JInv, IInv, Stored
<1>2. /\ RecordOK(job[j]) /\ HeldOK(j) /\ RefsOK(j)
      /\ \A id \in DOMAIN makers : id[1] = j => id[2] <= job[j].minted
  BY <1>1 DEF JobOK
<1>3. pc'[j] \in {"busy", "done"}
  BY <1>1, OwnMoves
<1>4. CASE pc'[j] = "done"
  <2>1. job'[j] = NoJob
    BY <1>1, <1>4 DEF OwnStep
  <2> QED BY <1>4, <2>1 DEF JobOK
<1>5. CASE pc'[j] = "busy"
  <2>1. /\ RecordOK(job'[j]) /\ Held(job'[j]) \subseteq Held(job[j]) /\ Refs(job'[j]) \subseteq Refs(job[j])
        /\ ~ job'[j].ready /\ job'[j].minted \in {job[j].minted, job[j].minted + 1}
    BY <1>1, <1>5 DEF OwnStep, Stored
  <2>2. HeldOK(j)'
    <3> SUFFICES ASSUME NEW c \in Held(job[j])
                 PROVE  /\ c.id \in DOMAIN makers' /\ Tagged(c)
                        /\ \A n \in Members(nodes') : Clash(n, c) => Apart(n, c)' \/ Met(j, n)'
                        /\ \A d \in Held(job[j]) : Clash(c, d) => Apart(c, d)'
      BY <2>1 DEF HeldOK
    <3>1. c.id \in DOMAIN makers' /\ Tagged(c)
      BY <1>1, <1>2 DEF HeldOK, Forward
    <3>2. ASSUME NEW n \in Members(nodes'), Clash(n, c) PROVE Apart(n, c)' \/ Met(j, n)'
      <4>1. CASE Was(n)
        <5>1. PICK m \in Members(nodes) : m.id = n.id /\ Alike(n, m)
          BY <4>1 DEF Was
        <5>2. Clash(m, c)
          BY <3>2, <5>1 DEF Clash, Alike
        <5>3. Apart(m, c) \/ Met(j, m)
          BY <1>2, <5>2 DEF HeldOK
        <5>4. Apart(n, c) \/ Met(j, n)
          BY <5>1, <5>3 DEF Apart, Met
        <5> QED BY <1>1, <5>4, ApartStays, MetStays
      <4>2. CASE Copied(j, n)
        <5>1. PICK d \in Held(job[j]) : n.id = d.id /\ Alike(n, d)
          BY <4>2 DEF Copied
        <5>2. Clash(d, c)
          BY <3>2, <5>1 DEF Clash, Alike
        <5>3. Apart(d, c)
          BY <1>2, <5>2 DEF HeldOK
        <5>4. Apart(n, c)
          BY <5>1, <5>3 DEF Apart
        <5> QED BY <1>1, <5>4, ApartStays
      <4>3. CASE Minted(j, n)
        BY <3>2, <4>3 DEF Minted, Clash
      <4> QED BY <4>1, <4>2, <4>3, StoredNodes DEF Puts
    <3>3. ASSUME NEW d \in Held(job[j]), Clash(c, d) PROVE Apart(c, d)'
      <4>1. Apart(c, d)
        BY <1>2, <3>3 DEF HeldOK
      <4> QED BY <1>1, <4>1, ApartStays
    <3> QED BY <3>1, <3>2, <3>3
  <2>3. RefsOK(j)'
    <3> SUFFICES ASSUME NEW id \in Refs(job[j])
                 PROVE  id \in Ids(nodes') \/ (id \in DOMAIN gone' /\ j \in gone'[id])
      BY <2>1 DEF RefsOK
    <3>1. id \in Ids(nodes) \/ (id \in DOMAIN gone /\ j \in gone[id])
      BY <1>2 DEF RefsOK
    <3>2. j \in Underway
      BY <1>1 DEF Underway
    <3> QED BY <1>1, <3>1, <3>2 DEF Remembered
  <2>4. SkillOK(j)'
    BY <2>1 DEF SkillOK
  <2>5. ASSUME NEW id \in DOMAIN makers', id[1] = j PROVE id[2] <= job'[j].minted
    <3>1. job[j].minted \in Nat
      BY <1>2 DEF RecordOK
    <3>2. CASE id \in DOMAIN makers
      <4>1. id[2] \in Nat
        BY <1>1, <3>2 DEF TypeOK, Id
      <4> QED BY <1>2, <2>1, <2>5, <3>1, <3>2, <4>1
    <3>3. CASE id \notin DOMAIN makers
      <4>1. id \in Ids(nodes') /\ id \notin Ids(nodes)
        BY <1>1, <3>3 DEF Remembered
      <4>2. PICK n \in Members(nodes') : n.id = id
        BY <4>1 DEF Ids, Members
      <4>3. Puts(j, n)
        <5>1. ~ Was(n)
          BY <4>1, <4>2 DEF Was, Ids, Members
        <5> QED BY <5>1, StoredNodes
      <4>4. ~ Copied(j, n)
        BY <1>1, <3>3, <4>2, HeldMade DEF Copied
      <4>5. id = <<j, job[j].minted + 1>> /\ job'[j].minted = job[j].minted + 1
        BY <4>2, <4>3, <4>4 DEF Puts, Minted
      <4> QED BY <3>1, <4>5
    <3> QED BY <3>2, <3>3
  <2> QED BY <1>5, <2>1, <2>2, <2>3, <2>4, <2>5 DEF JobOK
<1> QED BY <1>3, <1>4, <1>5

LEMMA StoredInv ==
  ASSUME JInv, NEW j \in Jobs, Stored(j)
  PROVE  JInv' /\ Forward
<1>1. IInv' /\ Forward /\ Remembered(j)
  BY StoredKept, StoredSees
<1>2. OwnStep(j) /\ JobsAlike /\ CopiesOK /\ TypeOK /\ (\A k \in Jobs : JobOK(k)) /\ pc[j] = "busy"
  BY DEF Stored, JInv, IInv
<1>3. \A k \in Jobs : JobOK(k)'
  <2>1. \A k \in Jobs \ {j} : pc[k] = "busy" => Sees(k)
    BY StoredSees DEF Flows
  <2>2. \A id \in DOMAIN makers' \ DOMAIN makers : id[1] \in Writers \cup {j}
    <3> SUFFICES ASSUME NEW id \in DOMAIN makers', id \notin DOMAIN makers PROVE id[1] = j
      OBVIOUS
    <3>1. id \in Ids(nodes') /\ id \notin Ids(nodes)
      BY <1>1 DEF Remembered
    <3>2. PICK n \in Members(nodes') : n.id = id
      BY <3>1 DEF Ids, Members
    <3>3. ~ Was(n)
      BY <3>1, <3>2 DEF Was, Ids, Members
    <3>4. ~ Copied(j, n)
      BY <1>2, <3>2, HeldMade DEF Copied
    <3> QED BY <3>2, <3>3, <3>4, StoredNodes DEF Puts, Minted
  <2> QED BY <1>1, <1>2, <2>1, <2>2, OwnJob, StoredJob
<1>4. JobsAlike'
  <2>1. \A k \in Jobs \ {j} : job'[k] = job[k]
    BY <1>2 DEF OwnStep
  <2>2. \A k \in Jobs : Held(job'[k]) \subseteq Held(job[k])
    BY <2>1 DEF Stored
  <2> SUFFICES ASSUME NEW k \in Jobs, NEW c \in Held(job[k])
               PROVE  /\ \A n \in Known' : n.id = c.id => Alike(n, c)
                      /\ \A l \in Jobs : \A d \in Held(job[l]) : c.id = d.id => Alike(c, d)
    BY <2>2 DEF JobsAlike
  <2>3. ASSUME NEW n \in Known', n.id = c.id PROVE Alike(n, c)
    <3>1. c.id # <<j, job[j].minted + 1>>
      BY <1>2, MintedId
    <3>2. CASE n \in Known
      BY <1>2, <2>3, <3>2 DEF JobsAlike
    <3>3. CASE n \in Members(nodes')
      <4>1. CASE Was(n)
        <5>1. PICK m \in Members(nodes) : m.id = n.id /\ Alike(n, m)
          BY <4>1 DEF Was
        <5>2. Alike(m, c)
          BY <1>2, <2>3, <5>1 DEF JobsAlike, Known
        <5> QED BY <5>1, <5>2 DEF Alike
      <4>2. CASE Copied(j, n)
        <5>1. PICK d \in Held(job[j]) : n.id = d.id /\ Alike(n, d)
          BY <4>2 DEF Copied
        <5>2. Alike(d, c)
          BY <1>2, <2>3, <5>1 DEF JobsAlike
        <5> QED BY <5>1, <5>2 DEF Alike
      <4> QED BY <2>3, <3>1, <3>3, <4>1, <4>2, StoredNodes DEF Puts, Minted
    <3>4. write' = write
      BY <1>2 DEF OwnStep
    <3> QED BY <3>2, <3>3, <3>4 DEF Known
  <2>4. \A l \in Jobs : \A d \in Held(job[l]) : c.id = d.id => Alike(c, d)
    BY <1>2 DEF JobsAlike
  <2> QED BY <2>3, <2>4
<1>5. DOMAIN job' = Jobs
  BY <1>2 DEF OwnStep
<1> QED BY <1>1, <1>3, <1>4, <1>5 DEF JInv

-----------------------------------------------------------------------------
(* The records of the jobs                                                 *)

Record(name, work, ready, seen, minted) ==
  [name |-> name, work |-> work, ready |-> ready, seen |-> seen, minted |-> minted]

Fields == {"name", "work", "ready", "seen", "minted"}

LEMMA RecordIs ==
  ASSUME NEW r, r = [x \in Fields |-> r[x]]
  PROVE  r = Record(r.name, r.work, r.ready, r.seen, r.minted)
BY DEF Record, Fields

\* A step of a job that goes on with r.
Onward(j, r) ==
  /\ pc' = pc /\ before' = before /\ UNCHANGED <<paused, write, forget, forgot>>
  /\ DOMAIN job' = Jobs /\ job'[j] = r /\ \A k \in Jobs \ {j} : job'[k] = job[k]

LEMMA OnwardOwn ==
  ASSUME JInv, NEW j \in Jobs, pc[j] = "busy", NEW r, RecordOK(r), Onward(j, r)
  PROVE  OwnStep(j) /\ job'[j] = r /\ pc'[j] = "busy"
<1>1. TypeOK
  BY DEF JInv, IInv
<1>2. pc' = [pc EXCEPT ![j] = "busy"]
  BY <1>1 DEF Onward, TypeOK
<1>3. Moves(j, "busy")
  BY <1>2 DEF Moves, Onward
<1> QED BY <1>2, <1>3 DEF OwnStep, Onward

LEMMA BusyRecord ==
  ASSUME JInv, NEW j \in Jobs, pc[j] = "busy"
  PROVE  /\ RecordOK(job[j]) /\ HeldOK(j) /\ RefsOK(j) /\ SkillOK(j)
         /\ job[j] = Record(job[j].name, job[j].work, job[j].ready, job[j].seen, job[j].minted)
         /\ j \in DOMAIN job /\ DOMAIN job[j] = Fields
         /\ job[j].ready \in BOOLEAN /\ job[j].minted \in Nat
         /\ job[j].work = <<>> => job[j].ready = FALSE
<1>1. RecordOK(job[j]) /\ HeldOK(j) /\ RefsOK(j) /\ SkillOK(j)
  BY DEF JInv, JobOK
<1>2. j \in DOMAIN job /\ DOMAIN job = Jobs
  BY DEF JInv
<1>3. DOMAIN job[j] = Fields
  BY <1>1 DEF RecordOK, Fields
<1> QED BY <1>1, <1>2, <1>3 DEF RecordOK, Record

LEMMA RecordFields ==
  ASSUME NEW name, NEW work, NEW ready, NEW seen, NEW minted
  PROVE  LET r == Record(name, work, ready, seen, minted)
         IN  /\ r.name = name /\ r.work = work /\ r.ready = ready /\ r.seen = seen /\ r.minted = minted
             /\ r = Record(r.name, r.work, r.ready, r.seen, r.minted)
BY DEF Record

\* The next job begins.
LEMMA StartsOnward ==
  ASSUME JInv, NEW j \in Jobs, pc[j] = "busy", job[j].work = <<>>, NEW name, NEW work, Starts(j, name, work)
  PROVE  /\ Onward(j, Record(name, work, FALSE, job[j].seen, job[j].minted))
         /\ UNCHANGED <<nodes, edges, origin, makers, gone>>
<1>1. j \in DOMAIN job /\ DOMAIN job[j] = Fields /\ job[j].ready = FALSE /\ DOMAIN job = Jobs
  BY BusyRecord DEF JInv
<1>2. DOMAIN job' = Jobs /\ \A k \in Jobs \ {j} : job'[k] = job[k]
  BY <1>1 DEF Starts, Fields
<1>3. job'[j] = [x \in Fields |-> job'[j][x]]
  BY <1>1 DEF Starts
<1>4. /\ job'[j].name = name /\ job'[j].work = work /\ job'[j].ready = FALSE
      /\ job'[j].seen = job[j].seen /\ job'[j].minted = job[j].minted
  BY <1>1 DEF Starts, Fields
<1>5. job'[j] = Record(name, work, FALSE, job[j].seen, job[j].minted)
  <2> DEFINE r == job'[j]
  <2>1. r = [x \in Fields |-> r[x]]
    BY <1>3
  <2> HIDE DEF r
  <2>2. r = Record(r.name, r.work, r.ready, r.seen, r.minted)
    BY <2>1, RecordIs
  <2> QED BY <1>4, <2>2 DEF r
<1> QED BY <1>2, <1>5 DEF Onward, Starts, frame, store

LEMMA ReadyOnward ==
  ASSUME JInv, NEW j \in Jobs, pc[j] = "busy", NEW seen, Ready(j, seen)
  PROVE  /\ Onward(j, Record(job[j].name, job[j].work, TRUE, seen, job[j].minted))
         /\ UNCHANGED <<nodes, edges, origin, makers, gone>>
<1>1. j \in DOMAIN job /\ DOMAIN job[j] = Fields /\ DOMAIN job = Jobs
  BY BusyRecord DEF JInv
<1>2. DOMAIN job' = Jobs /\ \A k \in Jobs \ {j} : job'[k] = job[k]
  BY <1>1 DEF Ready, Fields
<1>3. job'[j] = [x \in Fields |-> job'[j][x]]
  BY <1>1 DEF Ready
<1>4. /\ job'[j].name = job[j].name /\ job'[j].work = job[j].work /\ job'[j].ready = TRUE
      /\ job'[j].seen = seen /\ job'[j].minted = job[j].minted
  BY <1>1 DEF Ready, Fields
<1>5. job'[j] = Record(job[j].name, job[j].work, TRUE, seen, job[j].minted)
  <2> DEFINE r == job'[j]
  <2>1. r = [x \in Fields |-> r[x]]
    BY <1>3
  <2> HIDE DEF r
  <2>2. r = Record(r.name, r.work, r.ready, r.seen, r.minted)
    BY <2>1, RecordIs
  <2> QED BY <1>4, <2>2 DEF r
<1> QED BY <1>2, <1>5 DEF Onward, Ready, frame, store

LEMMA RestRecord ==
  ASSUME JInv, NEW j \in Jobs, pc[j] = "busy"
  PROVE  /\ Rest(j) = Record(job[j].name, Tail(job[j].work), FALSE, <<>>, job[j].minted)
         /\ \A m : [Rest(j) EXCEPT !.minted = @ + m]
                     = Record(job[j].name, Tail(job[j].work), FALSE, <<>>, job[j].minted + m)
<1>1. DOMAIN job[j] = Fields
  BY BusyRecord
<1>2. Rest(j) = Record(job[j].name, Tail(job[j].work), FALSE, <<>>, job[j].minted)
  <2> DEFINE r == Rest(j)
  <2>1. r = [x \in Fields |-> r[x]]
    BY <1>1 DEF Rest
  <2>2. r.name = job[j].name /\ r.work = Tail(job[j].work) /\ r.ready = FALSE /\ r.seen = <<>> /\ r.minted = job[j].minted
    BY <1>1 DEF Rest, Fields
  <2> HIDE DEF r
  <2>3. r = Record(r.name, r.work, r.ready, r.seen, r.minted)
    BY <2>1, RecordIs
  <2> QED BY <2>2, <2>3 DEF r
<1>3. ASSUME NEW m
      PROVE  [Rest(j) EXCEPT !.minted = @ + m]
               = Record(job[j].name, Tail(job[j].work), FALSE, <<>>, job[j].minted + m)
  <2> DEFINE r == [Rest(j) EXCEPT !.minted = @ + m]
  <2>1. r = [x \in Fields |-> r[x]]
    BY <1>1 DEF Rest
  <2>2. /\ r.name = job[j].name /\ r.work = Tail(job[j].work) /\ r.ready = FALSE
        /\ r.seen = <<>> /\ r.minted = job[j].minted + m
    BY <1>1 DEF Rest, Fields
  <2> HIDE DEF r
  <2>3. r = Record(r.name, r.work, r.ready, r.seen, r.minted)
    BY <2>1, RecordIs
  <2> QED BY <2>2, <2>3 DEF r
<1> QED BY <1>2, <1>3

LEMMA TailMembers ==
  ASSUME NEW S, NEW s \in Seq(S), s # <<>>
  PROVE  /\ Tail(s) \in Seq(S) /\ Members(Tail(s)) \subseteq Members(s)
         /\ Head(s) \in Members(s) /\ Head(s) \in S
         /\ \A m \in Members(s) : m = Head(s) \/ m \in Members(Tail(s))
<1>1. Len(s) \in Nat /\ Len(s) # 0 /\ DOMAIN s = 1 .. Len(s)
  OBVIOUS
<1>2. Tail(s) \in Seq(S) /\ Len(Tail(s)) = Len(s) - 1 /\ \A i \in 1 .. Len(s) - 1 : Tail(s)[i] = s[i + 1]
  BY HeadTailProperties
<1>3. DOMAIN Tail(s) = 1 .. Len(s) - 1
  BY <1>2
<1>4. Members(Tail(s)) \subseteq Members(s)
  <2> SUFFICES ASSUME NEW i \in 1 .. Len(s) - 1 PROVE Tail(s)[i] \in Members(s)
    BY <1>3 DEF Members
  <2>1. i + 1 \in DOMAIN s /\ Tail(s)[i] = s[i + 1]
    BY <1>1, <1>2
  <2> QED BY <2>1 DEF Members
<1>5. Head(s) = s[1] /\ 1 \in DOMAIN s
  BY <1>1
<1>6. ASSUME NEW i \in DOMAIN s, i # 1 PROVE s[i] \in Members(Tail(s))
  <2>1. i - 1 \in 1 .. Len(s) - 1 /\ (i - 1) + 1 = i
    BY <1>1, <1>6
  <2>2. Tail(s)[i - 1] = s[i]
    BY <1>2, <2>1
  <2> QED BY <1>3, <2>1, <2>2 DEF Members
<1>7. Head(s) \in Members(s) /\ Head(s) \in S
  BY <1>1, <1>5 DEF Members
<1> QED BY <1>2, <1>4, <1>5, <1>6, <1>7 DEF Members

\* What is left when the first piece of work is done.
LEMMA RestMeans ==
  ASSUME NEW r, RecordOK(r), r.work # <<>>, r.name # "decay", NEW m \in Nat
  PROVE  LET rest == Record(r.name, Tail(r.work), FALSE, <<>>, m)
         IN  RecordOK(rest) /\ Held(rest) \subseteq Held(r) /\ Refs(rest) \subseteq Refs(r)
<1> DEFINE rest == Record(r.name, Tail(r.work), FALSE, <<>>, m)
<1>1. /\ rest.name = r.name /\ rest.work = Tail(r.work) /\ rest.ready = FALSE /\ rest.minted = m
      /\ rest = [name |-> rest.name, work |-> rest.work, ready |-> rest.ready, seen |-> rest.seen,
                 minted |-> rest.minted]
  BY RecordFields DEF Record
<1> HIDE DEF rest
<1>2. CASE r.name = "episodes" /\ r.work \in Seq(Node)
  <2>1. Tail(r.work) \in Seq(Node)
    BY <1>2, TailMembers
  <2>2. RecordOK(rest)
    BY <1>1, <1>2, <2>1 DEF RecordOK
  <2>3. Held(rest) = {} /\ Refs(rest) = {}
    BY <1>1, <1>2 DEF Held, Refs
  <2> QED BY <2>2, <2>3 DEF rest
<1>3. CASE r.name = "entities" /\ r.work \in Seq(Merging) /\ \A x \in Members(r.work) : x.canonical.id # x.duplicate
  <2>1. Tail(r.work) \in Seq(Merging) /\ Members(Tail(r.work)) \subseteq Members(r.work)
    BY <1>3, TailMembers
  <2>2. RecordOK(rest)
    BY <1>1, <1>3, <2>1 DEF RecordOK
  <2>3. Held(rest) \subseteq Held(r) /\ Refs(rest) = {}
    BY <1>1, <1>3, <2>1 DEF Held, Refs
  <2> QED BY <2>2, <2>3 DEF rest
<1>4. CASE r.name \in {"concepts", "skills"} /\ r.work \in Seq(Seq(Node)) /\ \A g \in Members(r.work) : g # <<>>
  <2>1. Tail(r.work) \in Seq(Seq(Node)) /\ Members(Tail(r.work)) \subseteq Members(r.work)
    BY <1>4, TailMembers
  <2>2. RecordOK(rest)
    BY <1>1, <1>4, <2>1 DEF RecordOK
  <2>3. Held(rest) = {} /\ Refs(rest) \subseteq Refs(r)
    BY <1>1, <1>4, <2>1 DEF Held, Refs
  <2> QED BY <2>2, <2>3 DEF rest
<1>5. CASE r.name = "contradictions" /\ r.work \in Seq(Seq(Node)) /\ \A g \in Members(r.work) : Distinct(g)
  <2>1. Tail(r.work) \in Seq(Seq(Node)) /\ Members(Tail(r.work)) \subseteq Members(r.work)
    BY <1>5, TailMembers
  <2>2. RecordOK(rest)
    BY <1>1, <1>5, <2>1 DEF RecordOK
  <2>3. Held(rest) \subseteq Held(r) /\ Refs(rest) \subseteq Refs(r)
    BY <1>1, <1>5, <2>1 DEF Held, Refs
  <2> QED BY <2>2, <2>3 DEF rest
<1> QED BY <1>2, <1>3, <1>4, <1>5 DEF RecordOK

LEMMA SkipsReads ==
  ASSUME JInv, NEW j \in Jobs, pc[j] = "busy", job[j].work # <<>>, job[j].name # "decay", Skips(j)
  PROVE  /\ Reads(j) /\ pc'[j] = "busy"
         /\ job'[j].name = job[j].name /\ job'[j].work = Tail(job[j].work) /\ job'[j].ready = FALSE
<1> DEFINE rest == Record(job[j].name, Tail(job[j].work), FALSE, <<>>, job[j].minted)
<1>1. RecordOK(job[j]) /\ job[j].minted \in Nat /\ Rest(j) = rest
  BY BusyRecord, RestRecord
<1>2. RecordOK(rest) /\ Held(rest) \subseteq Held(job[j]) /\ Refs(rest) \subseteq Refs(job[j])
  BY <1>1, RestMeans
<1>3. /\ rest.ready = FALSE /\ rest.minted = job[j].minted
      /\ rest.name = job[j].name /\ rest.work = Tail(job[j].work)
  BY DEF Record
<1> HIDE DEF rest
<1>4. Onward(j, rest) /\ UNCHANGED <<nodes, edges, origin, makers, gone>>
  <2>1. job' = [job EXCEPT ![j] = rest] /\ DOMAIN job = Jobs
    BY <1>1 DEF Skips, JInv, rest
  <2> QED BY <2>1 DEF Onward, Skips, frame, store
<1>5. OwnStep(j) /\ job'[j] = rest /\ pc'[j] = "busy"
  BY <1>2, <1>4, OnwardOwn
<1> QED BY <1>2, <1>3, <1>4, <1>5 DEF Reads

\* A job that lists what it works on.
LEMMA ListsReads ==
  ASSUME JInv, NEW j \in Jobs, pc[j] = "busy", NEW r, RecordOK(r), Onward(j, r),
         UNCHANGED <<nodes, edges, origin, makers, gone>>, r.minted = job[j].minted, ~ r.ready,
         Held(r) \subseteq Members(nodes), Refs(r) \subseteq Ids(nodes)
  PROVE  Reads(j) /\ pc'[j] = "busy" /\ job'[j] = r
BY OnwardOwn DEF Reads

LEMMA StartsReads ==
  ASSUME JInv, NEW j \in Jobs, NEW past, Over(j, past), NEW name, NEW work, Starts(j, name, work),
         LET r == Record(name, work, FALSE, job[j].seen, job[j].minted)
         IN  RecordOK(r) /\ Held(r) \subseteq Members(nodes) /\ Refs(r) \subseteq Ids(nodes)
  PROVE  /\ Reads(j) /\ pc'[j] = "busy"
         /\ job'[j].name = name /\ job'[j].work = work /\ job'[j].ready = FALSE
<1> DEFINE r == Record(name, work, FALSE, job[j].seen, job[j].minted)
<1>1. pc[j] = "busy" /\ job[j].work = <<>>
  BY DEF Over, InJob
<1>2. Onward(j, r) /\ UNCHANGED <<nodes, edges, origin, makers, gone>>
  BY <1>1, StartsOnward
<1>3. r.minted = job[j].minted /\ r.ready = FALSE /\ r.name = name /\ r.work = work
  BY DEF Record
<1>4. RecordOK(r) /\ Held(r) \subseteq Members(nodes) /\ Refs(r) \subseteq Ids(nodes)
  OBVIOUS
<1> HIDE DEF r
<1> QED BY <1>1, <1>2, <1>3, <1>4, ListsReads

-----------------------------------------------------------------------------
(* What the jobs write                                                     *)

\* What a batch makes of the store.
Batched(ups, links) ==
  /\ edges' = edges \cup links
  /\ Ids(nodes') = Ids(nodes) \cup Ids(ups)
  /\ \A n \in Members(nodes') : n \in Members(ups) \/ (n \in Members(nodes) /\ n.id \notin Ids(ups))

\* A batch of copies of what a job holds, a new node, and links between what is there.
WritesOwn(j, ups, links) ==
  /\ NodesOK(ups) /\ \A n \in Members(ups) : Copied(j, n) \/ Minted(j, n)
  /\ \A e \in links :
       /\ e \in Edge /\ e.by = j
       /\ \A id \in {e.from, e.to} : id \in Ids(ups) \cup Refs(job[j])

LEMMA BatchStored ==
  ASSUME JInv, NEW j \in Jobs, pc[j] = "busy", OwnStep(j), NEW ups, NEW links, ApplyBatch(j, ups, links),
         WritesOwn(j, ups, links),
         Held(job'[j]) \subseteq Held(job[j]), Refs(job'[j]) \subseteq Refs(job[j]),
         pc'[j] = "busy" => ~ job'[j].ready /\ job'[j].minted \in {job[j].minted, job[j].minted + 1}
  PROVE  Stored(j) /\ Batched(ups, links)
<1>1. NodesOK(nodes) /\ edges \subseteq Edge
  BY DEF JInv, IInv, TypeOK
<1>2. nodes' = PutAll(nodes, ups) /\ edges' = edges \cup links /\ Remember(j)
  BY DEF ApplyBatch
<1>3. /\ NodesOK(nodes') /\ Ids(nodes') = Ids(nodes) \cup Ids(ups)
      /\ \A n \in Members(nodes') : n \in Members(ups) \/ (n \in Members(nodes) /\ n.id \notin Ids(ups))
  BY <1>1, <1>2, PutAllMeans DEF NodesOK, WritesOwn
<1>4. Batched(ups, links)
  BY <1>2, <1>3 DEF Batched
<1>5. edges' \subseteq Edge
  BY <1>1, <1>2 DEF WritesOwn
<1>6. \A n \in Members(nodes') : n \in Members(nodes) \/ Copied(j, n) \/ Minted(j, n)
  BY <1>3 DEF WritesOwn
<1>7. ASSUME NEW e \in edges', NEW id \in {e.from, e.to}
      PROVE  /\ id \in Ids(nodes) => id \in Ids(nodes')
             /\ e \in edges \/ (e.by = j /\ id \in Ids(nodes') \cup Refs(job[j]))
  BY <1>2, <1>3 DEF WritesOwn
<1> QED BY <1>2, <1>3, <1>4, <1>5, <1>6, <1>7 DEF Stored

LEMMA WritesOnward ==
  ASSUME JInv, NEW j \in Jobs, pc[j] = "busy", NEW ups, NEW links, NEW made, Writes(j, ups, links, made)
  PROVE  /\ Onward(j, Record(job[j].name, Tail(job[j].work), FALSE, <<>>, job[j].minted + made))
         /\ ApplyBatch(j, ups, links)
<1> DEFINE r == Record(job[j].name, Tail(job[j].work), FALSE, <<>>, job[j].minted + made)
<1>1. [Rest(j) EXCEPT !.minted = @ + made] = r
  BY RestRecord
<1>2. job' = [job EXCEPT ![j] = r] /\ DOMAIN job = Jobs
  BY <1>1 DEF Writes, JInv
<1> HIDE DEF r
<1> QED BY <1>2 DEF Onward, Writes, frame, r

\* The work that is left, whatever has been written.
LEMMA RestOnward ==
  ASSUME JInv, NEW j \in Jobs, pc[j] = "busy", job[j].work # <<>>, job[j].name # "decay", NEW made \in Nat,
         Onward(j, Record(job[j].name, Tail(job[j].work), FALSE, <<>>, job[j].minted + made))
  PROVE  /\ OwnStep(j) /\ Held(job'[j]) \subseteq Held(job[j]) /\ Refs(job'[j]) \subseteq Refs(job[j])
         /\ pc'[j] = "busy" /\ ~ job'[j].ready /\ job'[j].minted = job[j].minted + made
         /\ job'[j].name = job[j].name /\ job'[j].work = Tail(job[j].work)
<1> DEFINE r == Record(job[j].name, Tail(job[j].work), FALSE, <<>>, job[j].minted + made)
<1>1. RecordOK(job[j]) /\ job[j].minted + made \in Nat
  <2>1. RecordOK(job[j]) /\ job[j].minted \in Nat
    BY BusyRecord
  <2> QED BY <2>1
<1>2. RecordOK(r) /\ Held(r) \subseteq Held(job[j]) /\ Refs(r) \subseteq Refs(job[j])
  BY <1>1, RestMeans
<1>3. r.name = job[j].name /\ r.work = Tail(job[j].work) /\ ~ r.ready /\ r.minted = job[j].minted + made
  BY DEF Record
<1>4. Onward(j, r)
  OBVIOUS
<1> HIDE DEF r
<1>5. OwnStep(j) /\ job'[j] = r /\ pc'[j] = "busy"
  BY <1>2, <1>4, OnwardOwn
<1> QED BY <1>2, <1>3, <1>5

LEMMA WritesStored ==
  ASSUME JInv, NEW j \in Jobs, pc[j] = "busy", job[j].work # <<>>, job[j].name # "decay", NEW made \in {0, 1},
         NEW ups, NEW links, Writes(j, ups, links, made),
         pc'[j] = "busy" /\ job'[j].minted = job[j].minted + made => WritesOwn(j, ups, links)
  PROVE  /\ Stored(j) /\ Batched(ups, links)
         /\ job'[j].name = job[j].name /\ job'[j].work = Tail(job[j].work) /\ pc'[j] = "busy"
<1>1. /\ Onward(j, Record(job[j].name, Tail(job[j].work), FALSE, <<>>, job[j].minted + made))
      /\ ApplyBatch(j, ups, links)
  BY WritesOnward
<1>2. /\ OwnStep(j) /\ Held(job'[j]) \subseteq Held(job[j]) /\ Refs(job'[j]) \subseteq Refs(job[j])
      /\ pc'[j] = "busy" /\ ~ job'[j].ready /\ job'[j].minted = job[j].minted + made
      /\ job'[j].name = job[j].name /\ job'[j].work = Tail(job[j].work)
  BY ZenonT(30), <1>1, RestOnward
<1>3. job'[j].minted \in {job[j].minted, job[j].minted + 1}
  <2>1. job[j].minted \in Nat
    BY BusyRecord
  <2> QED BY <1>2, <2>1
<1> QED BY <1>1, <1>2, <1>3, BatchStored

LEMMA NewEdgesMean ==
  ASSUME NEW j \in Jobs, NEW type \in EdgeTypes, NEW froms \in SUBSET Id, NEW tos \in SUBSET Id,
         NEW e \in NewEdges(j, type, froms, tos)
  PROVE  e \in Edge /\ e.by = j /\ e.type = type /\ e.from \in froms /\ e.to \in tos
BY DEF NewEdges, Edge

\* The node that a job makes.
IsMade(j, n, type, key, marks) ==
  n \in Node /\ n.id = <<j, job[j].minted + 1>> /\ n.type = type /\ n.key = key /\ n.marks = marks

LEMMA MadeMeans ==
  ASSUME JInv, NEW j \in Jobs, pc[j] = "busy", NEW type \in NodeTypes, NEW key \in Key \cup {None},
         NEW label \in Names, NEW marks \in SUBSET Marks
  PROVE  /\ IsMade(j, Made(j, type, key, label), type, key, {})
         /\ IsMade(j, [Made(j, type, key, label) EXCEPT !.marks = marks], type, key, marks)
<1> DEFINE id == <<j, job[j].minted + 1>>
<1>1. id \in Id
  <2>1. job[j].minted \in Nat
    BY BusyRecord
  <2>2. job[j].minted + 1 \in Nat \ {0}
    BY <2>1
  <2> QED BY <2>2 DEF Id
<1> HIDE DEF id
<1>2. Made(j, type, key, label) =
        [id |-> id, type |-> type, key |-> key, label |-> label, domain |-> None, sort |-> None, marks |-> {}]
  BY DEF Made, NewNode, id
<1>3. [Made(j, type, key, label) EXCEPT !.marks = marks] =
        [id |-> id, type |-> type, key |-> key, label |-> label, domain |-> None, sort |-> None, marks |-> marks]
  BY <1>2
<1> QED BY <1>1, <1>2, <1>3 DEF IsMade, Node, id

LEMMA OneNode ==
  ASSUME NEW n \in Node
  PROVE  NodesOK(<<n>>) /\ Members(<<n>>) = {n} /\ Ids(<<n>>) = {n.id}
<1> DEFINE s == <<n>>
<1>1. s \in Seq(Node) /\ DOMAIN s = {1} /\ s[1] = n
  OBVIOUS
<1> HIDE DEF s
<1>2. NodesOK(s) /\ Members(s) = {n} /\ Ids(s) = {n.id}
  BY <1>1 DEF NodesOK, Distinct, Members, Ids
<1> QED BY <1>2 DEF s

LEMMA OneMore ==
  ASSUME NEW n \in Node, NEW t, NodesOK(t), n.id \notin Ids(t)
  PROVE  /\ NodesOK(<<n>> \o t) /\ Ids(<<n>> \o t) = {n.id} \cup Ids(t)
         /\ \A m \in Members(<<n>> \o t) : m = n \/ m \in Members(t)
<1> DEFINE s == <<n>>
           u == s \o t
<1>1. s \in Seq(Node) /\ Len(s) = 1 /\ s[1] = n /\ t \in Seq(Node) /\ Distinct(t)
  BY DEF NodesOK
<1> HIDE DEF s
<1>2. /\ u \in Seq(Node) /\ Len(u) = Len(s) + Len(t)
      /\ \A i \in 1 .. Len(s) + Len(t) : u[i] = IF i <= Len(s) THEN s[i] ELSE t[i - Len(s)]
  BY <1>1, ConcatProperties
<1> HIDE DEF u
<1>3. Len(t) \in Nat /\ DOMAIN t = 1 .. Len(t) /\ DOMAIN u = 1 .. 1 + Len(t)
  BY <1>1, <1>2
<1>4. \A i \in DOMAIN u : (i = 1 /\ u[i] = n) \/ (i # 1 /\ i - 1 \in DOMAIN t /\ u[i] = t[i - 1])
  BY <1>1, <1>2, <1>3
<1>5. 1 \in DOMAIN u /\ \A i \in DOMAIN t : i + 1 \in DOMAIN u /\ u[i + 1] = t[i]
  <2> SUFFICES ASSUME NEW i \in DOMAIN t PROVE i + 1 \in DOMAIN u /\ u[i + 1] = t[i]
    BY <1>3
  <2> DEFINE k == i + 1
  <2>1. k \in DOMAIN u /\ k # 1 /\ k - 1 = i
    BY <1>3
  <2> HIDE DEF k
  <2>2. u[k] = t[k - 1]
    BY <1>4, <2>1
  <2> QED BY <2>1, <2>2 DEF k
<1>6. Distinct(u)
  <2> SUFFICES ASSUME NEW i \in DOMAIN u, NEW k \in DOMAIN u, u[i].id = u[k].id PROVE i = k
    BY DEF Distinct
  <2>1. \A l \in DOMAIN t : t[l].id # n.id
    BY DEF Ids
  <2>2. CASE i = 1 \/ k = 1
    BY <1>4, <2>1, <2>2
  <2>3. CASE i # 1 /\ k # 1
    <3>1. i - 1 \in DOMAIN t /\ k - 1 \in DOMAIN t /\ t[i - 1].id = t[k - 1].id
      BY <1>4, <2>3
    <3>2. i - 1 = k - 1
      BY <1>1, <3>1 DEF Distinct
    <3> QED BY <1>3, <3>2
  <2> QED BY <2>2, <2>3
<1>7. \A m \in Members(u) : m = n \/ m \in Members(t)
  BY <1>4 DEF Members
<1>8. Ids(u) = {n.id} \cup Ids(t)
  <2>1. \A i \in DOMAIN u : u[i].id \in {n.id} \cup Ids(t)
    BY <1>4 DEF Ids
  <2>2. n.id \in Ids(u) /\ \A i \in DOMAIN t : t[i].id \in Ids(u)
    BY <1>4, <1>5 DEF Ids
  <2> QED BY <2>1, <2>2 DEF Ids
<1> QED BY <1>2, <1>6, <1>7, <1>8 DEF s, u, NodesOK

-----------------------------------------------------------------------------
(* The steps of consolidate()                                              *)

\* What every step of a job starts from.
LEMMA JobStarts ==
  ASSUME JInv, NEW j \in Jobs
  PROVE  /\ NodesOK(nodes) /\ nodes \in Seq(Node) /\ TypeOK /\ JobOK(j) /\ job[j].work = job[j].work
         /\ pc[j] # "busy" => job[j] = NoJob
BY DEF JInv, IInv, TypeOK, NodesOK, JobOK

LEMMA ConsolidateReads ==
  ASSUME JInv, NEW j \in Jobs, Consolidate(j)
  PROVE  Reads(j) /\ pc'[j] = "busy" /\ job'[j].name = "episodes" /\ job'[j].ready = FALSE
<1> DEFINE sessions == Of(nodes, "Session")
           r == Record("episodes", sessions, FALSE, <<>>, 0)
<1>1. pc[j] = "idle" /\ before' = [before EXCEPT ![j] = Ended] /\ TypeOK /\ DOMAIN job = Jobs
  BY JobStarts DEF Consolidate, Begin, JInv
<1>2. job[j] = NoJob /\ NodesOK(sessions)
  BY <1>1, JobStarts, OfMeans
<1>3. [NoJob EXCEPT !.name = "episodes", !.work = sessions] = r
  <2> DEFINE q == [NoJob EXCEPT !.name = "episodes", !.work = sessions]
  <2> HIDE DEF sessions
  <2>1. DOMAIN NoJob = Fields
    BY DEF NoJob, Fields
  <2>2. q = [x \in Fields |-> q[x]]
    BY <2>1
  <2>3. q.name = "episodes" /\ q.work = sessions /\ q.ready = FALSE /\ q.seen = <<>> /\ q.minted = 0
    BY <2>1 DEF NoJob, Fields
  <2> HIDE DEF q
  <2>4. q = Record(q.name, q.work, q.ready, q.seen, q.minted)
    BY <2>2, RecordIs
  <2> QED BY <2>3, <2>4 DEF q
<1>4. job' = [job EXCEPT ![j] = r]
  BY <1>3 DEF Consolidate
<1>5. /\ r.name = "episodes" /\ r.work = sessions /\ r.ready = FALSE /\ r.seen = <<>> /\ r.minted = 0
      /\ r = [name |-> r.name, work |-> r.work, ready |-> r.ready, seen |-> r.seen, minted |-> r.minted]
  BY DEF Record
<1> HIDE DEF r, sessions
<1>6. RecordOK(r) /\ Held(r) = {} /\ Refs(r) = {}
  <2>1. sessions \in Seq(Node)
    BY <1>2 DEF NodesOK
  <2>2. RecordOK(r)
    <3>1. r.ready \in BOOLEAN /\ r.minted \in Nat /\ ~ r.ready
      <4>1. r.minted \in Nat
        BY <1>5
      <4>2. r.ready = FALSE
        BY <1>5
      <4> QED BY <4>1, <4>2
    <3>2. r.name = "episodes" /\ r.work \in Seq(Node)
      BY <1>5, <2>1
    <3>3. r = [name |-> r.name, work |-> r.work, ready |-> r.ready, seen |-> r.seen, minted |-> r.minted]
      BY <1>5
    <3> QED BY <3>1, <3>2, <3>3 DEF RecordOK
  <2>3. Held(r) = {} /\ Refs(r) = {}
    BY <1>5 DEF Held, Refs
  <2> QED BY <2>2, <2>3
<1>7. DOMAIN job' = Jobs /\ job'[j] = r /\ \A k \in Jobs \ {j} : job'[k] = job[k]
  BY <1>1, <1>4
<1>8. pc' = [pc EXCEPT ![j] = "busy"] /\ pc'[j] = "busy"
  BY <1>1 DEF Consolidate, TypeOK, Flows
<1>9. OwnStep(j)
  BY <1>1, <1>6, <1>7, <1>8 DEF OwnStep, Moves, Consolidate, frame
<1> QED BY <1>1, <1>5, <1>6, <1>7, <1>8, <1>9 DEF Reads, Consolidate, store

\* A job that has read what it needs for the first piece of its work.
LEMMA ReadyReads ==
  ASSUME JInv, NEW j \in Jobs, pc[j] = "busy", NEW seen, Ready(j, seen), NEW r,
         r = Record(job[j].name, job[j].work, TRUE, seen, job[j].minted), RecordOK(r),
         Held(r) \subseteq Held(job[j]) \/ Held(r) \subseteq Members(nodes),
         Refs(r) \subseteq Refs(job[j]) \cup Ids(nodes),
         job[j].name = "skills" => \A n \in Members(nodes) : n.key # SkillKey(Head(job[j].work))
  PROVE  /\ Reads(j) /\ pc'[j] = "busy" /\ job'[j].name = job[j].name /\ job'[j].work = job[j].work
         /\ job'[j].ready = TRUE /\ job'[j].seen = seen
<1>1. Onward(j, r) /\ UNCHANGED <<nodes, edges, origin, makers, gone>>
  BY ReadyOnward
<1>2. OwnStep(j) /\ job'[j] = r /\ pc'[j] = "busy"
  BY <1>1, OnwardOwn
<1>3. /\ r.name = job[j].name /\ r.work = job[j].work /\ r.ready = TRUE /\ r.seen = seen
      /\ r.minted = job[j].minted
  BY DEF Record
<1> QED BY <1>1, <1>2, <1>3 DEF Reads

\* The actions that belong to a session are all of one episode, if they are of any.
LEMMA FindActionsReads ==
  ASSUME JInv, NEW j \in Jobs, FindActions(j)
  PROVE  /\ Reads(j) /\ pc'[j] = "busy" /\ job'[j].name = "episodes"
         /\ job'[j].ready =>
              \A n \in Members(job'[j].seen) :
                n \in Members(nodes) /\ n.type = "Action" /\ "compacted" \notin n.marks
<1> DEFINE session == Head(job[j].work).id
           all == Of(nodes, "Action")
           P == {i \in DOMAIN all :
                   \E e \in edges : e.type = "BELONGS_TO" /\ e.from = all[i].id /\ e.to = session}
           actions == Filter(all, P)
<1>1. pc[j] = "busy" /\ job[j].name = "episodes" /\ job[j].work # <<>>
  BY DEF FindActions, HasWork, InJob
<1>2. Skips(j) \/ (Marked(actions, "compacted") = <<>> /\ Ready(j, actions))
  BY DEF FindActions, Where
<1>3. NodesOK(all) /\ \A n \in Members(all) : n \in Members(nodes) /\ n.type = "Action"
  BY JobStarts, OfMeans
<1> HIDE DEF all
<1>4. P \in SUBSET DOMAIN all
  OBVIOUS
<1> HIDE DEF P
<1>5. NodesOK(actions) /\ \A n \in Members(actions) : n \in Members(nodes) /\ n.type = "Action"
  <2>1. /\ actions \in Seq(Node) /\ Distinct(actions)
        /\ \A n : n \in Members(actions) <=> \E i \in P : all[i] = n
    BY <1>3, <1>4, FilterMembers DEF NodesOK
  <2> HIDE DEF actions
  <2> QED BY <1>3, <1>4, <2>1 DEF NodesOK, Members
<1> HIDE DEF actions
<1>6. CASE Skips(j)
  BY <1>1, <1>6, SkipsReads
<1>7. CASE Marked(actions, "compacted") = <<>> /\ Ready(j, actions)
  <2> DEFINE r == Record(job[j].name, job[j].work, TRUE, actions, job[j].minted)
  <2>1. \A n \in Members(actions) : "compacted" \notin n.marks
    <3>1. \A n : n \in Members(<<>>) <=> n \in Members(actions) /\ "compacted" \in n.marks
      BY <1>5, <1>7, MarkedMeans
    <3> QED BY <3>1 DEF Members
  <2>2. /\ r.name = "episodes" /\ r.work = job[j].work /\ r.ready = TRUE /\ r.seen = actions
        /\ r.minted = job[j].minted
        /\ r = [name |-> r.name, work |-> r.work, ready |-> r.ready, seen |-> r.seen, minted |-> r.minted]
    BY <1>1 DEF Record
  <2>3. RecordOK(job[j])
    BY <1>1, BusyRecord
  <2> HIDE DEF r
  <2>4. RecordOK(r)
    BY <1>1, <1>5, <2>2, <2>3 DEF RecordOK
  <2>5. Held(r) \subseteq Members(nodes) /\ Refs(r) = {}
    BY <1>5, <2>2 DEF Held, Refs
  <2>6. /\ Reads(j) /\ pc'[j] = "busy" /\ job'[j].name = job[j].name /\ job'[j].seen = actions
    BY <1>1, <1>7, <2>4, <2>5, ReadyReads DEF r
  <2> QED BY <1>1, <1>5, <2>1, <2>6
<1> QED BY <1>2, <1>6, <1>7

\* An action that is written has both marks of Cooled.
LEMMA CooledMeans ==
  ASSUME NEW s, NodesOK(s)
  PROVE  /\ NodesOK(Cooled(s)) /\ Ids(Cooled(s)) = Ids(s)
         /\ \A n \in Members(Cooled(s)) :
              /\ "compacted" \in n.marks
              /\ \E c \in Members(s) : n.id = c.id /\ Alike(n, c) /\ c.marks \subseteq n.marks
<1> DEFINE t == Mark(s, "cold")
<1>1. "cold" \in Marks /\ "compacted" \in Marks
  BY DEF Marks
<1>2. /\ NodesOK(t) /\ Ids(t) = Ids(s)
      /\ \A n \in Members(t) :
           \E c \in Members(s) : n.id = c.id /\ Alike(n, c) /\ n.marks = c.marks \cup {"cold"}
  BY <1>1, MarkMeans
<1> HIDE DEF t
<1>3. /\ NodesOK(Mark(t, "compacted")) /\ Ids(Mark(t, "compacted")) = Ids(t)
      /\ \A n \in Members(Mark(t, "compacted")) :
           /\ "compacted" \in n.marks
           /\ \E c \in Members(t) : n.id = c.id /\ Alike(n, c) /\ n.marks = c.marks \cup {"compacted"}
  BY <1>1, <1>2, MarkMeans
<1>4. Cooled(s) = Mark(t, "compacted")
  BY DEF Cooled, t
<1>5. \A a, b, c : Alike(a, b) /\ Alike(b, c) => Alike(a, c)
  BY DEF Alike
<1> QED BY <1>2, <1>3, <1>4, <1>5

\* The batch of an episode: the episode, the actions with their new marks, and the links.
Episode(j, ups, links) ==
  \E id : /\ id = <<j, job[j].minted + 1>>
          /\ \A n \in Members(ups) :
               \/ n.id = id /\ n.type = "Observation" /\ "episode" \in n.marks
               \/ "compacted" \in n.marks /\ \E c \in Members(job[j].seen) : n.id = c.id /\ Alike(n, c)
          /\ \A e \in links : e.type = "DERIVED_FROM" /\ e.from = id /\ e.to \in Ids(job[j].seen)
          /\ Ids(ups) = {id} \cup Ids(job[j].seen)

LEMMA CompactStored ==
  ASSUME JInv, NEW j \in Jobs, Compact(j)
  PROVE  \E ups, links :
           /\ Stored(j) /\ Batched(ups, links) /\ Episode(j, ups, links)
           /\ pc'[j] = "busy" /\ job'[j].name = "episodes" /\ job'[j].ready = FALSE
<1> DEFINE actions == job[j].seen
           id == <<j, job[j].minted + 1>>
           made == Made(j, "Observation", None, "episode")
           episode == [made EXCEPT !.marks = {"episode"}]
           cooled == Cooled(actions)
           ups == <<episode>> \o cooled
           links == NewEdges(j, "DERIVED_FROM", {episode.id}, Ids(actions))
<1>1. /\ pc[j] = "busy" /\ job[j].name = "episodes" /\ job[j].work # <<>> /\ job[j].ready
      /\ Writes(j, ups, links, 1)
  BY DEF Compact, HasWork, InJob
<1>2. RecordOK(job[j]) /\ HeldOK(j)
  BY <1>1, BusyRecord
<1>3. NodesOK(actions) /\ Held(job[j]) = Members(actions)
  BY <1>1, <1>2 DEF RecordOK, Held
<1>4. IsMade(j, episode, "Observation", None, {"episode"})
  <2>1. "Observation" \in NodeTypes /\ None \in Key \cup {None} /\ "episode" \in Names
        /\ {"episode"} \in SUBSET Marks
    BY ConsolidationAssumption DEF NodeTypes, Marks
  <2> HIDE DEF made
  <2> QED BY <1>1, <2>1, MadeMeans DEF made
<1> HIDE DEF made, episode
<1>5. /\ NodesOK(cooled) /\ Ids(cooled) = Ids(actions)
      /\ \A n \in Members(cooled) :
           /\ "compacted" \in n.marks
           /\ \E c \in Members(actions) : n.id = c.id /\ Alike(n, c) /\ c.marks \subseteq n.marks
  BY <1>3, CooledMeans
<1>6. \A c \in Members(actions) : c.id # id
  BY <1>1, <1>3, MintedId
<1> HIDE DEF actions, cooled, id
<1>7. episode \in Node /\ episode.id = id /\ episode.id \notin Ids(cooled)
  <2>1. episode.id = id /\ episode \in Node
    BY <1>4 DEF IsMade, id
  <2> QED BY <1>5, <1>6, <2>1 DEF Ids, Members
<1>8. /\ NodesOK(ups) /\ Ids(ups) = {id} \cup Ids(actions)
      /\ \A m \in Members(ups) : m = episode \/ m \in Members(cooled)
  BY <1>5, <1>7, OneMore
<1>9. Ids(actions) \subseteq Id /\ id \in Id /\ "DERIVED_FROM" \in EdgeTypes
  <2>1. Ids(ups) \subseteq Id
    BY <1>8, IdsType DEF NodesOK
  <2> QED BY <1>8, <2>1 DEF EdgeTypes
<1>10. \A e \in links : e \in Edge /\ e.by = j /\ e.type = "DERIVED_FROM" /\ e.from = id /\ e.to \in Ids(actions)
  BY <1>7, <1>9, NewEdgesMean
<1> HIDE DEF ups, links
<1>11. pc'[j] = "busy" /\ job'[j].minted = job[j].minted + 1 => WritesOwn(j, ups, links)
  <2> SUFFICES ASSUME pc'[j] = "busy", job'[j].minted = job[j].minted + 1 PROVE WritesOwn(j, ups, links)
    OBVIOUS
  <2>1. Minted(j, episode)
    BY <1>4 DEF IsMade, Minted, Tagged
  <2>2. \A n \in Members(cooled) : Copied(j, n)
    BY <1>3, <1>5 DEF Copied, actions
  <2> QED BY <1>8, <1>10, <2>1, <2>2 DEF WritesOwn
<1>12. Stored(j) /\ Batched(ups, links) /\ job'[j].name = "episodes" /\ pc'[j] = "busy"
  BY <1>1, <1>11, WritesStored
<1>13. Episode(j, ups, links)
  <2>1. \A m \in Members(ups) :
          \/ m.id = id /\ m.type = "Observation" /\ "episode" \in m.marks
          \/ "compacted" \in m.marks /\ \E c \in Members(actions) : m.id = c.id /\ Alike(m, c)
    BY <1>4, <1>5, <1>8 DEF IsMade, id
  <2> QED BY <1>8, <1>10, <2>1 DEF Episode, actions, id
<1>14. job'[j].ready = FALSE
  BY <1>12, BusyRecord DEF Stored, OwnStep, RecordOK
<1> QED BY <1>12, <1>13, <1>14

LEMMA ListEntitiesReads ==
  ASSUME JInv, NEW j \in Jobs, ListEntities(j)
  PROVE  /\ Reads(j) /\ pc'[j] = "busy" /\ job'[j].name = "entities" /\ job'[j].ready = FALSE
         /\ \A m \in Members(job'[j].work) :
              \E n \in Members(nodes) : n.id = m.duplicate /\ n.type = "Entity"
<1> DEFINE s == Of(nodes, "Entity")
           entities == Marked(s, "embedded")
           r == Record("entities", Merges(entities), FALSE, job[j].seen, job[j].minted)
<1>1. /\ NodesOK(s) /\ \A n \in Members(s) : n \in Members(nodes) /\ n.type = "Entity"
  BY JobStarts, OfMeans
<1> HIDE DEF s
<1>2. NodesOK(entities) /\ \A n \in Members(entities) : n \in Members(nodes) /\ n.type = "Entity"
  BY <1>1, MarkedMeans
<1>3. Over(j, "episodes") /\ Starts(j, "entities", Merges(entities))
  BY DEF ListEntities, s
<1> HIDE DEF entities
<1>4. /\ Merges(entities) \in Seq(Merging)
      /\ \A m \in Members(Merges(entities)) :
           m.canonical \in Members(entities) /\ m.duplicate \in Ids(entities) /\ m.canonical.id # m.duplicate
  BY <1>2, MergesMean
<1>5. job[j].minted \in Nat
  BY <1>3, BusyRecord DEF Over, InJob
<1>6. /\ r.name = "entities" /\ r.work = Merges(entities) /\ r.ready = FALSE /\ r.minted = job[j].minted
      /\ r = [name |-> r.name, work |-> r.work, ready |-> r.ready, seen |-> r.seen, minted |-> r.minted]
  BY DEF Record
<1> HIDE DEF r
<1>7. RecordOK(r)
  BY <1>4, <1>5, <1>6 DEF RecordOK
<1>8. Held(r) \subseteq Members(nodes) /\ Refs(r) = {}
  BY <1>2, <1>4, <1>6 DEF Held, Refs
<1>9. /\ Reads(j) /\ pc'[j] = "busy"
      /\ job'[j].name = "entities" /\ job'[j].work = Merges(entities) /\ job'[j].ready = FALSE
  BY <1>3, <1>7, <1>8, StartsReads DEF r
<1>10. \A m \in Members(Merges(entities)) : \E n \in Members(nodes) : n.id = m.duplicate /\ n.type = "Entity"
  BY <1>2, <1>4 DEF Ids, Members
<1> QED BY <1>9, <1>10

LEMMA FindIncidentReads ==
  ASSUME JInv, NEW j \in Jobs, FindIncident(j)
  PROVE  /\ Reads(j) /\ pc'[j] = "busy" /\ job'[j].name = "entities" /\ job'[j].work = job[j].work
         /\ job'[j].ready = TRUE /\ job'[j].seen = Neighbors(Head(job[j].work).duplicate)
<1> DEFINE id == Head(job[j].work).duplicate
           r == Record(job[j].name, job[j].work, TRUE, Neighbors(id), job[j].minted)
<1>1. pc[j] = "busy" /\ job[j].name = "entities" /\ job[j].work # <<>> /\ Ready(j, Neighbors(id))
  BY DEF FindIncident, HasWork, InJob
<1>2. RecordOK(job[j])
  BY <1>1, BusyRecord
<1>3. Neighbors(id) \subseteq edges /\ edges \subseteq Edge
  BY JobStarts DEF Neighbors, TypeOK
<1>4. \A e \in Neighbors(id) : {e.from, e.to} \subseteq {id} \cup Ids(nodes)
  BY DEF Neighbors
<1>5. /\ r.name = "entities" /\ r.work = job[j].work /\ r.ready = TRUE /\ r.seen = Neighbors(id)
      /\ r.minted = job[j].minted
      /\ r = [name |-> r.name, work |-> r.work, ready |-> r.ready, seen |-> r.seen, minted |-> r.minted]
  BY <1>1 DEF Record
<1> HIDE DEF r
<1>6. RecordOK(r)
  BY <1>1, <1>2, <1>3, <1>5 DEF RecordOK
<1>7. Held(r) = Held(job[j])
  BY <1>1, <1>5 DEF Held
<1>8. Refs(r) \subseteq Ids(nodes)
  <2> SUFFICES ASSUME NEW x \in Refs(r) PROVE x \in Ids(nodes)
    OBVIOUS
  <2>1. x # id /\ x \in Touched(Neighbors(id))
    <3>1. r.name = "entities" /\ r.ready /\ Head(r.work).duplicate = id /\ r.seen = Neighbors(id)
      BY <1>5
    <3>2. Refs(r) = Touched(r.seen) \ {Head(r.work).duplicate}
      BY <3>1 DEF Refs
    <3> QED BY <3>1, <3>2
  <2> HIDE DEF id
  <2>2. PICK e \in Neighbors(id) : x \in {e.from, e.to}
    BY <2>1 DEF Touched
  <2>3. {e.from, e.to} \subseteq {id} \cup Ids(nodes)
    BY <1>4
  <2> QED BY <2>1, <2>2, <2>3
<1>9. /\ Reads(j) /\ pc'[j] = "busy" /\ job'[j].name = job[j].name /\ job'[j].work = job[j].work
      /\ job'[j].ready = TRUE /\ job'[j].seen = Neighbors(id)
  BY <1>1, <1>6, <1>7, <1>8, ReadyReads DEF r
<1> QED BY <1>1, <1>9

\* A merge writes the canonical entity as it is held, and removes the duplicate alone.
Merged(j, dup) ==
  /\ \A n \in Members(nodes') : n \in Members(nodes) \/ n \in Held(job[j])
  /\ Ids(nodes) \ Ids(nodes') \subseteq {dup}
  /\ \A e \in edges' : e \in edges \/ \E s \in job[j].seen : e.type = s.type

LEMMA RepointMeans ==
  ASSUME NEW e \in Edge, NEW from, NEW to \in Id, NEW by \in Writers \cup Jobs
  PROVE  LET d == Repoint(e, from, to)
             f == [d EXCEPT !.by = by]
         IN  /\ d.type = e.type /\ d.from = (IF e.from = from THEN to ELSE e.from)
             /\ d.to = (IF e.to = from THEN to ELSE e.to)
             /\ f \in Edge /\ f.by = by /\ f.type = e.type /\ f.from = d.from /\ f.to = d.to
<1> DEFINE d == Repoint(e, from, to)
           x == IF e.from = from THEN to ELSE e.from
           y == IF e.to = from THEN to ELSE e.to
<1>1. e \in [type: EdgeTypes, from: Id, to: Id, by: Writers \cup Jobs]
  BY DEF Edge
<1>2. x \in Id /\ y \in Id
  BY <1>1
<1>3. d = [e EXCEPT !.from = x, !.to = y]
  BY DEF Repoint
<1> HIDE DEF x, y
<1>4. d \in [type: EdgeTypes, from: Id, to: Id, by: Writers \cup Jobs] /\ d.type = e.type /\ d.from = x /\ d.to = y
  BY <1>1, <1>2, <1>3
<1> HIDE DEF d
<1> DEFINE f == [d EXCEPT !.by = by]
<1>5. f \in [type: EdgeTypes, from: Id, to: Id, by: Writers \cup Jobs] /\ f.type = d.type /\ f.from = d.from
      /\ f.to = d.to /\ f.by = by
  BY <1>4
<1> QED BY <1>4, <1>5 DEF d, x, y, Edge

LEMMA MergeStored ==
  ASSUME JInv, NEW j \in Jobs, Merge(j)
  PROVE  /\ Stored(j) /\ Merged(j, Head(job[j].work).duplicate) /\ pc'[j] = "busy"
         /\ job'[j].name = "entities" /\ job'[j].work = Tail(job[j].work) /\ job'[j].ready = FALSE
         /\ Head(job[j].work) \in Members(job[j].work)
         /\ Head(job[j].work).canonical.id # Head(job[j].work).duplicate
<1> DEFINE merge == Head(job[j].work)
           into == merge.canonical
           dup == merge.duplicate
           put == Put(nodes, into)
           P == {i \in DOMAIN put : put[i].id # dup}
           moved == {Repoint(e, dup, into.id) : e \in job[j].seen}
           links == {[e EXCEPT !.by = j] : e \in {d \in moved : d.from # d.to}}
<1>1. /\ pc[j] = "busy" /\ job[j].name = "entities" /\ job[j].work # <<>> /\ job[j].ready
      /\ nodes' = Filter(put, P)
      /\ edges' = {e \in edges \cup links : ~ Incident(e, {dup})}
      /\ Remember(j) /\ job' = [job EXCEPT ![j] = Rest(j)]
      /\ UNCHANGED <<pc, before, paused, write, forget, forgot>>
  BY SMTT(30) DEF Merge, HasWork, InJob, frame, Where
<1>2. /\ RecordOK(job[j]) /\ NodesOK(nodes) /\ edges \subseteq Edge /\ DOMAIN job = Jobs
  BY <1>1, BusyRecord DEF JInv, IInv, TypeOK
<1>3. /\ job[j].work \in Seq(Merging) /\ job[j].seen \subseteq Edge
      /\ \A m \in Members(job[j].work) : m.canonical.id # m.duplicate
  BY <1>1, <1>2 DEF RecordOK
<1>4. merge \in Members(job[j].work) /\ merge \in Merging
  BY SMTT(30), <1>1, <1>3, TailMembers
<1>5. into \in Node /\ into.id # dup /\ into \in Held(job[j]) /\ into.id \in Id
  <2>1. into \in Node /\ into.id # dup /\ into \in Held(job[j])
    BY SMTT(30), <1>1, <1>3, <1>4 DEF Merging, Held
  <2> QED BY SMTT(30), <2>1, NodeFields
<1>6. /\ \A id \in Touched(job[j].seen) : id # dup => id \in Refs(job[j])
  BY <1>1 DEF Refs
<1>7. ASSUME NEW l \in links
      PROVE  /\ l \in Edge /\ l.by = j /\ \E s \in job[j].seen : l.type = s.type
             /\ \A id \in {l.from, l.to} : id = into.id \/ id \in Touched(job[j].seen)
  <2>1. PICK e \in job[j].seen : l = [Repoint(e, dup, into.id) EXCEPT !.by = j]
    BY <1>7
  <2>2. e \in Edge /\ e.from \in Touched(job[j].seen) /\ e.to \in Touched(job[j].seen)
    BY <1>3 DEF Touched
  <2> DEFINE d == Repoint(e, dup, into.id)
             f == [d EXCEPT !.by = j]
  <2> HIDE DEF dup, into
  <2>3. /\ d.type = e.type /\ d.from = (IF e.from = dup THEN into.id ELSE e.from)
        /\ d.to = (IF e.to = dup THEN into.id ELSE e.to)
        /\ f \in Edge /\ f.by = j /\ f.type = e.type /\ f.from = d.from /\ f.to = d.to
    BY <1>5, <2>2, RepointMeans
  <2>4. l = f
    BY <2>1
  <2> HIDE DEF f, d
  <2> QED BY <2>2, <2>3, <2>4
<1> HIDE DEF links, into, dup
<1>8. /\ put \in Seq(Node) /\ Distinct(put) /\ Ids(put) = Ids(nodes) \cup {into.id}
      /\ \A m \in Members(put) : m = into \/ m \in Members(nodes)
  BY <1>2, <1>5, PutMeans DEF NodesOK
<1> HIDE DEF put
<1>9. P \in SUBSET DOMAIN put /\ \A m : (\E i \in P : put[i] = m) <=> m \in Members(put) /\ m.id # dup
  BY DEF Members
<1> HIDE DEF P
<1>10. /\ nodes' \in Seq(Node) /\ Distinct(nodes')
       /\ \A m : m \in Members(nodes') <=> m \in Members(put) /\ m.id # dup
  BY <1>1, <1>8, <1>9, FilterMembers
<1>11. \A id \in Ids(put) : id # dup => id \in Ids(nodes')
  <2> SUFFICES ASSUME NEW id \in Ids(put), id # dup PROVE id \in Ids(nodes')
    OBVIOUS
  <2>1. PICK m \in Members(put) : m.id = id
    BY <1>8, MembersMean
  <2>2. m \in Members(nodes')
    BY <1>10, <2>1
  <2> QED BY <2>1, <2>2 DEF Ids, Members
<1>12. /\ OwnStep(j) /\ Held(job'[j]) \subseteq Held(job[j]) /\ Refs(job'[j]) \subseteq Refs(job[j])
       /\ pc'[j] = "busy" /\ ~ job'[j].ready /\ job'[j].minted = job[j].minted
       /\ job'[j].name = job[j].name /\ job'[j].work = Tail(job[j].work)
  <2> DEFINE made == 0
             r == Record(job[j].name, Tail(job[j].work), FALSE, <<>>, job[j].minted + made)
  <2>1. job[j].minted \in Nat /\ made \in Nat /\ job[j].minted + made = job[j].minted
    <3>1. job[j].minted \in Nat
      BY <1>1, BusyRecord
    <3> QED BY <3>1
  <2>2. Rest(j) = r
    BY <1>1, <2>1, RestRecord
  <2>3. job' = [job EXCEPT ![j] = r]
    BY <1>1, <2>2
  <2> HIDE DEF made
  <2>4. Onward(j, r)
    <3> HIDE DEF r
    <3> QED BY <1>1, <1>2, <2>3 DEF Onward
  <2> QED BY <1>1, <2>1, <2>4, RestOnward
<1>13. edges' \subseteq Edge
  BY <1>1, <1>2, <1>7
<1>14. \A n \in Members(nodes') : n \in Members(nodes) \/ n \in Held(job[j])
  BY <1>5, <1>8, <1>10
<1>15. \A n \in Held(job[j]) : Copied(j, n)
  BY DEF Copied, Alike
<1>16. ASSUME NEW e \in edges', NEW id \in {e.from, e.to}
       PROVE  /\ id \in Ids(nodes) => id \in Ids(nodes')
              /\ e \in edges \/ (e.by = j /\ id \in Ids(nodes') \cup Refs(job[j]))
  <2>1. id # dup
    BY <1>1 DEF Incident
  <2>2. into.id \in Ids(nodes')
    BY <1>5, <1>8, <1>11
  <2>3. e \in edges \/ (e.by = j /\ (id = into.id \/ id \in Touched(job[j].seen)))
    BY <1>1, <1>7
  <2> QED BY <1>6, <1>8, <1>11, <2>1, <2>2, <2>3
<1>17. Stored(j)
  BY <1>1, <1>10, <1>12, <1>13, <1>14, <1>15, <1>16 DEF Stored, NodesOK
<1>18. Merged(j, dup)
  <2>1. \A e \in edges' : e \in edges \/ \E s \in job[j].seen : e.type = s.type
    BY SMTT(30), <1>1, <1>7
  <2> QED BY <1>8, <1>11, <1>14, <2>1 DEF Merged
<1>19. job'[j].ready = FALSE
  BY <1>12, <1>17, BusyRecord DEF OwnStep, RecordOK
<1> QED BY <1>1, <1>4, <1>5, <1>12, <1>17, <1>18, <1>19 DEF into, dup

\* What a step of a job that derives no episode leaves alone: the nodes but for
\* those of a new id, and the edges that say what an episode was derived from.
Adds(j) ==
  /\ \A n \in Members(nodes') : n \in Members(nodes) \/ n.id = <<j, job[j].minted + 1>>
  /\ \A e \in edges' : e \in edges \/ e.type # "DERIVED_FROM"

\* A node is made of a group of nodes that the job has found.
LEMMA GroupStored ==
  ASSUME JInv, NEW j \in Jobs, pc[j] = "busy", job[j].work # <<>>, job[j].name \in {"concepts", "skills"},
         NEW group, group = Head(job[j].work), NEW n, NEW type, NEW key \in Key \cup {None}, NEW marks,
         IsMade(j, n, type, key, marks),
         Writes(j, <<n>>, NewEdges(j, "ABSTRACTS", {n.id}, Ids(group)), 1),
         key # None => key[1] # "pref" /\ type # "Preference" /\ type # "Action",
         key = None => type # "Action",
         key # None => \A m \in Members(nodes) : m.key = key => Met(j, m)
  PROVE  Stored(j) /\ Adds(j) /\ pc'[j] = "busy" /\ job'[j].name = job[j].name /\ job'[j].ready = FALSE
<1> DEFINE links == NewEdges(j, "ABSTRACTS", {n.id}, Ids(group))
           ups == <<n>>
<1>1. RecordOK(job[j])
  BY BusyRecord
<1>2. job[j].work \in Seq(Seq(Node))
  BY <1>1 DEF RecordOK
<1>3. group \in Seq(Node) /\ group \in Members(job[j].work)
  BY <1>2, TailMembers
<1>4. Ids(group) \subseteq Refs(job[j]) /\ Held(job[j]) = {}
  BY <1>3 DEF Refs, Held
<1>5. Ids(group) \subseteq Id
  BY <1>3, IdsType
<1>6. n \in Node /\ n.id = <<j, job[j].minted + 1>> /\ n.type = type /\ n.key = key /\ n.id \in Id
  BY NodeFields DEF IsMade
<1>7. NodesOK(ups) /\ Members(ups) = {n} /\ Ids(ups) = {n.id}
  BY <1>6, OneNode
<1>8. "ABSTRACTS" \in EdgeTypes
  BY DEF EdgeTypes
<1>9. \A e \in links : e \in Edge /\ e.by = j /\ e.type = "ABSTRACTS" /\ e.from = n.id /\ e.to \in Ids(group)
  BY <1>5, <1>6, <1>8, NewEdgesMean
<1>10. Writes(j, ups, links, 1)
  OBVIOUS
<1> HIDE DEF links, ups
<1>11. pc'[j] = "busy" /\ job'[j].minted = job[j].minted + 1 => WritesOwn(j, ups, links)
  <2> SUFFICES ASSUME pc'[j] = "busy", job'[j].minted = job[j].minted + 1 PROVE WritesOwn(j, ups, links)
    OBVIOUS
  <2>1. Tagged(n)
    BY <1>6 DEF Tagged
  <2>2. Minted(j, n)
    BY <1>4, <1>6, <2>1 DEF Minted
  <2> QED BY <1>4, <1>7, <1>9, <2>2 DEF WritesOwn
<1>12. Stored(j) /\ Batched(ups, links) /\ job'[j].name = job[j].name /\ pc'[j] = "busy"
  BY <1>10, <1>11, WritesStored
<1>13. Adds(j)
  BY <1>6, <1>7, <1>9, <1>12 DEF Adds, Batched
<1>14. job'[j].ready = FALSE
  BY <1>12, BusyRecord DEF Stored, OwnStep, RecordOK
<1> QED BY <1>12, <1>13, <1>14

LEMMA ListMembersReads ==
  ASSUME JInv, NEW j \in Jobs, ListMembers(j)
  PROVE  Reads(j) /\ pc'[j] = "busy" /\ job'[j].name = "concepts" /\ job'[j].ready = FALSE
<1> DEFINE P == {i \in DOMAIN nodes : nodes[i].type \in {"Entity", "Observation"}
                   /\ "embedded" \in nodes[i].marks /\ "episode" \notin nodes[i].marks}
           members == Filter(nodes, P)
           work == Clusters(members)
           r == Record("concepts", work, FALSE, job[j].seen, job[j].minted)
<1>1. Over(j, "entities") /\ Starts(j, "concepts", work)
  BY DEF ListMembers, Where
<1>2. NodesOK(nodes)
  BY JobStarts
<1>3. P \in SUBSET DOMAIN nodes
  OBVIOUS
<1> HIDE DEF P
<1>4. NodesOK(members) /\ \A n \in Members(members) : n \in Members(nodes)
  <2>1. /\ members \in Seq(Node) /\ Distinct(members)
        /\ \A n : n \in Members(members) <=> \E i \in P : nodes[i] = n
    BY <1>2, <1>3, FilterMembers DEF NodesOK
  <2> HIDE DEF members
  <2> QED BY <1>3, <2>1 DEF NodesOK, Members
<1> HIDE DEF members
<1>5. work \in Seq(Seq(Node)) /\ \A g \in Members(work) : g # <<>> /\ Members(g) \subseteq Members(nodes)
  BY <1>4, ClustersMean
<1> HIDE DEF work
<1>6. job[j].minted \in Nat
  BY <1>1, BusyRecord DEF Over, InJob
<1>7. /\ r.name = "concepts" /\ r.work = work /\ r.ready = FALSE /\ r.minted = job[j].minted
      /\ r = [name |-> r.name, work |-> r.work, ready |-> r.ready, seen |-> r.seen, minted |-> r.minted]
  BY DEF Record
<1> HIDE DEF r
<1>8. RecordOK(r)
  BY <1>5, <1>6, <1>7 DEF RecordOK
<1>9. Held(r) = {}
  BY <1>7 DEF Held
<1>10. Refs(r) \subseteq Ids(nodes)
  <2>1. \A g \in Members(work) : Ids(g) \subseteq Ids(nodes)
    <3> SUFFICES ASSUME NEW g \in Members(work), NEW i \in DOMAIN g PROVE g[i].id \in Ids(nodes)
      BY DEF Ids
    <3>1. \E h \in DOMAIN nodes : nodes[h] = g[i]
      BY <1>5 DEF Members
    <3> QED BY <3>1 DEF Ids
  <2>2. Refs(r) = UNION {Ids(g) : g \in Members(work)}
    BY <1>7 DEF Refs
  <2> QED BY <2>1, <2>2
<1> QED BY <1>1, <1>8, <1>9, <1>10, StartsReads DEF r

LEMMA FormConceptStored ==
  ASSUME JInv, NEW j \in Jobs, FormConcept(j)
  PROVE  Stored(j) /\ Adds(j) /\ pc'[j] = "busy" /\ job'[j].name = "concepts" /\ job'[j].ready = FALSE
<1> DEFINE cluster == Head(job[j].work)
           made == Made(j, "Concept", None, cluster[1].label)
           concept == [made EXCEPT !.marks = {"embedded"}]
<1>1. /\ pc[j] = "busy" /\ job[j].name = "concepts" /\ job[j].work # <<>>
      /\ Writes(j, <<concept>>, NewEdges(j, "ABSTRACTS", {concept.id}, Ids(cluster)), 1)
  BY DEF FormConcept, HasWork, InJob
<1>2. RecordOK(job[j])
  BY <1>1, BusyRecord
<1>3. job[j].work \in Seq(Seq(Node)) /\ \A g \in Members(job[j].work) : g # <<>>
  BY <1>1, <1>2 DEF RecordOK
<1>4. cluster \in Seq(Node) /\ cluster # <<>>
  BY <1>1, <1>3, TailMembers
<1>5. cluster[1].label \in Names
  <2>1. cluster[1] \in Node
    BY <1>4
  <2> QED BY <2>1, NodeFields
<1> HIDE DEF cluster
<1>6. IsMade(j, concept, "Concept", None, {"embedded"})
  <2>1. "Concept" \in NodeTypes /\ None \in Key \cup {None} /\ {"embedded"} \in SUBSET Marks
    BY DEF NodeTypes, Marks
  <2> HIDE DEF made
  <2> QED BY <1>1, <1>5, <2>1, MadeMeans DEF made
<1> HIDE DEF made, concept
<1> DEFINE type == "Concept"
           key == None
           marks == {"embedded"}
<1>7. IsMade(j, concept, type, key, marks) /\ key \in Key \cup {None} /\ type # "Action" /\ ~ (key # None)
  BY <1>6
<1>8. job[j].name \in {"concepts", "skills"} /\ cluster = Head(job[j].work)
  BY <1>1 DEF cluster
<1> HIDE DEF type, key, marks
<1>9. Stored(j) /\ Adds(j) /\ pc'[j] = "busy" /\ job'[j].name = job[j].name /\ job'[j].ready = FALSE
  BY <1>1, <1>7, <1>8, GroupStored
<1> QED BY <1>1, <1>9

LEMMA ListTasksReads ==
  ASSUME JInv, NEW j \in Jobs, ListTasks(j)
  PROVE  Reads(j) /\ pc'[j] = "busy" /\ job'[j].name = "skills" /\ job'[j].ready = FALSE
<1> DEFINE all == Of(nodes, "Task")
           tasks == Marked(all, "done")
           gs == GroupsBy(tasks, LAMBDA n : n.label)
           P == {i \in DOMAIN gs : Len(gs[i]) >= MinSuccesses}
           work == Filter(gs, P)
           r == Record("skills", work, FALSE, job[j].seen, job[j].minted)
<1>1. Over(j, "concepts") /\ Starts(j, "skills", work)
  BY DEF ListTasks, Where
<1>2. NodesOK(all) /\ \A n \in Members(all) : n \in Members(nodes)
  BY JobStarts, OfMeans
<1> HIDE DEF all
<1>3. NodesOK(tasks) /\ \A n \in Members(tasks) : n \in Members(nodes)
  BY <1>2, MarkedMeans
<1>4. gs = Groups(tasks, Titles)
  BY <1>3, GroupsLike
<1> HIDE DEF tasks, gs
<1>5. gs \in Seq(Seq(Node)) /\ \A g \in Members(gs) : g # <<>> /\ Members(g) \subseteq Members(tasks)
  BY <1>3, <1>4, GroupsMean DEF Grouping
<1>6. P \in SUBSET DOMAIN gs
  OBVIOUS
<1> HIDE DEF P
<1>7. work \in Seq(Seq(Node)) /\ \A g \in Members(work) : g # <<>> /\ Members(g) \subseteq Members(nodes)
  <2>1. work \in Seq(Seq(Node)) /\ \A g : g \in Members(work) <=> \E i \in P : gs[i] = g
    BY <1>5, <1>6, FilterElements
  <2> HIDE DEF work
  <2>2. ASSUME NEW g \in Members(work) PROVE g # <<>> /\ Members(g) \subseteq Members(nodes)
    <3>1. PICK i \in P : gs[i] = g
      BY <2>1
    <3>2. g \in Members(gs)
      BY <1>6, <3>1 DEF Members
    <3>3. g # <<>> /\ Members(g) \subseteq Members(tasks)
      BY <1>5, <3>2
    <3> QED BY <1>3, <3>3
  <2> QED BY <2>1, <2>2
<1> HIDE DEF work
<1>8. job[j].minted \in Nat
  BY <1>1, BusyRecord DEF Over, InJob
<1>9. /\ r.name = "skills" /\ r.work = work /\ r.ready = FALSE /\ r.minted = job[j].minted
      /\ r = [name |-> r.name, work |-> r.work, ready |-> r.ready, seen |-> r.seen, minted |-> r.minted]
  BY DEF Record
<1> HIDE DEF r
<1>10. RecordOK(r)
  BY <1>7, <1>8, <1>9 DEF RecordOK
<1>11. Held(r) = {}
  BY <1>9 DEF Held
<1>12. Refs(r) \subseteq Ids(nodes)
  <2>1. \A g \in Members(work) : Ids(g) \subseteq Ids(nodes)
    <3> SUFFICES ASSUME NEW g \in Members(work), NEW i \in DOMAIN g PROVE g[i].id \in Ids(nodes)
      BY DEF Ids
    <3>1. \E h \in DOMAIN nodes : nodes[h] = g[i]
      BY <1>7 DEF Members
    <3> QED BY <3>1 DEF Ids
  <2>2. Refs(r) = UNION {Ids(g) : g \in Members(work)}
    BY <1>9 DEF Refs
  <2> QED BY <2>1, <2>2
<1> QED BY <1>1, <1>10, <1>11, <1>12, StartsReads DEF r

LEMMA SkillKeyIn ==
  ASSUME JInv, NEW j \in Jobs, pc[j] = "busy", job[j].work # <<>>, job[j].name = "skills"
  PROVE  /\ SkillKey(Head(job[j].work)) \in Key /\ SkillKey(Head(job[j].work))[1] = "skill"
         /\ Head(job[j].work)[1].label \in Names
<1> DEFINE group == Head(job[j].work)
<1>1. RecordOK(job[j])
  BY BusyRecord
<1>2. job[j].work \in Seq(Seq(Node)) /\ \A g \in Members(job[j].work) : g # <<>>
  BY <1>1 DEF RecordOK
<1>3. group \in Seq(Node) /\ group # <<>>
  BY <1>2, TailMembers
<1>4. group[1].label \in Names
  <2>1. group[1] \in Node
    BY <1>3
  <2> QED BY <2>1, NodeFields
<1> HIDE DEF group
<1>5. SkillKey(group) \in Key /\ SkillKey(group)[1] = "skill"
  BY <1>4 DEF SkillKey, Key
<1> QED BY <1>4, <1>5 DEF group

LEMMA FindSkillReads ==
  ASSUME JInv, NEW j \in Jobs, FindSkill(j)
  PROVE  Reads(j) /\ pc'[j] = "busy" /\ job'[j].name = "skills"
<1> DEFINE key == SkillKey(Head(job[j].work))
           none == <<>>
           r == Record(job[j].name, job[j].work, TRUE, none, job[j].minted)
<1>1. pc[j] = "busy" /\ job[j].name = "skills" /\ job[j].work # <<>>
  BY DEF FindSkill, HasWork, InJob
<1>2. Skips(j) \/ (FindByNaturalKey(key) = None /\ Ready(j, none))
  BY DEF FindSkill
<1>3. CASE Skips(j)
  BY <1>1, <1>3, SkipsReads
<1>4. CASE FindByNaturalKey(key) = None /\ Ready(j, none)
  <2>1. \A n \in Members(nodes) : n.key # key
    <3> HIDE DEF key
    <3> QED BY <1>4, JobStarts, FindMeans
  <2>2. RecordOK(job[j])
    BY <1>1, BusyRecord
  <2> HIDE DEF none
  <2>3. /\ r.name = "skills" /\ r.work = job[j].work /\ r.ready = TRUE /\ r.minted = job[j].minted
        /\ r = [name |-> r.name, work |-> r.work, ready |-> r.ready, seen |-> r.seen, minted |-> r.minted]
    BY <1>1 DEF Record
  <2> HIDE DEF r
  <2>4. RecordOK(r)
    BY <1>1, <2>2, <2>3 DEF RecordOK
  <2>5. Held(r) = {} /\ Refs(r) \subseteq Refs(job[j])
    BY <1>1, <2>3 DEF Held, Refs
  <2>6. Reads(j) /\ pc'[j] = "busy" /\ job'[j].name = job[j].name
    BY <1>1, <1>4, <2>1, <2>4, <2>5, ReadyReads DEF r
  <2> QED BY <1>1, <2>6
<1> QED BY <1>2, <1>3, <1>4

LEMMA PromoteStored ==
  ASSUME JInv, NEW j \in Jobs, Promote(j)
  PROVE  Stored(j) /\ Adds(j) /\ pc'[j] = "busy" /\ job'[j].name = "skills" /\ job'[j].ready = FALSE
<1> DEFINE group == Head(job[j].work)
           key == SkillKey(group)
           type == "Skill"
           marks == {}
           label == group[1].label
           skill == Made(j, type, key, label)
<1>1. /\ pc[j] = "busy" /\ job[j].name = "skills" /\ job[j].work # <<>> /\ job[j].ready
      /\ Writes(j, <<skill>>, NewEdges(j, "ABSTRACTS", {skill.id}, Ids(group)), 1)
  BY DEF Promote, HasWork, InJob
<1>2. SkillOK(j)
  BY <1>1, BusyRecord
<1>3. key \in Key /\ key[1] # "pref" /\ label \in Names
  BY <1>1, SkillKeyIn
<1>4. \A m \in Members(nodes) : m.key = key => Met(j, m)
  BY <1>1, <1>2 DEF SkillOK
<1>5. job[j].name \in {"concepts", "skills"} /\ group = Head(job[j].work)
  BY <1>1
<1>6. type \in NodeTypes /\ type # "Preference" /\ type # "Action"
  BY DEF NodeTypes
<1>7. key # None
  BY <1>3, MemoryAssumption
<1> HIDE DEF group, key, type, label
<1>8. IsMade(j, skill, type, key, marks)
  BY <1>1, <1>3, <1>6, MadeMeans
<1> HIDE DEF skill, marks
<1>9. Stored(j) /\ Adds(j) /\ pc'[j] = "busy" /\ job'[j].name = job[j].name /\ job'[j].ready = FALSE
  BY <1>1, <1>3, <1>4, <1>5, <1>6, <1>7, <1>8, GroupStored
<1> QED BY <1>1, <1>9

LEMMA ActiveMeans ==
  ASSUME NEW g, NodesOK(g)
  PROVE  /\ NodesOK(Active(g))
         /\ \A n : n \in Members(Active(g)) <=> n \in Members(g) /\ "superseded" \notin n.marks
<1> DEFINE P == {i \in DOMAIN g : "superseded" \notin g[i].marks}
<1>1. Active(g) = Filter(g, P)
  BY DEF Active, Where
<1>2. P \in SUBSET DOMAIN g
      /\ \A n : (\E i \in P : g[i] = n) <=> n \in Members(g) /\ "superseded" \notin n.marks
  BY DEF Members
<1> HIDE DEF P
<1>3. /\ Filter(g, P) \in Seq(Node) /\ Distinct(Filter(g, P))
      /\ \A n : n \in Members(Filter(g, P)) <=> \E i \in P : g[i] = n
  BY <1>2, FilterMembers DEF NodesOK
<1> QED BY <1>1, <1>2, <1>3 DEF NodesOK

\* Every two values of a preference that are both in force are found together.
LEMMA ListPreferencesReads ==
  ASSUME JInv, NEW j \in Jobs, ListPreferences(j)
  PROVE  /\ Reads(j) /\ pc'[j] = "busy" /\ job'[j].name = "contradictions" /\ job'[j].ready = FALSE
         /\ \A a, b \in Members(nodes) :
              InForce(a, b) => \E g \in Members(job'[j].work) : {a.id, b.id} \subseteq Ids(g)
<1> DEFINE s == Of(nodes, "Preference")
           gs == GroupsBy(s, LAMBDA n : n.key)
           active == [i \in DOMAIN gs |-> Active(gs[i])]
           P == {i \in DOMAIN active : Len(active[i]) >= 2}
           work == Filter(active, P)
           r == Record("contradictions", work, FALSE, job[j].seen, job[j].minted)
<1>1. Over(j, "skills") /\ Starts(j, "contradictions", work)
  BY DEF ListPreferences, Where
<1>2. NodesOK(s) /\ \A n : n \in Members(s) <=> n \in Members(nodes) /\ n.type = "Preference"
  BY JobStarts, OfMeans
<1>3. gs = Groups(s, Keys)
  BY <1>2, GroupsLike
<1> HIDE DEF s, gs
<1>4. Grouping(s, Keys, gs)
  BY <1>2, <1>3, GroupsMean
<1>5. /\ gs \in Seq(Seq(Node)) /\ Len(gs) \in Nat /\ DOMAIN gs = 1 .. Len(gs)
      /\ \A g \in Members(gs) : NodesOK(g) /\ Members(g) \subseteq Members(s)
  BY <1>4 DEF Grouping
<1>6. ASSUME NEW i \in DOMAIN gs
      PROVE  /\ NodesOK(Active(gs[i])) /\ Active(gs[i]) \in Seq(Node)
             /\ \A n : n \in Members(Active(gs[i])) <=> n \in Members(gs[i]) /\ "superseded" \notin n.marks
             /\ Members(gs[i]) \subseteq Members(s)
  <2>1. gs[i] \in Members(gs)
    BY DEF Members
  <2>2. NodesOK(gs[i]) /\ Members(gs[i]) \subseteq Members(s)
    BY <1>5, <2>1
  <2>3. /\ NodesOK(Active(gs[i]))
        /\ \A n : n \in Members(Active(gs[i])) <=> n \in Members(gs[i]) /\ "superseded" \notin n.marks
    BY <2>2, ActiveMeans
  <2> QED BY <2>2, <2>3 DEF NodesOK
<1>7. /\ active \in Seq(Seq(Node)) /\ DOMAIN active = DOMAIN gs
      /\ \A i \in DOMAIN gs : active[i] = Active(gs[i])
  <2>1. active \in [1 .. Len(gs) -> Seq(Node)]
    BY <1>5, <1>6
  <2>2. active \in Seq(Seq(Node))
    <3> DEFINE C == Seq(Node)
               n == Len(gs)
    <3>1. n \in Nat /\ active \in [1 .. n -> C]
      BY <1>5, <2>1
    <3> HIDE DEF active, C, n
    <3>2. active \in Seq(C)
      BY <3>1, SeqDef
    <3> QED BY <3>2 DEF C
  <2> QED BY <2>2
<1>8. P \in SUBSET DOMAIN active /\ \A i \in DOMAIN active : i \in P <=> Len(active[i]) >= 2
  OBVIOUS
<1> HIDE DEF P, active
<1>9. work \in Seq(Seq(Node)) /\ \A g : g \in Members(work) <=> \E i \in P : active[i] = g
  BY <1>7, <1>8, FilterElements
<1> HIDE DEF work
<1>10. ASSUME NEW g \in Members(work) PROVE Distinct(g) /\ Members(g) \subseteq Members(nodes)
  <2>1. PICK i \in P : active[i] = g
    BY <1>9
  <2>2. i \in DOMAIN gs /\ g = Active(gs[i])
    BY <1>7, <1>8, <2>1
  <2>3. NodesOK(g) /\ Members(g) \subseteq Members(s)
    BY <1>6, <2>2
  <2> QED BY <1>2, <2>3 DEF NodesOK
<1>11. job[j].minted \in Nat
  BY <1>1, BusyRecord DEF Over, InJob
<1>12. /\ r.name = "contradictions" /\ r.work = work /\ r.ready = FALSE /\ r.minted = job[j].minted
       /\ r = [name |-> r.name, work |-> r.work, ready |-> r.ready, seen |-> r.seen, minted |-> r.minted]
  BY DEF Record
<1> HIDE DEF r
<1>13. RecordOK(r)
  BY <1>9, <1>10, <1>11, <1>12 DEF RecordOK
<1>14. Held(r) \subseteq Members(nodes)
  <2>1. Held(r) = UNION {Members(g) : g \in Members(work)}
    BY <1>12 DEF Held
  <2> QED BY <1>10, <2>1
<1>15. Refs(r) \subseteq Ids(nodes)
  <2>1. \A g \in Members(work) : Ids(g) \subseteq Ids(nodes)
    BY <1>10 DEF Ids, Members
  <2>2. Refs(r) = UNION {Ids(g) : g \in Members(work)}
    BY <1>12 DEF Refs
  <2> QED BY <2>1, <2>2
<1>16. /\ Reads(j) /\ pc'[j] = "busy"
       /\ job'[j].name = "contradictions" /\ job'[j].work = work /\ job'[j].ready = FALSE
  BY <1>1, <1>13, <1>14, <1>15, StartsReads DEF r
<1>17. ASSUME NEW a \in Members(nodes), NEW b \in Members(nodes), InForce(a, b)
       PROVE  \E g \in Members(work) : {a.id, b.id} \subseteq Ids(g)
  <2>1. /\ a \in Members(s) /\ b \in Members(s) /\ Keys[a] = Keys[b] /\ a.id # b.id
        /\ "superseded" \notin a.marks /\ "superseded" \notin b.marks
    <3>1. a \in Node /\ b \in Node
      BY JobStarts, StoredNode
    <3> QED BY <1>2, <1>17, <3>1 DEF InForce, Keys
  <2>2. PICK h \in Members(gs) : \A c \in Members(s) : Keys[c] = Keys[a] => c \in Members(h)
    BY <1>4, <2>1 DEF Grouping
  <2>3. PICK i \in DOMAIN gs : gs[i] = h
    BY DEF Members
  <2> DEFINE g == active[i]
  <2>4. g = Active(gs[i]) /\ a \in Members(g) /\ b \in Members(g) /\ g \in Seq(Node)
    BY <1>6, <1>7, <2>1, <2>2, <2>3
  <2> HIDE DEF g
  <2>5. PICK x \in DOMAIN g, y \in DOMAIN g : g[x] = a /\ g[y] = b
    BY <2>4 DEF Members
  <2>6. x # y /\ Len(g) \in Nat /\ DOMAIN g = 1 .. Len(g)
    BY <2>1, <2>4, <2>5
  <2>7. Len(g) >= 2
    BY <2>6
  <2>8. i \in P
    BY <1>7, <1>8, <2>3, <2>7 DEF g
  <2>9. g \in Members(work)
    BY <1>9, <2>8 DEF g
  <2>10. {a.id, b.id} \subseteq Ids(g)
    BY <2>5 DEF Ids
  <2> QED BY <2>9, <2>10
<1> QED BY <1>16, <1>17

\* What the winner of a contradiction leaves in force.
Resolved(j) ==
  /\ \A n \in Members(nodes') : n \in Members(nodes) \/ ("superseded" \in n.marks /\ Copied(j, n))
  /\ \A e \in edges' : e \in edges \/ e.type # "DERIVED_FROM"
  /\ \A a, b \in Members(nodes') :
       a.id # b.id /\ {a.id, b.id} \subseteq Ids(Head(job[j].work)) =>
         "superseded" \in a.marks \/ "superseded" \in b.marks

LEMMA LosersMean ==
  ASSUME NEW g, NodesOK(g), NEW winner
  PROVE  /\ NodesOK(Losers(g, winner))
         /\ \A n : n \in Members(Losers(g, winner)) <=> n \in Members(g) /\ n.id # winner.id
<1> DEFINE P == {i \in DOMAIN g : g[i].id # winner.id}
<1>1. Losers(g, winner) = Filter(g, P)
  BY DEF Losers, Where
<1>2. P \in SUBSET DOMAIN g /\ \A n : (\E i \in P : g[i] = n) <=> n \in Members(g) /\ n.id # winner.id
  BY DEF Members
<1> HIDE DEF P
<1>3. /\ Filter(g, P) \in Seq(Node) /\ Distinct(Filter(g, P))
      /\ \A n : n \in Members(Filter(g, P)) <=> \E i \in P : g[i] = n
  BY <1>2, FilterMembers DEF NodesOK
<1> QED BY <1>1, <1>2, <1>3 DEF NodesOK

LEMMA ResolveContradictionStored ==
  ASSUME JInv, NEW j \in Jobs, ResolveContradiction(j)
  PROVE  /\ Stored(j) /\ Resolved(j) /\ pc'[j] = "busy" /\ job[j].work # <<>>
         /\ job'[j].name = "contradictions" /\ job'[j].work = Tail(job[j].work) /\ job'[j].ready = FALSE
<1> DEFINE group == Head(job[j].work)
<1>1. /\ pc[j] = "busy" /\ job[j].name = "contradictions" /\ job[j].work # <<>>
  BY DEF ResolveContradiction, HasWork, InJob
<1>2. PICK i \in DOMAIN group :
        Writes(j, Mark(Losers(group, group[i]), "superseded"),
               NewEdges(j, "SUPERSEDES", {group[i].id}, Ids(Losers(group, group[i]))), 0)
  BY DEF ResolveContradiction
<1> DEFINE winner == group[i]
           losers == Losers(group, winner)
           ups == Mark(losers, "superseded")
           links == NewEdges(j, "SUPERSEDES", {winner.id}, Ids(losers))
           made == 0
<1>3. RecordOK(job[j])
  BY <1>1, BusyRecord
<1>4. job[j].work \in Seq(Seq(Node)) /\ \A g \in Members(job[j].work) : Distinct(g)
  BY <1>1, <1>3 DEF RecordOK
<1>5. group \in Seq(Node) /\ group \in Members(job[j].work) /\ NodesOK(group)
  BY <1>1, <1>4, TailMembers DEF NodesOK
<1>6. Members(group) \subseteq Held(job[j]) /\ Ids(group) \subseteq Refs(job[j])
  BY <1>1, <1>5 DEF Held, Refs
<1>7. Writes(j, ups, links, made)
  BY <1>2
<1> HIDE DEF group
<1>8. winner \in Members(group) /\ winner.id \in Ids(group) /\ Ids(group) \subseteq Id
  BY <1>5, IdsType DEF Members, Ids
<1> HIDE DEF winner
<1>9. NodesOK(losers) /\ \A n : n \in Members(losers) <=> n \in Members(group) /\ n.id # winner.id
  BY <1>5, LosersMean
<1> HIDE DEF losers
<1>10. Ids(losers) \subseteq Ids(group)
  <2> SUFFICES ASSUME NEW x \in DOMAIN losers PROVE losers[x].id \in Ids(group)
    BY DEF Ids
  <2>1. losers[x] \in Members(group)
    BY <1>9 DEF Members
  <2> QED BY <2>1 DEF Ids, Members
<1>11. "superseded" \in Marks /\ "SUPERSEDES" \in EdgeTypes
  BY DEF Marks, EdgeTypes
<1>12. /\ NodesOK(ups) /\ Ids(ups) = Ids(losers)
       /\ \A n \in Members(ups) :
            /\ "superseded" \in n.marks
            /\ \E c \in Members(losers) : n.id = c.id /\ Alike(n, c) /\ n.marks = c.marks \cup {"superseded"}
  BY <1>9, <1>11, MarkMeans
<1>13. \A e \in links : e \in Edge /\ e.by = j /\ e.type = "SUPERSEDES" /\ e.from = winner.id /\ e.to \in Ids(losers)
  BY <1>8, <1>10, <1>11, NewEdgesMean
<1> HIDE DEF links, ups
<1>14. \A n \in Members(ups) : "superseded" \in n.marks /\ Copied(j, n)
  BY <1>6, <1>9, <1>12 DEF Copied
<1>15. WritesOwn(j, ups, links)
  BY <1>6, <1>8, <1>10, <1>12, <1>13, <1>14 DEF WritesOwn
<1>16. made \in {0, 1}
  OBVIOUS
<1> HIDE DEF made
<1>17. /\ Stored(j) /\ Batched(ups, links)
       /\ job'[j].name = job[j].name /\ job'[j].work = Tail(job[j].work) /\ pc'[j] = "busy"
  BY <1>1, <1>7, <1>15, <1>16, WritesStored
<1>18. Resolved(j)
  <2>1. \A n \in Members(nodes') : n \in Members(nodes) \/ ("superseded" \in n.marks /\ Copied(j, n))
    BY <1>14, <1>17 DEF Batched
  <2>2. \A e \in edges' : e \in edges \/ e.type # "DERIVED_FROM"
    BY <1>13, <1>17 DEF Batched
  <2>3. ASSUME NEW n \in Members(nodes'), n.id \in Ids(group), n.id # winner.id PROVE "superseded" \in n.marks
    <3>1. PICK x \in DOMAIN group : group[x].id = n.id
      BY <2>3 DEF Ids
    <3>2. group[x] \in Members(losers)
      BY <1>9, <2>3, <3>1 DEF Members
    <3>3. n.id \in Ids(losers)
      BY <3>1, <3>2 DEF Ids, Members
    <3>4. n \in Members(ups)
      BY <1>12, <1>17, <3>3 DEF Batched
    <3> QED BY <1>12, <3>4
  <2>4. \A a, b \in Members(nodes') :
          a.id # b.id /\ {a.id, b.id} \subseteq Ids(group) =>
            "superseded" \in a.marks \/ "superseded" \in b.marks
    BY <2>3
  <2> QED BY <2>1, <2>2, <2>4 DEF Resolved, group
<1>19. job'[j].ready = FALSE
  BY <1>17, BusyRecord DEF Stored, OwnStep, RecordOK
<1> QED BY <1>1, <1>17, <1>18, <1>19

LEMMA ListAllReads ==
  ASSUME JInv, NEW j \in Jobs, ListAll(j)
  PROVE  /\ Reads(j) /\ pc[j] = "busy" /\ job[j].name = "contradictions" /\ job[j].work = <<>>
         /\ pc'[j] = "busy" /\ job'[j].name = "decay" /\ job'[j].ready = FALSE
         /\ Members(job'[j].work) \subseteq Members(nodes)
<1>1. PICK decayed, expired \in SUBSET Ids(nodes) :
        job' = [job EXCEPT ![j].name = "decay",
                           ![j].work = Where(nodes, LAMBDA n : n.id \in decayed),
                           ![j].seen = expired]
  BY DEF ListAll
<1> DEFINE P == {i \in DOMAIN nodes : nodes[i].id \in decayed}
           work == Filter(nodes, P)
           r == job'[j]
<1>2. /\ Over(j, "contradictions") /\ UNCHANGED <<pc, before, paused, write, forget, forgot>>
      /\ UNCHANGED <<nodes, edges, origin, makers, gone>>
  BY DEF ListAll, frame, store
<1>3. pc[j] = "busy" /\ job[j].name = "contradictions" /\ job[j].work = <<>> /\ NodesOK(nodes)
  BY <1>2, JobStarts DEF Over, InJob
<1>4. j \in DOMAIN job /\ DOMAIN job[j] = Fields /\ job[j].ready = FALSE /\ DOMAIN job = Jobs /\ job[j].minted \in Nat
  BY <1>3, BusyRecord DEF JInv
<1>5. job' = [job EXCEPT ![j].name = "decay", ![j].work = work, ![j].seen = expired]
  BY <1>1 DEF Where
<1>6. P \in SUBSET DOMAIN nodes
  OBVIOUS
<1> HIDE DEF P
<1>7. NodesOK(work) /\ \A n \in Members(work) : n \in Members(nodes)
  <2>1. /\ work \in Seq(Node) /\ Distinct(work) /\ \A n : n \in Members(work) <=> \E i \in P : nodes[i] = n
    BY <1>3, <1>6, FilterMembers DEF NodesOK
  <2> HIDE DEF work
  <2> QED BY <1>6, <2>1 DEF NodesOK, Members
<1> HIDE DEF work
<1>8. DOMAIN job' = Jobs /\ \A k \in Jobs \ {j} : job'[k] = job[k]
  BY <1>4, <1>5 DEF Fields
<1>9. r = [x \in Fields |-> r[x]]
  BY <1>4, <1>5
<1>10. /\ r.name = "decay" /\ r.work = work /\ r.ready = FALSE /\ r.seen = expired /\ r.minted = job[j].minted
  BY <1>4, <1>5 DEF Fields
<1> HIDE DEF r
<1>11. r = [name |-> r.name, work |-> r.work, ready |-> r.ready, seen |-> r.seen, minted |-> r.minted]
  BY <1>9, RecordIs DEF Record
<1>12. expired \subseteq Id
  BY <1>3, IdsType DEF NodesOK
<1>13. RecordOK(r)
  BY <1>4, <1>7, <1>10, <1>11, <1>12 DEF RecordOK
<1>14. Held(r) \subseteq Members(nodes) /\ Refs(r) = {}
  BY <1>7, <1>10 DEF Held, Refs
<1>15. Onward(j, r)
  BY <1>2, <1>8 DEF Onward, r
<1>16. Reads(j) /\ pc'[j] = "busy" /\ job'[j] = r
  BY <1>2, <1>3, <1>10, <1>13, <1>14, <1>15, ListsReads
<1> QED BY <1>3, <1>7, <1>10, <1>16

LEMMA CoolStored ==
  ASSUME JInv, NEW j \in Jobs, Cool(j)
  PROVE  /\ Stored(j) /\ pc[j] = "busy" /\ job[j].name = "decay" /\ edges' = edges
         /\ pc'[j] = "busy" /\ job'[j].name = "decay" /\ job'[j].work = <<>> /\ job'[j].ready = FALSE
         /\ \A n \in Members(nodes') :
              \/ n \in Members(nodes)
              \/ \E c \in Members(job[j].work) : n.id = c.id /\ Alike(n, c) /\ n.marks = c.marks \cup {"cold"}
<1> DEFINE ups == Mark(job[j].work, "cold")
           none == <<>>
           links == {}
           r == job'[j]
<1>1. /\ pc[j] = "busy" /\ job[j].name = "decay" /\ job[j].work # <<>> /\ ApplyBatch(j, ups, links)
      /\ job' = [job EXCEPT ![j].work = none] /\ UNCHANGED <<pc, before, paused, write, forget, forgot>>
  BY DEF Cool, HasWork, InJob, frame
<1>2. /\ j \in DOMAIN job /\ DOMAIN job[j] = Fields /\ DOMAIN job = Jobs /\ job[j].minted \in Nat /\ RecordOK(job[j])
  BY <1>1, BusyRecord DEF JInv
<1>3. NodesOK(job[j].work) /\ job[j].ready = FALSE
  BY <1>1, <1>2 DEF RecordOK
<1>4. "cold" \in Marks
  BY DEF Marks
<1>5. /\ NodesOK(ups) /\ Ids(ups) = Ids(job[j].work)
      /\ \A n \in Members(ups) :
           \E c \in Members(job[j].work) : n.id = c.id /\ Alike(n, c) /\ n.marks = c.marks \cup {"cold"}
  BY <1>3, <1>4, MarkMeans
<1>6. Held(job[j]) = Members(job[j].work)
  BY <1>1 DEF Held
<1>7. WritesOwn(j, ups, links)
  BY <1>5, <1>6 DEF WritesOwn, Copied
<1> HIDE DEF none
<1>8. DOMAIN job' = Jobs /\ \A k \in Jobs \ {j} : job'[k] = job[k]
  BY <1>1, <1>2 DEF Fields
<1>9. r = [x \in Fields |-> r[x]]
  BY <1>1, <1>2
<1>10. /\ r.name = "decay" /\ r.work = none /\ r.ready = FALSE /\ r.seen = job[j].seen /\ r.minted = job[j].minted
  BY <1>1, <1>2, <1>3 DEF Fields
<1> HIDE DEF r
<1>11. r = [name |-> r.name, work |-> r.work, ready |-> r.ready, seen |-> r.seen, minted |-> r.minted]
  BY <1>9, RecordIs DEF Record
<1>12. NodesOK(r.work) /\ Members(r.work) = {}
  BY <1>10 DEF none, NodesOK, Distinct, Members
<1>13. RecordOK(r)
  <2>1. job[j].seen \subseteq Id
    BY <1>1, <1>2 DEF RecordOK
  <2> QED BY <1>2, <1>10, <1>11, <1>12, <2>1 DEF RecordOK
<1>14. Held(r) = {} /\ Refs(r) = {}
  BY <1>10, <1>12 DEF Held, Refs
<1>15. Onward(j, r)
  BY <1>1, <1>8 DEF Onward, r
<1>16. OwnStep(j) /\ job'[j] = r /\ pc'[j] = "busy"
  BY <1>1, <1>13, <1>15, OnwardOwn
<1>17. Stored(j) /\ Batched(ups, links)
  <2> HIDE DEF ups, links
  <2> QED BY <1>1, <1>7, <1>10, <1>14, <1>16, BatchStored
<1>18. edges' = edges
  BY <1>17 DEF Batched
<1>19. \A n \in Members(nodes') : n \in Members(nodes) \/ n \in Members(ups)
  BY <1>17 DEF Batched
<1> QED BY <1>1, <1>5, <1>10, <1>16, <1>17, <1>18, <1>19 DEF none

LEMMA EndsOwn ==
  ASSUME JInv, NEW j \in Jobs, pc[j] = "busy", job' = [job EXCEPT ![j] = NoJob], pc' = [pc EXCEPT ![j] = "done"],
         UNCHANGED <<before, paused, write, forget, forgot>>
  PROVE  /\ OwnStep(j) /\ pc'[j] = "done" /\ job'[j] = NoJob
         /\ Held(job'[j]) = {} /\ Refs(job'[j]) = {} /\ job'[j].name = "none"
<1>1. DOMAIN job = Jobs /\ TypeOK
  BY DEF JInv, IInv
<1>2. DOMAIN job' = Jobs /\ job'[j] = NoJob /\ \A k \in Jobs \ {j} : job'[k] = job[k]
  BY <1>1
<1>3. pc'[j] = "done" /\ Moves(j, "done")
  BY <1>1 DEF TypeOK, Flows, Moves
<1>4. OwnStep(j)
  BY <1>2, <1>3 DEF OwnStep
<1>5. NoJob.name = "none"
  BY DEF NoJob
<1>6. Held(job'[j]) = {} /\ Refs(job'[j]) = {}
  BY <1>2, <1>5 DEF Held, Refs
<1> QED BY <1>2, <1>3, <1>4, <1>5, <1>6

LEMMA JobFailsReads ==
  ASSUME JInv, NEW j \in Jobs, JobFails(j)
  PROVE  Reads(j) /\ pc'[j] = "done" /\ job'[j] = NoJob
<1>1. /\ pc[j] = "busy" /\ job' = [job EXCEPT ![j] = NoJob] /\ pc' = [pc EXCEPT ![j] = "done"]
      /\ UNCHANGED <<before, paused, write, forget, forgot>> /\ UNCHANGED <<nodes, edges, origin, makers, gone>>
  BY DEF JobFails, frame, store
<1>2. /\ OwnStep(j) /\ pc'[j] = "done" /\ job'[j] = NoJob
      /\ Held(job'[j]) = {} /\ Refs(job'[j]) = {} /\ job'[j].name = "none"
  BY <1>1, EndsOwn
<1> QED BY <1>1, <1>2 DEF Reads

LEMMA PurgeStored ==
  ASSUME JInv, NEW j \in Jobs, Purge(j)
  PROVE  /\ Stored(j) /\ pc'[j] = "done" /\ job'[j] = NoJob
         /\ \A n \in Members(nodes') : n \in Members(nodes)
         /\ edges' \subseteq edges
<1> DEFINE P == {i \in DOMAIN nodes : nodes[i].id \notin job[j].seen}
<1>1. /\ pc[j] = "busy" /\ job' = [job EXCEPT ![j] = NoJob] /\ pc' = [pc EXCEPT ![j] = "done"]
      /\ UNCHANGED <<before, paused, write, forget, forgot>>
      /\ nodes' = Filter(nodes, P) /\ edges' = {e \in edges : ~ Incident(e, job[j].seen)} /\ Remember(j)
  BY DEF Purge, Over, InJob, frame, DeleteNodes
<1>2. /\ OwnStep(j) /\ pc'[j] = "done" /\ job'[j] = NoJob
      /\ Held(job'[j]) = {} /\ Refs(job'[j]) = {} /\ job'[j].name = "none"
  BY <1>1, EndsOwn
<1>3. NodesOK(nodes) /\ edges \subseteq Edge
  BY JobStarts DEF TypeOK
<1>4. P \in SUBSET DOMAIN nodes
      /\ \A m : (\E i \in P : nodes[i] = m) <=> m \in Members(nodes) /\ m.id \notin job[j].seen
  BY DEF Members
<1> HIDE DEF P
<1>5. /\ nodes' \in Seq(Node) /\ Distinct(nodes')
      /\ \A m : m \in Members(nodes') <=> m \in Members(nodes) /\ m.id \notin job[j].seen
  BY <1>1, <1>3, <1>4, FilterMembers DEF NodesOK
<1>6. ASSUME NEW e \in edges', NEW id \in {e.from, e.to}, id \in Ids(nodes) PROVE id \in Ids(nodes')
  <2>1. id \notin job[j].seen
    BY <1>1 DEF Incident
  <2>2. PICK m \in Members(nodes) : m.id = id
    BY <1>6 DEF Ids, Members
  <2>3. m \in Members(nodes')
    BY <1>5, <2>1, <2>2
  <2> QED BY <2>2, <2>3 DEF Ids, Members
<1>7. edges' \subseteq edges
  BY <1>1
<1>8. Stored(j)
  BY <1>1, <1>2, <1>3, <1>5, <1>6, <1>7 DEF Stored, NodesOK
<1> QED BY <1>2, <1>5, <1>7, <1>8

\* What a step of a job does to the store, and to its own variables.
LEMMA JobSteps ==
  ASSUME JInv, NEW j \in Jobs, Consolidating(j)
  PROVE  Reads(j) \/ Stored(j)
<1>1. Compact(j) => Stored(j)
  BY CompactStored
<1>2. FindActions(j) => Reads(j)
  BY FindActionsReads
<1>3. Consolidate(j) \/ ListEntities(j) \/ FindIncident(j) \/ ListMembers(j) \/ ListTasks(j) \/ FindSkill(j)
        \/ ListPreferences(j) \/ ListAll(j) \/ JobFails(j) => Reads(j)
  BY ConsolidateReads, ListEntitiesReads, FindIncidentReads, ListMembersReads, ListTasksReads, FindSkillReads,
     ListPreferencesReads, ListAllReads, JobFailsReads
<1>4. Merge(j) \/ FormConcept(j) \/ Promote(j) \/ ResolveContradiction(j) \/ Cool(j) \/ Purge(j) => Stored(j)
  BY MergeStored, FormConceptStored, PromoteStored, ResolveContradictionStored, CoolStored, PurgeStored
<1> QED BY <1>1, <1>2, <1>3, <1>4 DEF Consolidating

LEMMA JobInv ==
  ASSUME JInv, NEW j \in Jobs, Consolidating(j)
  PROVE  JInv' /\ Forward /\ OwnStep(j)
<1>1. Reads(j) \/ Stored(j)
  BY JobSteps
<1>2. CASE Reads(j)
  BY <1>2, ReadsInv DEF Kept, Reads
<1>3. CASE Stored(j)
  BY <1>3, StoredInv DEF Stored
<1> QED BY <1>1, <1>2, <1>3

LEMMA InitJobs == InitAll => JInv
<1> SUFFICES ASSUME InitAll PROVE JInv
  OBVIOUS
<1>1. IInv /\ job = [j \in Jobs |-> NoJob] /\ pc = [f \in Flows |-> "idle"]
  BY InitInv DEF InitAll, Init
<1>2. \A j \in Jobs : job[j] = NoJob /\ pc[j] # "busy" /\ Held(job[j]) = {}
  BY <1>1, QuietJob DEF Flows
<1>3. JobsAlike
  BY <1>2 DEF JobsAlike
<1>4. \A j \in Jobs : JobOK(j)
  BY <1>2 DEF JobOK
<1> QED BY <1>1, <1>3, <1>4 DEF JInv

LEMMA NextAllInv ==
  ASSUME JInv, [NextAll]_allVars
  PROVE  JInv' /\ Forward
<1>1. CASE [Next]_vars /\ UNCHANGED job
  BY <1>1, OthersInv DEF Kept
<1>2. CASE \E j \in Jobs : Consolidating(j)
  BY <1>2, JobInv
<1> QED BY <1>1, <1>2 DEF NextAll, allVars

LEMMA AllInvariance == SpecAll => []JInv
<1>1. JInv /\ [NextAll]_allVars => JInv'
  BY NextAllInv
<1> QED BY <1>1, InitJobs, PTL DEF SpecAll

-----------------------------------------------------------------------------
(* A consolidation that nothing overlaps                                   *)

\* A flow that moves while a consolidation is under way overlaps it.
LEMMA MoverOverlaps ==
  ASSUME TypeOK, HistoryOK, NEW f \in Flows, NEW s \in {"busy", "done"}, Moves(f, s),
         NEW j \in Jobs, j # f, pc[j] = "busy"
  PROVE  Overlap(f, j)' /\ ~ Alone(j)'
<1>1. /\ \A g \in Flows \ {f} : pc'[g] = pc[g] /\ before'[g] = before[g]
      /\ pc'[f] = s
  BY MovesOn
<1>2. j \in Flows /\ pc'[j] = "busy" /\ before'[j] = before[j]
  BY <1>1 DEF Flows
<1>3. f \notin before[j] /\ j \notin Ended /\ before[f] \subseteq Ended
  BY <1>2 DEF HistoryOK, Ended, Moves
<1>4. before'[f] = Ended \/ before'[f] = before[f]
  BY DEF Moves, TypeOK
<1>5. Overlap(f, j)'
  BY <1>1, <1>2, <1>3, <1>4 DEF Overlap
<1> QED BY <1>2, <1>5 DEF Alone

LEMMA AloneBefore ==
  ASSUME Forward, NEW j \in Jobs, Alone(j)'
  PROVE  Alone(j)
<1>1. j \in Flows
  BY DEF Flows
<1> QED BY <1>1, OverlapStays DEF Alone

\* What writes and requests to forget change, they change in a flow that moves.
LEMMA OthersMove ==
  ASSUME IInv, [Next]_vars
  PROVE  \/ UNCHANGED <<nodes, edges>>
         \/ \E f \in Writers \cup Forgets : Moves(f, "done")
<1>1. ASSUME NEW w \in Writers, Writing(w)
      PROVE  UNCHANGED <<nodes, edges>> \/ Moves(w, "done")
  <2>1. Commit(w) => Moves(w, "done")
    BY DEF Commit, Moves
  <2>2. RecordEvents(w) \/ WriteFails(w) => UNCHANGED <<nodes, edges>>
    BY DEF RecordEvents, WriteFails, store
  <2>3. ASSUME NEW q, NEW n, GoesOn(w, q, n) PROVE UNCHANGED <<nodes, edges>>
    BY <2>3 DEF GoesOn, store
  <2>4. Primary(w) \/ Anchor(w) \/ RollUp(w) => UNCHANGED <<nodes, edges>>
    BY Zenon, <2>3 DEF Primary, Anchor, RollUp
  <2>5. Supersede(w) \/ ResolveEntity(w) \/ Corefer(w) => UNCHANGED <<nodes, edges>>
    <3>1. Supersede(w) => UNCHANGED <<nodes, edges>>
      BY <2>3 DEF Supersede
    <3>2. ResolveEntity(w) => UNCHANGED <<nodes, edges>>
      BY <2>3 DEF ResolveEntity
    <3>3. Corefer(w) => UNCHANGED <<nodes, edges>>
      BY Zenon, <2>3 DEF Corefer
    <3> QED BY <3>1, <3>2, <3>3
  <2> QED BY <1>1, <2>1, <2>2, <2>4, <2>5 DEF Writing
<1>2. ASSUME NEW g \in Forgets, Forgetting(g)
      PROVE  UNCHANGED <<nodes, edges>> \/ Moves(g, "done")
  <2>1. ForgetNode(g) \/ ForgetEdge(g) => Moves(g, "done")
    BY DEF ForgetNode, ForgetEdge, Ends, Begin, Moves
  <2>2. DeleteListed(g) => Moves(g, "done")
    BY DEF DeleteListed, Ends, Moves
  <2>3. ListDomain(g) \/ ListTimeRange(g) \/ FindDomain(g) => UNCHANGED <<nodes, edges>>
    BY DEF ListDomain, ListTimeRange, FindDomain, Lists, store
  <2> QED BY <1>2, <2>1, <2>2, <2>3 DEF Forgetting
<1> QED BY <1>1, <1>2 DEF Next, SetPaused, store, vars

\* While nothing overlaps a consolidation, only its own steps change what it works on.
LEMMA OthersLeave ==
  ASSUME JInv, [NextAll]_allVars, NEW j \in Jobs, ~ Consolidating(j), Alone(j)', pc'[j] = "busy"
  PROVE  pc[j] = "busy" /\ job'[j] = job[j] /\ UNCHANGED <<nodes, edges>> /\ Alone(j)
<1>1. Forward /\ TypeOK /\ HistoryOK /\ IInv
  BY NextAllInv DEF JInv, IInv
<1>2. j \in Flows /\ Alone(j)
  BY <1>1, AloneBefore DEF Flows
<1>3. CASE [Next]_vars /\ UNCHANGED job
  <2>1. pc[j] = "busy"
    BY <1>1, <1>3, NextJobs
  <2>2. ~ \E f \in Writers \cup Forgets : Moves(f, "done")
    BY <1>1, <2>1, MoverOverlaps, MemoryAssumption DEF Flows
  <2> QED BY <1>1, <1>2, <1>3, <2>1, <2>2, OthersMove
<1>4. ASSUME NEW k \in Jobs, Consolidating(k) PROVE FALSE
  <2>1. OwnStep(k) /\ k # j /\ k \in Flows
    BY <1>4, JobInv DEF Flows
  <2>2. pc[j] = "busy"
    BY <1>1, <1>2, <2>1, OwnMoves
  <2>3. PICK s \in {"busy", "done"} : Moves(k, s)
    BY <2>1 DEF OwnStep
  <2> QED BY <1>1, <2>1, <2>2, <2>3, MoverOverlaps
<1> QED BY <1>2, <1>3, <1>4 DEF NextAll, allVars

-----------------------------------------------------------------------------
(* One value of a preference                                               *)

LEMMA ValueOthers ==
  ASSUME JInv, [NextAll]_allVars, NEW j \in Jobs, ~ Consolidating(j), ValueOK(j)
  PROVE  ValueOK(j)'
<1> SUFFICES ASSUME Alone(j)', pc'[j] = "busy" PROVE ValueOK(j)'
  BY DEF ValueOK, InJob
<1>1. pc[j] = "busy" /\ job'[j] = job[j] /\ nodes' = nodes /\ Alone(j)
  BY OthersLeave
<1> QED BY <1>1 DEF ValueOK, InJob

LEMMA ValuesResolved ==
  ASSUME JInv, NEW j \in Jobs, ValueOK(j), ResolveContradiction(j)
  PROVE  ValueOK(j)'
<1>1. /\ Stored(j) /\ Resolved(j) /\ pc'[j] = "busy" /\ job[j].work # <<>>
      /\ job'[j].name = "contradictions" /\ job'[j].work = Tail(job[j].work)
  BY ResolveContradictionStored
<1>2. pc[j] = "busy" /\ job[j].name = "contradictions" /\ Forward
  BY <1>1, StoredInv DEF ResolveContradiction, HasWork, InJob
<1>3. job[j].work \in Seq(Seq(Node))
  BY <1>2, BusyRecord DEF RecordOK
<1>4. \A g \in Members(job[j].work) : g = Head(job[j].work) \/ g \in Members(Tail(job[j].work))
  BY <1>1, <1>3, TailMembers
<1> SUFFICES ASSUME Alone(j)', NEW a \in Members(nodes'), NEW b \in Members(nodes'), InForce(a, b)
             PROVE  \E g \in Members(job'[j].work) : {a.id, b.id} \subseteq Ids(g)
  BY <1>1 DEF ValueOK, InJob
<1>5. Alone(j)
  BY <1>2, AloneBefore
<1>6. a.id # b.id /\ "superseded" \notin a.marks /\ "superseded" \notin b.marks
  BY DEF InForce
<1>7. a \in Members(nodes) /\ b \in Members(nodes)
  BY <1>1, <1>6 DEF Resolved
<1>8. PICK g \in Members(job[j].work) : {a.id, b.id} \subseteq Ids(g)
  BY <1>2, <1>5, <1>7 DEF ValueOK, InJob
<1>9. g # Head(job[j].work)
  BY <1>1, <1>6, <1>8 DEF Resolved
<1> QED BY <1>1, <1>4, <1>8, <1>9

LEMMA ValuesCooled ==
  ASSUME JInv, NEW j \in Jobs, ValueOK(j), Cool(j)
  PROVE  ValueOK(j)'
<1>1. /\ Stored(j) /\ pc[j] = "busy" /\ job[j].name = "decay"
      /\ pc'[j] = "busy" /\ job'[j].name = "decay" /\ job'[j].work = <<>>
      /\ \A n \in Members(nodes') :
           \/ n \in Members(nodes)
           \/ \E c \in Members(job[j].work) : n.id = c.id /\ Alike(n, c) /\ n.marks = c.marks \cup {"cold"}
  BY CoolStored
<1>2. Forward
  BY <1>1, StoredInv
<1>3. Members(job'[j].work) = {}
  BY <1>1 DEF Members
<1> SUFFICES ASSUME Alone(j)', NEW a \in Members(nodes'), NEW b \in Members(nodes'), InForce(a, b) PROVE FALSE
  BY <1>1, <1>3 DEF ValueOK, InJob
<1>4. Alone(j)
  BY <1>2, AloneBefore
<1>5. Members(job[j].work) \subseteq Members(nodes) /\ \A c, d \in Members(nodes) : ~ InForce(c, d)
  BY <1>1, <1>4 DEF ValueOK, InJob
<1>6. ASSUME NEW n \in Members(nodes')
      PROVE  \E c \in Members(nodes) : n.id = c.id /\ n.type = c.type /\ n.key = c.key /\ c.marks \subseteq n.marks
  BY <1>1, <1>5 DEF Alike
<1>7. PICK c \in Members(nodes) : a.id = c.id /\ a.type = c.type /\ a.key = c.key /\ c.marks \subseteq a.marks
  BY <1>6
<1>8. PICK d \in Members(nodes) : b.id = d.id /\ b.type = d.type /\ b.key = d.key /\ d.marks \subseteq b.marks
  BY <1>6
<1>9. InForce(c, d)
  BY <1>7, <1>8 DEF InForce
<1> QED BY <1>5, <1>9

LEMMA ValueOwn ==
  ASSUME JInv, NEW j \in Jobs, Consolidating(j), ValueOK(j)
  PROVE  ValueOK(j)'
<1>1. CASE pc'[j] = "done" \/ job'[j].name \in {"episodes", "entities", "concepts", "skills"}
  BY <1>1 DEF ValueOK, InJob
<1>2. Consolidate(j) \/ FindActions(j) \/ Compact(j) \/ ListEntities(j) \/ FindIncident(j) \/ Merge(j)
        => job'[j].name \in {"episodes", "entities"}
  BY ConsolidateReads, FindActionsReads, CompactStored, ListEntitiesReads, FindIncidentReads, MergeStored
<1>3. ListMembers(j) \/ FormConcept(j) \/ ListTasks(j) \/ FindSkill(j) \/ Promote(j)
        => job'[j].name \in {"concepts", "skills"}
  BY ListMembersReads, FormConceptStored, ListTasksReads, FindSkillReads, PromoteStored
<1>4. Purge(j) \/ JobFails(j) => pc'[j] = "done"
  BY PurgeStored, JobFailsReads
<1>5. ASSUME ListPreferences(j) PROVE ValueOK(j)'
  <2>1. /\ Reads(j) /\ job'[j].name = "contradictions"
        /\ \A a, b \in Members(nodes) :
             InForce(a, b) => \E g \in Members(job'[j].work) : {a.id, b.id} \subseteq Ids(g)
    BY <1>5, ListPreferencesReads
  <2>2. nodes' = nodes
    BY <2>1 DEF Reads
  <2> QED BY <2>1, <2>2 DEF ValueOK, InJob
<1>6. ASSUME ListAll(j) PROVE ValueOK(j)'
  <2>1. /\ Reads(j) /\ pc[j] = "busy" /\ job[j].name = "contradictions" /\ job[j].work = <<>>
        /\ job'[j].name = "decay" /\ Members(job'[j].work) \subseteq Members(nodes)
    BY <1>6, ListAllReads
  <2>2. nodes' = nodes /\ Forward
    BY <2>1, ReadsInv DEF Reads, Kept
  <2>3. Alone(j)' => Alone(j)
    BY <2>2, AloneBefore
  <2>4. Members(job[j].work) = {}
    BY <2>1 DEF Members
  <2> QED BY <2>1, <2>2, <2>3, <2>4 DEF ValueOK, InJob
<1> QED BY <1>1, <1>2, <1>3, <1>4, <1>5, <1>6, ValuesResolved, ValuesCooled DEF Consolidating

-----------------------------------------------------------------------------
(* The links of a duplicate                                                *)

LEMMA LinkOthers ==
  ASSUME JInv, [NextAll]_allVars, NEW j \in Jobs, ~ Consolidating(j), LinkOK(j)
  PROVE  LinkOK(j)'
<1> SUFFICES ASSUME Alone(j)', pc'[j] = "busy" PROVE LinkOK(j)'
  BY DEF LinkOK, InJob
<1>1. pc[j] = "busy" /\ job'[j] = job[j] /\ nodes' = nodes /\ edges' = edges /\ Alone(j)
  BY OthersLeave
<1>2. \A id : Neighbors(id)' = Neighbors(id)
  BY <1>1 DEF Neighbors
<1> QED BY <1>1, <1>2 DEF LinkOK, InJob

LEMMA LinkOwn ==
  ASSUME JInv, NEW j \in Jobs, Consolidating(j)
  PROVE  LinkOK(j)'
<1>1. CASE pc'[j] = "done" \/ job'[j].name # "entities" \/ job'[j].ready = FALSE
  BY <1>1 DEF LinkOK, InJob
<1>2. Consolidate(j) \/ FindActions(j) \/ Compact(j) \/ ListEntities(j) \/ Merge(j)
        => job'[j].name # "entities" \/ job'[j].ready = FALSE
  BY ConsolidateReads, FindActionsReads, CompactStored, ListEntitiesReads, MergeStored
<1>3. ListMembers(j) \/ FormConcept(j) \/ ListTasks(j) \/ FindSkill(j) \/ Promote(j) => job'[j].name # "entities"
  BY ListMembersReads, FormConceptStored, ListTasksReads, FindSkillReads, PromoteStored
<1>4. ListPreferences(j) \/ ResolveContradiction(j) \/ ListAll(j) \/ Cool(j) => job'[j].name # "entities"
  BY ListPreferencesReads, ResolveContradictionStored, ListAllReads, CoolStored
<1>5. Purge(j) \/ JobFails(j) => pc'[j] = "done"
  BY PurgeStored, JobFailsReads
<1>6. ASSUME FindIncident(j) PROVE LinkOK(j)'
  <2>1. /\ Reads(j) /\ job'[j].work = job[j].work /\ job'[j].seen = Neighbors(Head(job[j].work).duplicate)
    BY <1>6, FindIncidentReads
  <2>2. \A id : Neighbors(id)' = Neighbors(id)
    BY <2>1 DEF Neighbors, Reads
  <2> QED BY <2>1, <2>2 DEF LinkOK
<1> QED BY <1>1, <1>2, <1>3, <1>4, <1>5, <1>6 DEF Consolidating

LEMMA MergeKeeps ==
  ASSUME JInv, NEW j \in Jobs, LinkOK(j), Merge(j), Alone(j), NEW e \in edges \ edges',
         {e.from, e.to} \subseteq Ids(nodes)
  PROVE  LET merge == Head(job[j].work)
             d == Repoint(e, merge.duplicate, merge.canonical.id)
         IN  d.from = d.to \/ [d EXCEPT !.by = j] \in edges'
<1> DEFINE merge == Head(job[j].work)
           dup == merge.duplicate
           into == merge.canonical.id
           d == Repoint(e, dup, into)
           f == [d EXCEPT !.by = j]
           moved == {Repoint(x, dup, into) : x \in job[j].seen}
           links == {[x EXCEPT !.by = j] : x \in {y \in moved : y.from # y.to}}
<1>1. /\ pc[j] = "busy" /\ job[j].name = "entities" /\ job[j].work # <<>> /\ job[j].ready
      /\ edges' = {x \in edges \cup links : ~ Incident(x, {dup})}
  BY SMTT(30) DEF Merge, HasWork, InJob
<1>2. job[j].seen = Neighbors(dup)
  BY SMTT(30), <1>1 DEF LinkOK, InJob
<1>3. job[j].work \in Seq(Merging) /\ merge \in Members(job[j].work) /\ into # dup
  BY <1>1, BusyRecord, MergeStored DEF RecordOK
<1>4. merge \in Merging /\ into \in Id
  <2>1. merge \in Merging
    BY <1>1, <1>3, TailMembers
  <2> HIDE DEF merge
  <2>2. merge.canonical \in Node
    BY <2>1 DEF Merging
  <2> QED BY <2>1, <2>2 DEF Node
<1>5. Incident(e, {dup}) /\ e \in edges /\ e \in Edge
  BY <1>1, JobStarts DEF TypeOK
<1>6. e \in job[j].seen
  BY <1>2, <1>5 DEF Incident, Neighbors
<1>7. /\ d.type = e.type /\ d.from = (IF e.from = dup THEN into ELSE e.from)
      /\ d.to = (IF e.to = dup THEN into ELSE e.to)
      /\ f \in Edge /\ f.by = j /\ f.type = e.type /\ f.from = d.from /\ f.to = d.to
  <2>1. e \in Edge /\ into \in Id
    BY SMTT(30), <1>4, <1>5
  <2> HIDE DEF into, dup, merge
  <2> QED BY <2>1, RepointMeans
<1>8. d.from # d.to => f \in links
  BY <1>6
<1> HIDE DEF links, f, d, into, dup
<1>9. d.from # d.to => f \in edges'
  BY <1>1, <1>3, <1>7, <1>8 DEF Incident
<1> QED BY SMTT(30), <1>9 DEF f, d, into, dup

-----------------------------------------------------------------------------

LEMMA LayersInv ==
  ASSUME JInv, \A j \in Jobs : ValueOK(j) /\ LinkOK(j), [NextAll]_allVars
  PROVE  \A j \in Jobs : ValueOK(j)' /\ LinkOK(j)'
<1> SUFFICES ASSUME NEW j \in Jobs PROVE ValueOK(j)' /\ LinkOK(j)'
  OBVIOUS
<1> QED BY ValueOthers, ValueOwn, LinkOthers, LinkOwn

LEMMA LayersInvariance == SpecAll => [](JInv /\ \A j \in Jobs : ValueOK(j) /\ LinkOK(j))
<1> DEFINE L == JInv /\ \A j \in Jobs : ValueOK(j) /\ LinkOK(j)
<1>1. InitAll => L
  <2> SUFFICES ASSUME InitAll PROVE L
    OBVIOUS
  <2>1. JInv /\ \A j \in Jobs : pc[j] # "busy"
    BY InitJobs DEF InitAll, Init, Flows
  <2> QED BY <2>1 DEF ValueOK, LinkOK, InJob
<1>2. L /\ [NextAll]_allVars => L'
  BY NextAllInv, LayersInv
<1> QED BY <1>1, <1>2, PTL DEF SpecAll

\* Whatever consolidations run beside the writes and the requests to forget, the state
\* has its types.
THEOREM AllTypeCorrect == SpecAll => []TypeOK
<1>1. JInv => TypeOK
  BY DEF JInv, IInv
<1> QED BY <1>1, AllInvariance, PTL

\* Consolidations that run at any time make no second node of a natural key either:
\* the rivals of one are calls that overlapped.
THEOREM AllKeysAreShared == SpecAll => []OneNodePerKey
<1>1. JInv => OneNodePerKey
  BY DEF JInv, IInv
<1> QED BY <1>1, AllInvariance, PTL

\* What consolidations link, copy back, merge and purge leaves no edge to a node that was
\* not there for the edge's writer.
THEOREM AllEdgesLead == SpecAll => []CascadeHolds
<1>1. JInv => CascadeHolds
  BY DEF JInv, IInv
<1> QED BY <1>1, AllInvariance, PTL

\* With consolidations, what is stored of a forgotten domain is still the work of calls that
\* had not returned when the forgetting began, be it a copy that a consolidation read before
\* and put back.
THEOREM AllForgettingLasts == SpecAll => []ForgottenStays
<1>1. JInv => ForgottenStays
  BY DEF JInv, IInv
<1> QED BY <1>1, AllInvariance, PTL

\* When a consolidation that nothing overlapped comes to applyDecay, no two values of a
\* preference are in force.
THEOREM ValuesAreResolved == SpecAll => []OneValueInForce
<1>1. ASSUME JInv, \A j \in Jobs : ValueOK(j) /\ LinkOK(j) PROVE OneValueInForce
  <2> SUFFICES ASSUME NEW j \in Jobs, InJob(j, "decay"), Alone(j), NEW a \in DOMAIN nodes, NEW b \in DOMAIN nodes,
                      nodes[a].type = "Preference", nodes[b].type = "Preference",
                      nodes[a].key = nodes[b].key, "superseded" \notin nodes[a].marks \cup nodes[b].marks
               PROVE  a = b
    BY DEF OneValueInForce
  <2>1. ~ InForce(nodes[a], nodes[b])
    BY <1>1 DEF ValueOK, Members
  <2>2. nodes[a].id = nodes[b].id
    BY <2>1 DEF InForce
  <2> QED BY <1>1, <2>2, JobStarts DEF NodesOK, Distinct
<1> QED BY <1>1, LayersInvariance, PTL

\* A merge in a consolidation that nothing overlaps takes every link of the duplicate
\* with it, whose other end is stored.
THEOREM LinksAreKept == SpecAll => LinksSurvive
<1>1. ASSUME JInv, \A j \in Jobs : ValueOK(j) /\ LinkOK(j)
      PROVE  \A j \in Jobs : Merge(j) /\ Alone(j) =>
               LET merge == Head(job[j].work)
               IN  \A e \in edges \ edges' : {e.from, e.to} \subseteq Ids(nodes) =>
                     LET d == Repoint(e, merge.duplicate, merge.canonical.id)
                     IN  d.from = d.to \/ [d EXCEPT !.by = j] \in edges'
  BY <1>1, MergeKeeps
<1> QED BY <1>1, LayersInvariance, PTL DEF LinksSurvive

-----------------------------------------------------------------------------
(* One episode of an action                                                *)

\* What writes and requests to forget leave in the store.
LEMMA NextStores ==
  ASSUME IInv, [Next]_vars
  PROVE  /\ \A n \in Members(nodes') : n \in Members(nodes) \/ \E w \in Writers : n \in Members(write[w].staged)
         /\ \A e \in edges' : e \in edges \/ e.type # "DERIVED_FROM"
<1> DEFINE Goal == /\ \A n \in Members(nodes') :
                        n \in Members(nodes) \/ \E w \in Writers : n \in Members(write[w].staged)
                   /\ \A e \in edges' : e \in edges \/ e.type # "DERIVED_FROM"
<1>1. /\ nodes \in Seq(Node) /\ Distinct(nodes)
      /\ \A w \in Writers : WriteOK(w) /\ write[w].staged \in Seq(Node) /\ Distinct(write[w].staged)
  BY DEF IInv, TypeOK, NodesOK
<1>2. CASE UNCHANGED <<nodes, edges>>
  BY <1>2
<1>3. ASSUME NEW w \in Writers, Commit(w) PROVE Goal
  <2> DEFINE s == write[w].staged
  <2>1. nodes' = PutAll(nodes, s) /\ edges' = edges \cup write[w].links
    BY <1>3 DEF Commit, ApplyBatch
  <2>2. \A n \in Members(nodes') : n \in Members(s) \/ n \in Members(nodes)
    <3>1. s \in Seq(Node) /\ Distinct(s)
      BY <1>1
    <3> HIDE DEF s
    <3> QED BY <1>1, <2>1, <3>1, PutAllMeans
  <2>3. \A e \in write[w].links : e.type # "DERIVED_FROM"
    BY <1>1 DEF WriteOK
  <2> QED BY <2>1, <2>2, <2>3
<1>4. ASSUME NEW g, NEW ids, DeleteNodes(g, ids) PROVE Goal
  <2> DEFINE P == {i \in DOMAIN nodes : nodes[i].id \notin ids}
  <2>1. nodes' = Filter(nodes, P) /\ edges' \subseteq edges
    BY <1>4 DEF DeleteNodes
  <2>2. P \in SUBSET DOMAIN nodes
    OBVIOUS
  <2> HIDE DEF P
  <2>3. \A n \in Members(nodes') : \E i \in P : nodes[i] = n
    BY <1>1, <2>1, <2>2, FilterMembers
  <2> QED BY <2>1, <2>2, <2>3 DEF Members
<1>5. ASSUME NEW w \in Writers, Writing(w) PROVE UNCHANGED <<nodes, edges>> \/ Commit(w)
  <2>1. RecordEvents(w) \/ WriteFails(w) => UNCHANGED <<nodes, edges>>
    BY DEF RecordEvents, WriteFails, store
  <2>2. ASSUME NEW q, NEW n, GoesOn(w, q, n) PROVE UNCHANGED <<nodes, edges>>
    BY <2>2 DEF GoesOn, store
  <2>3. Primary(w) \/ Anchor(w) \/ RollUp(w) => UNCHANGED <<nodes, edges>>
    BY <2>2 DEF Primary, Anchor, RollUp
  <2>4. Supersede(w) => UNCHANGED <<nodes, edges>>
    BY <2>2 DEF Supersede
  <2>5. ResolveEntity(w) => UNCHANGED <<nodes, edges>>
    BY <2>2 DEF ResolveEntity
  <2>6. Corefer(w) => UNCHANGED <<nodes, edges>>
    BY <2>2 DEF Corefer
  <2> QED BY <1>5, <2>1, <2>3, <2>4, <2>5, <2>6 DEF Writing
<1>6. ASSUME NEW g \in Forgets, Forgetting(g) PROVE Goal
  <2>1. ForgetNode(g) => \E ids : DeleteNodes(g, ids)
    BY DEF ForgetNode
  <2>2. DeleteListed(g) => \E ids : DeleteNodes(g, ids)
    BY DEF DeleteListed
  <2>3. ForgetEdge(g) => nodes' = nodes /\ edges' \subseteq edges
    BY DEF ForgetEdge
  <2>4. ListDomain(g) \/ ListTimeRange(g) \/ FindDomain(g) => UNCHANGED <<nodes, edges>>
    BY DEF ListDomain, ListTimeRange, FindDomain, Lists, store
  <2> QED BY <1>4, <1>6, <2>1, <2>2, <2>3, <2>4 DEF Forgetting
<1> HIDE DEF Goal
<1>7. SetPaused \/ UNCHANGED vars => UNCHANGED <<nodes, edges>>
  BY DEF SetPaused, store, vars
<1>8. UNCHANGED <<nodes, edges>> => Goal
  BY <1>2 DEF Goal
<1>9. Goal
  BY <1>3, <1>5, <1>6, <1>7, <1>8 DEF Next
<1> QED BY <1>9 DEF Goal

LEMMA SerialBefore ==
  ASSUME Forward, Serial'
  PROVE  Serial
BY OverlapStays DEF Serial, Flows

\* A node that is staged and was ever stored is not an action.
LEMMA StagedAction ==
  ASSUME IInv, NEW w \in Writers, NEW n \in Members(write[w].staged), n.id \in DOMAIN makers
  PROVE  n.type # "Action"
<1>1. WriteOK(w) /\ HistoryOK
  BY DEF IInv
<1>2. pc[w] = "busy"
  <2>1. ASSUME pc[w] # "busy" PROVE FALSE
    <3>1. write[w].staged = <<>>
      BY <1>1, <2>1 DEF WriteOK, NoWrite
    <3> QED BY <3>1 DEF Members
  <2> QED BY <2>1
<1>3. w \notin Stores
  BY <1>2, MemoryAssumption DEF Stores, Ended
<1>4. n.id[1] # w
  BY <1>1, <1>3 DEF HistoryOK
<1> QED BY <1>1, <1>4 DEF WriteOK

LEMMA EpisodesOthers ==
  ASSUME JInv, EpisodesOK, [Next]_vars, UNCHANGED job
  PROVE  EpisodesOK'
<1>1. Kept /\ IInv
  BY OthersInv DEF JInv
<1> SUFFICES ASSUME Serial'
             PROVE  (/\ \A d, e \in Derived : d.to = e.to => d.from = e.from
                     /\ EpisodeNodes /\ \A j \in Jobs : EpisodeJob(j))'
  BY DEF EpisodesOK
<1>2. Serial
  BY <1>1, SerialBefore DEF Kept
<1>3. /\ \A d, e \in Derived : d.to = e.to => d.from = e.from
      /\ EpisodeNodes /\ \A j \in Jobs : EpisodeJob(j)
  BY <1>2 DEF EpisodesOK
<1>4. /\ \A n \in Members(nodes') : n \in Members(nodes) \/ \E w \in Writers : n \in Members(write[w].staged)
      /\ \A e \in edges' : e \in edges \/ e.type # "DERIVED_FROM"
  BY <1>1, NextStores
<1>5. Derived' \subseteq Derived
  BY <1>4 DEF Derived
<1>6. AllHeld' = AllHeld /\ DOMAIN makers \subseteq DOMAIN makers'
  BY <1>1 DEF AllHeld, Held, Kept, Forward
<1>7. \A j \in Jobs : EpisodeJob(j)'
  <2>1. \A j \in Jobs : pc'[j] = pc[j]
    BY <1>1, NextJobs DEF IInv
  <2> QED BY <1>3, <1>5, <2>1 DEF EpisodeJob, InJob
<1>8. ASSUME NEW e \in Derived'
      PROVE  /\ e.from \in DOMAIN makers' /\ e.to \in DOMAIN makers'
             /\ \A n \in Known' \cup AllHeld' :
                  (n.id = e.to => n.type = "Action") /\ (n.id = e.from => n.type = "Observation")
             /\ \A n \in Members(nodes') \cup AllHeld' : n.id = e.to => "compacted" \in n.marks
  <2>1. /\ e.from \in DOMAIN makers /\ e.to \in DOMAIN makers
        /\ \A n \in Known \cup AllHeld :
             (n.id = e.to => n.type = "Action") /\ (n.id = e.from => n.type = "Observation")
        /\ \A n \in Members(nodes) \cup AllHeld : n.id = e.to => "compacted" \in n.marks
    BY <1>3, <1>5 DEF EpisodeNodes
  <2>2. ASSUME NEW n \in Known', n.id = e.to \/ n.id = e.from
        PROVE  (n.id = e.to => n.type = "Action") /\ (n.id = e.from => n.type = "Observation")
    <3>1. PICK m \in Known : m.id = n.id /\ Alike(n, m)
      BY <1>1, <2>1, <2>2 DEF Kept, Traced
    <3> QED BY <2>1, <3>1 DEF Alike
  <2>3. ASSUME NEW n \in Members(nodes'), n.id = e.to PROVE "compacted" \in n.marks
    <3>1. ASSUME NEW w \in Writers, n \in Members(write[w].staged) PROVE FALSE
      <4>1. n \in Known
        BY <3>1 DEF Known
      <4>2. n.type = "Action"
        BY <2>1, <2>3, <4>1
      <4> QED BY <1>1, <2>1, <2>3, <3>1, <4>2, StagedAction
    <3> QED BY <1>4, <2>1, <2>3, <3>1
  <2> QED BY <1>6, <2>1, <2>2, <2>3
<1>9. EpisodeNodes'
  BY <1>8 DEF EpisodeNodes
<1>10. \A d, e \in Derived' : d.to = e.to => d.from = e.from
  BY <1>3, <1>5
<1> QED BY <1>7, <1>9, <1>10

\* In a row of consolidations, the others hold nothing while one takes a step.
LEMMA OnlyOne ==
  ASSUME JInv, NEW j \in Jobs, Consolidating(j), Serial'
  PROVE  /\ Serial /\ \A k \in Jobs \ {j} : pc[k] # "busy" /\ pc'[k] # "busy" /\ Held(job[k]) = {} /\ Held(job'[k]) = {}
         /\ AllHeld = Held(job[j]) /\ AllHeld' = Held(job'[j])
<1>1. Forward /\ OwnStep(j) /\ TypeOK /\ HistoryOK /\ j \in Flows
  BY JobInv DEF JInv, IInv, Flows
<1>2. ASSUME NEW k \in Jobs \ {j}
      PROVE  pc[k] # "busy" /\ pc'[k] # "busy" /\ Held(job[k]) = {} /\ Held(job'[k]) = {}
  <2>1. k \in Flows /\ pc'[k] = pc[k] /\ job'[k] = job[k]
    BY <1>1, OwnMoves DEF Flows, OwnStep
  <2>2. pc[k] # "busy"
    <3>1. PICK s \in {"busy", "done"} : Moves(j, s)
      BY <1>1 DEF OwnStep
    <3>2. pc[k] = "busy" => Overlap(j, k)'
      BY <1>1, <3>1, MoverOverlaps
    <3> QED BY <3>2 DEF Serial
  <2>3. job[k] = NoJob
    BY <2>2 DEF JInv, JobOK
  <2>4. job'[k] = NoJob /\ Held(job[k]) = {}
    BY <2>1, <2>3, QuietJob
  <2> QED BY <2>1, <2>2, <2>4
<1>3. AllHeld = Held(job[j]) /\ AllHeld' = Held(job'[j])
  BY <1>2 DEF AllHeld
<1> QED BY <1>1, <1>2, <1>3, SerialBefore

\* A step of a job that leads to no new episode.
LEMMA EpisodesStay ==
  ASSUME JInv, EpisodesOK, NEW j \in Jobs, Consolidating(j), Reads(j) \/ Stored(j),
         Derived' \subseteq Derived, Serial => EpisodeJob(j)'
  PROVE  EpisodesOK'
<1> SUFFICES ASSUME Serial'
             PROVE  (/\ \A d, e \in Derived : d.to = e.to => d.from = e.from
                     /\ EpisodeNodes /\ \A k \in Jobs : EpisodeJob(k))'
  BY DEF EpisodesOK
<1>1. /\ Serial /\ \A k \in Jobs \ {j} : pc'[k] # "busy"
      /\ AllHeld = Held(job[j]) /\ AllHeld' = Held(job'[j])
  BY OnlyOne
<1>2. /\ \A d, e \in Derived : d.to = e.to => d.from = e.from
      /\ EpisodeNodes
  BY <1>1 DEF EpisodesOK
<1>3. \A k \in Jobs : EpisodeJob(k)'
  BY <1>1 DEF EpisodeJob, InJob
<1>4. Forward /\ OwnStep(j)
  BY JobInv
<1>5. DOMAIN makers \subseteq DOMAIN makers' /\ write' = write
  BY <1>4 DEF Forward, OwnStep
<1>6. ASSUME NEW e \in Derived'
      PROVE  /\ e.from \in DOMAIN makers' /\ e.to \in DOMAIN makers'
             /\ \A n \in Known' \cup AllHeld' :
                  (n.id = e.to => n.type = "Action") /\ (n.id = e.from => n.type = "Observation")
             /\ \A n \in Members(nodes') \cup AllHeld' : n.id = e.to => "compacted" \in n.marks
  <2>1. /\ e.from \in DOMAIN makers /\ e.to \in DOMAIN makers
        /\ \A n \in Known \cup AllHeld :
             (n.id = e.to => n.type = "Action") /\ (n.id = e.from => n.type = "Observation")
        /\ \A n \in Members(nodes) \cup AllHeld : n.id = e.to => "compacted" \in n.marks
    BY <1>2 DEF EpisodeNodes
  <2> DEFINE Fine(n) == /\ (n.id = e.to => n.type = "Action") /\ (n.id = e.from => n.type = "Observation")
                        /\ (n.id = e.to => "compacted" \in n.marks)
  <2>2. \A n \in Members(nodes) \cup Held(job[j]) : Fine(n)
    BY <1>1, <2>1 DEF Known
  <2>3. \A n \in Members(nodes') \cup Held(job'[j]) : Fine(n)
    <3>1. CASE Reads(j)
      <4>1. nodes' = nodes /\ (Held(job'[j]) \subseteq Held(job[j]) \/ Held(job'[j]) \subseteq Members(nodes))
        BY <3>1 DEF Reads
      <4> HIDE DEF Fine
      <4> QED BY <2>2, <4>1
    <3>2. CASE Stored(j)
      <4>1. /\ \A n \in Members(nodes') : n \in Members(nodes) \/ Copied(j, n) \/ Minted(j, n)
            /\ Held(job'[j]) \subseteq Held(job[j]) /\ pc[j] = "busy"
        BY <3>2 DEF Stored
      <4>2. ASSUME NEW n, Copied(j, n) PROVE Fine(n)
        <5>1. PICK c \in Held(job[j]) : n.id = c.id /\ n.type = c.type /\ c.marks \subseteq n.marks
          BY <4>2 DEF Copied, Alike
        <5>2. Fine(c)
          BY <2>2
        <5> QED BY <5>1, <5>2
      <4>3. ASSUME NEW n, Minted(j, n) PROVE Fine(n)
        <5>1. n.id \notin DOMAIN makers
          BY <4>1, <4>3, MintedId DEF Minted
        <5> QED BY <2>1, <5>1
      <4> HIDE DEF Fine
      <4> QED BY <2>2, <4>1, <4>2, <4>3
    <3> QED BY <3>1, <3>2
  <2>4. ASSUME NEW n \in Known', n \notin Members(nodes') PROVE n \in Known
    BY <1>5, <2>4 DEF Known
  <2> QED BY <1>1, <1>5, <2>1, <2>3, <2>4
<1>7. EpisodeNodes'
  BY <1>6 DEF EpisodeNodes
<1>8. \A d, e \in Derived' : d.to = e.to => d.from = e.from
  BY <1>2
<1> QED BY <1>3, <1>7, <1>8

\* An action that a job holds is in no episode when the job writes one.
LEMMA EpisodesCompact ==
  ASSUME JInv, EpisodesOK, NEW j \in Jobs, Compact(j)
  PROVE  EpisodesOK'
<1> SUFFICES ASSUME Serial'
             PROVE  (/\ \A d, e \in Derived : d.to = e.to => d.from = e.from
                     /\ EpisodeNodes /\ \A k \in Jobs : EpisodeJob(k))'
  BY DEF EpisodesOK
<1>1. PICK ups, links :
        /\ Stored(j) /\ Batched(ups, links) /\ Episode(j, ups, links)
        /\ pc'[j] = "busy" /\ job'[j].name = "episodes" /\ job'[j].ready = FALSE
  BY CompactStored
<1>2. /\ Serial /\ \A k \in Jobs \ {j} : pc'[k] # "busy"
      /\ AllHeld = Held(job[j]) /\ AllHeld' = Held(job'[j])
  BY OnlyOne DEF Consolidating
<1>3. pc[j] = "busy" /\ job[j].name = "episodes" /\ job[j].ready
  BY DEF Compact, HasWork, InJob
<1>4. /\ \A d, e \in Derived : d.to = e.to => d.from = e.from
      /\ EpisodeNodes /\ EpisodeJob(j)
  BY <1>2 DEF EpisodesOK
<1>5. Held(job[j]) = Members(job[j].seen) /\ Held(job'[j]) = {}
  BY <1>1, <1>3 DEF Held
<1>6. \A k \in Jobs : EpisodeJob(k)'
  BY <1>1, <1>2 DEF EpisodeJob, InJob
<1>7. PICK id :
        /\ id = <<j, job[j].minted + 1>>
        /\ \A n \in Members(ups) :
             \/ n.id = id /\ n.type = "Observation" /\ "episode" \in n.marks
             \/ "compacted" \in n.marks /\ \E c \in Members(job[j].seen) : n.id = c.id /\ Alike(n, c)
        /\ \A e \in links : e.type = "DERIVED_FROM" /\ e.from = id /\ e.to \in Ids(job[j].seen)
        /\ Ids(ups) = {id} \cup Ids(job[j].seen)
  BY <1>1 DEF Episode
<1>8. id \notin DOMAIN makers /\ (\A n \in Known : n.id # id) /\ \A c \in Held(job[j]) : c.id # id
  BY <1>3, <1>7, MintedId
<1>9. \A n \in Members(job[j].seen) : n.type = "Action" /\ \A e \in Derived : e.to # n.id
  BY <1>3, <1>4 DEF EpisodeJob, InJob
<1>10. \A x \in Ids(job[j].seen) : \E c \in Members(job[j].seen) : c.id = x
  BY DEF Ids, Members
<1>11. /\ edges' = edges \cup links /\ Ids(nodes') = Ids(nodes) \cup Ids(ups)
       /\ \A n \in Members(nodes') : n \in Members(ups) \/ (n \in Members(nodes) /\ n.id \notin Ids(ups))
  BY <1>1 DEF Batched
<1>12. \A e \in Derived' : e \in Derived \/ e \in links
  BY <1>11 DEF Derived
<1>13. JInv' /\ Forward
  BY <1>1, StoredInv
<1>14. Ids(nodes') \subseteq DOMAIN makers' /\ DOMAIN makers \subseteq DOMAIN makers' /\ write' = write
  BY <1>1, <1>13 DEF JInv, IInv, TypeOK, Forward, Stored, OwnStep
<1>15. \A c \in Members(job[j].seen) : \A n \in Known : n.id = c.id => Alike(n, c)
  BY <1>5 DEF JInv, JobsAlike
<1>16. ASSUME NEW n \in Known', n \notin Members(nodes') PROVE n \in Known
  BY <1>14, <1>16 DEF Known
<1>17. ASSUME NEW e \in Derived, e \notin links
       PROVE  /\ e.from \in DOMAIN makers' /\ e.to \in DOMAIN makers'
              /\ \A n \in Known' :
                   (n.id = e.to => n.type = "Action") /\ (n.id = e.from => n.type = "Observation")
              /\ \A n \in Members(nodes') : n.id = e.to => "compacted" \in n.marks
  <2>1. /\ e.from \in DOMAIN makers /\ e.to \in DOMAIN makers
        /\ \A n \in Known \cup Held(job[j]) :
             (n.id = e.to => n.type = "Action") /\ (n.id = e.from => n.type = "Observation")
        /\ \A n \in Members(nodes) : n.id = e.to => "compacted" \in n.marks
    BY <1>2, <1>4 DEF EpisodeNodes
  <2>2. ASSUME NEW n \in Members(nodes')
        PROVE  /\ (n.id = e.to => n.type = "Action") /\ (n.id = e.from => n.type = "Observation")
               /\ (n.id = e.to => "compacted" \in n.marks)
    <3>1. CASE n.id = id
      BY <1>8, <2>1, <3>1
    <3>2. CASE n \in Members(nodes)
      BY <2>1, <3>2 DEF Known
    <3>3. CASE n \in Members(ups) /\ n.id # id
      <4>1. "compacted" \in n.marks /\ \E c \in Members(job[j].seen) : n.id = c.id /\ Alike(n, c)
        BY <1>7, <3>3
      <4>2. PICK c \in Held(job[j]) : n.id = c.id /\ n.type = c.type
        BY <1>5, <4>1 DEF Alike
      <4> QED BY <2>1, <4>1, <4>2
    <3> QED BY <1>11, <3>1, <3>2, <3>3
  <2> QED BY <1>14, <1>16, <2>1, <2>2
<1>18. ASSUME NEW e \in links
       PROVE  /\ e.from \in DOMAIN makers' /\ e.to \in DOMAIN makers'
              /\ \A n \in Known' :
                   (n.id = e.to => n.type = "Action") /\ (n.id = e.from => n.type = "Observation")
              /\ \A n \in Members(nodes') : n.id = e.to => "compacted" \in n.marks
  <2>1. e.from = id /\ e.to \in Ids(ups)
    BY <1>7
  <2>2. PICK c \in Members(job[j].seen) : c.id = e.to
    BY <1>7, <1>10
  <2>3. c.type = "Action" /\ c.id # id
    BY <1>5, <1>8, <1>9
  <2>4. ASSUME NEW n \in Members(nodes')
        PROVE  /\ (n.id = e.to => n.type = "Action") /\ (n.id = e.from => n.type = "Observation")
               /\ (n.id = e.to => "compacted" \in n.marks)
    <3>1. CASE n \in Members(ups) /\ n.id = id /\ n.type = "Observation"
      BY <2>1, <2>2, <2>3, <3>1
    <3>2. CASE n \in Members(ups) /\ "compacted" \in n.marks
               /\ \E d \in Members(job[j].seen) : n.id = d.id /\ Alike(n, d)
      <4>1. PICK d \in Members(job[j].seen) : n.id = d.id /\ n.type = d.type
        BY <3>2 DEF Alike
      <4>2. d.type = "Action" /\ d.id # id
        BY <1>5, <1>8, <1>9, <4>1
      <4> QED BY <2>1, <3>2, <4>1, <4>2
    <3>3. CASE n \in Members(nodes) /\ n.id \notin Ids(ups)
      <4>1. n.id # e.to /\ n.id # id
        BY <1>7, <2>1, <3>3
      <4> QED BY <2>1, <4>1
    <3> QED BY <1>7, <1>11, <3>1, <3>2, <3>3
  <2>5. ASSUME NEW n \in Known
        PROVE  (n.id = e.to => n.type = "Action") /\ (n.id = e.from => n.type = "Observation")
    BY <1>8, <1>15, <2>1, <2>2, <2>3 DEF Alike
  <2>6. e.from \in Ids(nodes') /\ e.to \in Ids(nodes')
    BY <1>7, <1>11, <2>1
  <2> QED BY <1>14, <1>16, <2>4, <2>5, <2>6
<1>19. EpisodeNodes'
  <2>1. AllHeld' = {}
    BY <1>2, <1>5
  <2> QED BY <1>12, <1>17, <1>18, <2>1 DEF EpisodeNodes
<1>20. ASSUME NEW d \in Derived', NEW e \in Derived', d.to = e.to PROVE d.from = e.from
  <2>1. \A x \in Derived, y \in links : x.to # y.to
    BY <1>7, <1>9, <1>10
  <2>2. CASE d \in Derived /\ e \in Derived
    BY <1>4, <1>20, <2>2
  <2>3. CASE d \in links /\ e \in links
    BY <1>7, <2>3
  <2> QED BY <1>12, <1>20, <2>1, <2>2, <2>3
<1> QED BY <1>6, <1>19, <1>20

\* The steps of a job that make no episode keep what it knows of episodes.
LEMMA EpisodeJobs ==
  ASSUME JInv, EpisodesOK, NEW j \in Jobs, Consolidating(j), ~ Compact(j)
  PROVE  /\ Derived' \subseteq Derived \/ ~ Serial
         /\ Serial => EpisodeJob(j)'
<1> SUFFICES ASSUME Serial PROVE Derived' \subseteq Derived /\ EpisodeJob(j)'
  OBVIOUS
<1>1. /\ \A d, e \in Derived : d.to = e.to => d.from = e.from
      /\ EpisodeNodes /\ EpisodeJob(j)
  BY DEF EpisodesOK
<1>2. Reads(j) => Derived' = Derived
  BY DEF Reads, Derived
<1>3. CASE Consolidate(j) \/ ListMembers(j) \/ ListTasks(j) \/ FindSkill(j) \/ ListPreferences(j)
             \/ ListAll(j) \/ JobFails(j)
  <2>1. /\ Reads(j)
        /\ \/ pc'[j] = "done" \/ job'[j].name \in {"concepts", "skills", "contradictions", "decay"}
           \/ job'[j].name = "episodes" /\ job'[j].ready = FALSE
    BY <1>3, ConsolidateReads, ListMembersReads, ListTasksReads, FindSkillReads, ListPreferencesReads, ListAllReads,
       JobFailsReads
  <2> QED BY <1>2, <2>1 DEF EpisodeJob, InJob
<1>4. CASE FormConcept(j) \/ Promote(j) \/ ResolveContradiction(j) \/ Cool(j) \/ Purge(j)
  <2>1. FormConcept(j) \/ Promote(j) => Adds(j) /\ job'[j].name \in {"concepts", "skills"}
    BY FormConceptStored, PromoteStored
  <2>2. ResolveContradiction(j) => Resolved(j) /\ job'[j].name = "contradictions"
    BY ResolveContradictionStored
  <2>3. Cool(j) => edges' = edges /\ job'[j].name = "decay"
    BY CoolStored
  <2>4. Purge(j) => edges' \subseteq edges /\ pc'[j] = "done"
    BY PurgeStored
  <2>5. Derived' \subseteq Derived
    BY <1>4, <2>1, <2>2, <2>3, <2>4 DEF Adds, Resolved, Derived
  <2>6. pc'[j] = "done" \/ job'[j].name \in {"concepts", "skills", "contradictions", "decay"}
    BY <1>4, <2>1, <2>2, <2>3, <2>4
  <2> QED BY <2>5, <2>6 DEF EpisodeJob, InJob
<1>5. CASE FindActions(j)
  <2>1. /\ Reads(j) /\ job'[j].name = "episodes"
        /\ job'[j].ready =>
             \A n \in Members(job'[j].seen) :
               n \in Members(nodes) /\ n.type = "Action" /\ "compacted" \notin n.marks
    BY <1>5, FindActionsReads
  <2>2. ASSUME job'[j].ready, NEW n \in Members(job'[j].seen)
        PROVE  n.type = "Action" /\ \A e \in Derived' : e.to # n.id
    BY <1>1, <1>2, <2>1, <2>2 DEF EpisodeNodes
  <2> QED BY <1>2, <2>1, <2>2 DEF EpisodeJob, InJob
<1>6. CASE ListEntities(j)
  <2>1. /\ Reads(j) /\ job'[j].name = "entities" /\ job'[j].ready = FALSE
        /\ \A m \in Members(job'[j].work) :
             \E n \in Members(nodes) : n.id = m.duplicate /\ n.type = "Entity"
    BY <1>6, ListEntitiesReads
  <2>2. ASSUME NEW m \in Members(job'[j].work), NEW e \in Derived' PROVE m.duplicate \notin {e.from, e.to}
    <3>1. PICK n \in Members(nodes) : n.id = m.duplicate /\ n.type = "Entity"
      BY <2>1
    <3>2. n \in Known /\ e \in Derived
      BY <1>2, <2>1 DEF Known
    <3> QED BY <1>1, <3>1, <3>2 DEF EpisodeNodes
  <2> QED BY <1>2, <2>1, <2>2 DEF EpisodeJob, InJob
<1>7. CASE FindIncident(j)
  <2>1. /\ Reads(j) /\ job'[j].name = "entities" /\ job'[j].work = job[j].work
        /\ job'[j].seen = Neighbors(Head(job[j].work).duplicate)
    BY <1>7, FindIncidentReads
  <2>2. InJob(j, "entities") /\ job[j].work # <<>>
    BY <1>7 DEF FindIncident, HasWork
  <2>3. \A m \in Members(job[j].work) : \A e \in Derived : m.duplicate \notin {e.from, e.to}
    BY <1>1, <2>2 DEF EpisodeJob
  <2>4. job[j].work \in Seq(Merging)
    BY <2>2, BusyRecord DEF InJob, RecordOK
  <2>5. Head(job[j].work) \in Members(job[j].work)
    BY <2>2, <2>4, TailMembers
  <2>6. \A e \in job'[j].seen : e.type # "DERIVED_FROM"
    BY <2>1, <2>3, <2>5 DEF Neighbors, Derived
  <2> QED BY <1>2, <2>1, <2>3, <2>6 DEF EpisodeJob, InJob
<1>8. CASE Merge(j)
  <2>1. /\ Merged(j, Head(job[j].work).duplicate)
        /\ job'[j].name = "entities" /\ job'[j].work = Tail(job[j].work) /\ job'[j].ready = FALSE
    BY <1>8, MergeStored
  <2>2. InJob(j, "entities") /\ job[j].work # <<>> /\ job[j].ready
    BY <1>8 DEF Merge, HasWork
  <2>3. /\ \A m \in Members(job[j].work) : \A e \in Derived : m.duplicate \notin {e.from, e.to}
        /\ \A e \in job[j].seen : e.type # "DERIVED_FROM"
    BY <1>1, <2>2 DEF EpisodeJob
  <2>4. job[j].work \in Seq(Merging)
    BY <2>2, BusyRecord DEF InJob, RecordOK
  <2>5. Members(Tail(job[j].work)) \subseteq Members(job[j].work)
    BY <2>2, <2>4, TailMembers
  <2>6. Derived' \subseteq Derived
    BY <2>1, <2>3 DEF Merged, Derived
  <2> QED BY <2>1, <2>3, <2>5, <2>6 DEF EpisodeJob, InJob
<1> QED BY <1>3, <1>4, <1>5, <1>6, <1>7, <1>8 DEF Consolidating

LEMMA EpisodesInv ==
  ASSUME JInv, EpisodesOK, [NextAll]_allVars
  PROVE  EpisodesOK'
<1>1. CASE [Next]_vars /\ UNCHANGED job
  BY <1>1, EpisodesOthers
<1>2. ASSUME NEW j \in Jobs, Consolidating(j) PROVE EpisodesOK'
  <2>1. CASE Compact(j)
    BY <2>1, EpisodesCompact
  <2>2. CASE ~ Compact(j)
    <3>1. CASE ~ Serial
      <4>1. Forward
        BY <1>2, JobInv
      <4> QED BY <3>1, <4>1, SerialBefore DEF EpisodesOK
    <3>2. CASE Serial
      BY <1>2, <2>2, <3>2, EpisodeJobs, EpisodesStay, JobSteps
    <3> QED BY <3>1, <3>2
  <2> QED BY <2>1, <2>2
<1> QED BY <1>1, <1>2 DEF NextAll, allVars

LEMMA EpisodesInvariance == SpecAll => [](JInv /\ EpisodesOK)
<1>1. InitAll => JInv /\ EpisodesOK
  <2> SUFFICES ASSUME InitAll PROVE JInv /\ EpisodesOK
    OBVIOUS
  <2>1. JInv /\ Derived = {} /\ \A j \in Jobs : pc[j] # "busy"
    BY InitJobs DEF InitAll, Init, Flows, Derived
  <2> QED BY <2>1 DEF EpisodesOK, EpisodeNodes, EpisodeJob, InJob
<1>2. JInv /\ EpisodesOK /\ [NextAll]_allVars => JInv' /\ EpisodesOK'
  BY NextAllInv, EpisodesInv
<1> QED BY <1>1, <1>2, PTL DEF SpecAll

\* While consolidations are run one at a time, none of them derives an action into a
\* second episode, whatever is written and forgotten meanwhile.
THEOREM EpisodesAreOnce == SpecAll => []OneEpisodePerAction
<1>1. EpisodesOK => OneEpisodePerAction
  BY DEF EpisodesOK, OneEpisodePerAction, Serial, Derived
<1> QED BY <1>1, EpisodesInvariance, PTL

==============================================================================
