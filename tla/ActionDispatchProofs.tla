------------------------- MODULE ActionDispatchProofs -------------------------
(***************************************************************************)
(* Proofs about ActionDispatch, for every number of requests, keys, pages, *)
(* failures and restarts and every limit: its types, that the popup is     *)
(* told the truth, what cancellations, keys and confirmations promise, and *)
(* that the queue and its processor implement Executor.                    *)
(***************************************************************************)
EXTENDS ActionDispatch, WellFoundedInduction, TLAPS
LOCAL INSTANCE SequenceTheorems

-----------------------------------------------------------------------------
(* Induction                                                               *)

\* A relation in which every smaller number comes before a larger one has no infinite descent.
LEMMA NatOrder == \E R : IsWellFoundedOn(R, Nat) /\ \A m, n \in Nat : m < n => <<m, n>> \in R
<1> DEFINE R == OpToRel(<, Nat)
<1>1. IsWellFoundedOn(R, Nat)
  BY NatLessThanWellFounded
<1>2. \A m, n \in Nat : m < n => <<m, n>> \in R
  BY DEF OpToRel
<1> HIDE DEF R
<1> QED BY <1>1, <1>2

LEMMA Least ==
  ASSUME NEW T, T \subseteq Nat, T # {}
  PROVE  \E x \in T : \A y \in T : x <= y
<1>1. PICK R : IsWellFoundedOn(R, Nat) /\ \A m, n \in Nat : m < n => <<m, n>> \in R
  BY NatOrder
<1>2. PICK x \in T : \A y \in T : ~ (<<y, x>> \in R)
  <2>1. IsWellFoundedOn(R, Nat) /\ T \subseteq Nat /\ T # {}
    BY <1>1
  <2> QED BY <2>1, WFMin
<1>3. ASSUME NEW y \in T PROVE x <= y
  <2>1. x \in Nat /\ y \in Nat /\ ~ (y < x)
    BY <1>1, <1>2
  <2> QED BY <2>1
<1> QED BY <1>3

\* Induction over a set of numbers.
LEMMA SetInduction ==
  ASSUME NEW S, 0 \in S, \A n \in Nat : n \in S => n + 1 \in S
  PROVE  Nat \subseteq S
<1> SUFFICES ASSUME NEW T, T = Nat \ S, T # {} PROVE FALSE
  OBVIOUS
<1>1. PICK x \in T : \A y \in T : x <= y
  <2>1. T \subseteq Nat
    OBVIOUS
  <2> QED BY <2>1, Least
<1>2. x \in Nat /\ x # 0
  OBVIOUS
<1>3. x - 1 \in Nat /\ (x - 1) + 1 = x /\ ~ (x <= x - 1)
  BY <1>2
<1>4. x - 1 \in T
  BY <1>2, <1>3
<1> QED BY <1>1, <1>3, <1>4

-----------------------------------------------------------------------------
(* Filter                                                                  *)

\* The first n steps of a filter, one function.
Filters(q, places, f, n) ==
  /\ f[0] = <<>>
  /\ \A i \in 1 .. n : f[i] = IF i \in places THEN Append(f[i - 1], q[i]) ELSE f[i - 1]

LEMMA FiltersExists ==
  ASSUME NEW S, NEW q \in Seq(S), NEW places
  PROVE  \E f \in [0 .. Len(q) -> Seq(S)] : Filters(q, places, f, Len(q))
<1> DEFINE N == {n \in Nat : n <= Len(q) => \E f \in [0 .. n -> Seq(S)] : Filters(q, places, f, n)}
<1>1. Len(q) \in Nat /\ \A i \in 1 .. Len(q) : q[i] \in S
  OBVIOUS
<1>2. 0 \in N
  <2> DEFINE f == [i \in 0 .. 0 |-> <<>>]
  <2>1. f \in [0 .. 0 -> Seq(S)] /\ Filters(q, places, f, 0)
    BY DEF Filters
  <2> HIDE DEF f
  <2> QED BY <2>1
<1>3. ASSUME NEW n \in Nat, n \in N PROVE n + 1 \in N
  <2> SUFFICES ASSUME n + 1 <= Len(q)
               PROVE  \E f \in [0 .. n + 1 -> Seq(S)] : Filters(q, places, f, n + 1)
    OBVIOUS
  <2>1. PICK f \in [0 .. n -> Seq(S)] : Filters(q, places, f, n)
    BY <1>1, <1>3
  <2> DEFINE x == IF n + 1 \in places THEN Append(f[n], q[n + 1]) ELSE f[n]
             g == [i \in 0 .. n + 1 |-> IF i = n + 1 THEN x ELSE f[i]]
  <2>2. x \in Seq(S)
    BY <1>1
  <2>3. \A i \in 0 .. n : g[i] = f[i]
    OBVIOUS
  <2>4. g[n + 1] = x
    OBVIOUS
  <2>5. g \in [0 .. n + 1 -> Seq(S)]
    BY <2>2
  <2> HIDE DEF g
  <2>6. Filters(q, places, g, n + 1)
    <3>1. \A i \in 1 .. n + 1 : i \in 1 .. n \/ i = n + 1
      OBVIOUS
    <3>2. g[0] = <<>>
      BY <2>1, <2>3 DEF Filters
    <3>3. ASSUME NEW i \in 1 .. n
          PROVE  g[i] = IF i \in places THEN Append(g[i - 1], q[i]) ELSE g[i - 1]
      BY SMTT(30), <2>1, <2>3 DEF Filters
    <3>4. g[n + 1] = IF n + 1 \in places THEN Append(g[n], q[n + 1]) ELSE g[n]
      BY <2>3, <2>4
    <3> QED BY <3>1, <3>2, <3>3, <3>4 DEF Filters
  <2> QED BY <2>5, <2>6
<1> HIDE DEF N
<1>4. Len(q) \in N
  BY <1>1, <1>2, <1>3, SetInduction
<1> QED BY <1>1, <1>4 DEF N

\* The recursive function of Filter's definition meets its equation.
LEMMA FilterDef ==
  ASSUME NEW S, NEW q \in Seq(S), NEW places
  PROVE  \E f : Filters(q, places, f, Len(q)) /\ Filter(q, places) = f[Len(q)]
<1> DEFINE D(kept) == [i \in 0 .. Len(q) |->
                         IF i = 0 THEN <<>>
                         ELSE IF i \in places THEN Append(kept[i - 1], q[i]) ELSE kept[i - 1]]
           f == CHOOSE kept : kept = D(kept)
<1>1. PICK g \in [0 .. Len(q) -> Seq(S)] : Filters(q, places, g, Len(q))
  BY FiltersExists
<1>2. Len(q) \in Nat
  OBVIOUS
<1>3. g = D(g)
  <2>1. ASSUME NEW i \in 0 .. Len(q) PROVE g[i] = D(g)[i]
    <3>1. CASE i = 0
      BY <1>1, <1>2, <3>1 DEF Filters
    <3>2. CASE i \in 1 .. Len(q)
      BY <1>1, <1>2, <3>2 DEF Filters
    <3> QED BY <1>2, <3>1, <3>2
  <2> QED BY <2>1
<1>4. f = D(f)
  <2> HIDE DEF D
  <2> QED BY <1>3
<1>5. Filters(q, places, f, Len(q))
  <2>1. f[0] = <<>>
    <3>1. 0 \in 0 .. Len(q)
      BY <1>2
    <3>2. f[0] = D(f)[0]
      BY Zenon, <1>4
    <3> HIDE DEF f
    <3> QED BY <3>1, <3>2
  <2>2. ASSUME NEW i \in 1 .. Len(q)
        PROVE  f[i] = IF i \in places THEN Append(f[i - 1], q[i]) ELSE f[i - 1]
    <3>1. i \in 0 .. Len(q) /\ i # 0
      BY <1>2
    <3>2. f[i] = D(f)[i]
      BY Zenon, <1>4
    <3> HIDE DEF f
    <3> QED BY <3>1, <3>2
  <2> HIDE DEF f
  <2> QED BY <2>1, <2>2 DEF Filters
<1>6. Filter(q, places) = f[Len(q)]
  BY DEF Filter
<1> HIDE DEF f
<1> QED BY <1>5, <1>6

\* t is what stands at places of the first n of q: pos says where it stood.
Picks(q, places, n, t, pos) ==
  /\ pos \in [1 .. Len(t) -> 1 .. n]
  /\ \A i \in 1 .. Len(t) : pos[i] \in places /\ t[i] = q[pos[i]]
  /\ \A i, j \in 1 .. Len(t) : i < j => pos[i] < pos[j]
  /\ \A k \in 1 .. n : k \in places => \E i \in 1 .. Len(t) : pos[i] = k

LEMMA FilterMeans ==
  ASSUME NEW S, NEW q \in Seq(S), NEW places
  PROVE  Filter(q, places) \in Seq(S)
         /\ \E pos : Picks(q, places, Len(q), Filter(q, places), pos)
<1>1. PICK f : Filters(q, places, f, Len(q)) /\ Filter(q, places) = f[Len(q)]
  BY FilterDef
<1>2. Len(q) \in Nat /\ \A i \in 1 .. Len(q) : q[i] \in S
  OBVIOUS
<1> DEFINE N == {n \in Nat : n <= Len(q) =>
                   f[n] \in Seq(S) /\ \E pos : Picks(q, places, n, f[n], pos)}
<1>3. 0 \in N
  <2>1. f[0] = <<>>
    BY <1>1 DEF Filters
  <2>2. <<>> \in Seq(S) /\ Len(<<>>) = 0
    OBVIOUS
  <2> DEFINE pos == [i \in 1 .. 0 |-> 0]
  <2>3. Picks(q, places, 0, <<>>, pos)
    BY DEF Picks
  <2> HIDE DEF pos
  <2> QED BY <2>1, <2>2, <2>3
<1>4. ASSUME NEW n \in Nat, n \in N PROVE n + 1 \in N
  <2> SUFFICES ASSUME n + 1 <= Len(q)
               PROVE  f[n + 1] \in Seq(S) /\ \E pos : Picks(q, places, n + 1, f[n + 1], pos)
    OBVIOUS
  <2> DEFINE t == f[n]
  <2>1. t \in Seq(S) /\ Len(t) \in Nat
    BY <1>2, <1>4
  <2>2. PICK pos : Picks(q, places, n, t, pos)
    BY <1>2, <1>4
  <2>3. n + 1 \in 1 .. Len(q) /\ q[n + 1] \in S
    BY <1>2
  <2>4. f[n + 1] = IF n + 1 \in places THEN Append(t, q[n + 1]) ELSE t
    BY <1>1, <2>3 DEF Filters
  <2> HIDE DEF t
  <2>5. CASE n + 1 \notin places
    <3>1. Picks(q, places, n + 1, t, pos)
      BY SMTT(30), <2>1, <2>2, <2>5 DEF Picks
    <3> QED BY <2>1, <2>4, <2>5, <3>1
  <2>6. CASE n + 1 \in places
    <3> DEFINE u == Append(t, q[n + 1])
               p == [i \in 1 .. Len(t) + 1 |-> IF i = Len(t) + 1 THEN n + 1 ELSE pos[i]]
    <3>1. /\ u \in Seq(S) /\ Len(u) = Len(t) + 1 /\ u[Len(t) + 1] = q[n + 1]
          /\ \A i \in 1 .. Len(t) : u[i] = t[i]
      BY <2>1, <2>3, AppendProperties
    <3>2. \A i \in 1 .. Len(t) : p[i] = pos[i] /\ pos[i] \in 1 .. n
      BY SMTT(30), <2>1, <2>2 DEF Picks
    <3>3. p[Len(t) + 1] = n + 1
      BY <2>1
    <3>4. p \in [1 .. Len(t) + 1 -> 1 .. n + 1]
      <4>1. \A i \in 1 .. Len(t) + 1 : i # Len(t) + 1 => pos[i] \in 1 .. n
        BY <2>1, <2>2 DEF Picks
      <4>2. \A i \in 1 .. Len(t) + 1 : (IF i = Len(t) + 1 THEN n + 1 ELSE pos[i]) \in 1 .. n + 1
        BY <2>1, <4>1
      <4> QED BY <4>2
    <3> HIDE DEF u, p
    <3>5. \A i \in 1 .. Len(t) + 1 : i \in 1 .. Len(t) \/ i = Len(t) + 1
      BY <2>1
    <3>6. \A i \in 1 .. Len(u) : p[i] \in places /\ u[i] = q[p[i]]
      BY <2>2, <2>6, <3>1, <3>2, <3>3, <3>5 DEF Picks
    <3>7. \A i, j \in 1 .. Len(u) : i < j => p[i] < p[j]
      <4> SUFFICES ASSUME NEW i \in 1 .. Len(u), NEW j \in 1 .. Len(u), i < j
                   PROVE  p[i] < p[j]
        OBVIOUS
      <4>1. i \in 1 .. Len(t)
        BY <2>1, <3>1
      <4>2. CASE j \in 1 .. Len(t)
        BY <2>2, <3>2, <4>1, <4>2 DEF Picks
      <4>3. CASE j = Len(t) + 1
        BY <3>2, <3>3, <4>1, <4>3
      <4> QED BY <3>1, <3>5, <4>2, <4>3
    <3>8. ASSUME NEW k \in 1 .. n + 1, k \in places
          PROVE  \E i \in 1 .. Len(u) : p[i] = k
      <4>1. CASE k = n + 1
        BY <2>1, <3>1, <3>3, <4>1
      <4>2. CASE k \in 1 .. n
        <5>1. PICK i \in 1 .. Len(t) : pos[i] = k
          BY <2>2, <3>8, <4>2 DEF Picks
        <5> QED BY <2>1, <3>1, <3>2, <5>1
      <4> QED BY <4>1, <4>2
    <3>9. Picks(q, places, n + 1, u, p)
      BY <3>1, <3>4, <3>6, <3>7, <3>8 DEF Picks
    <3>10. f[n + 1] = u
      BY <2>4, <2>6 DEF u
    <3> QED BY <3>1, <3>9, <3>10
  <2> QED BY <2>5, <2>6
<1> HIDE DEF N
<1>5. Len(q) \in N
  BY <1>2, <1>3, <1>4, SetInduction
<1> QED BY <1>1, <1>2, <1>5 DEF N

-----------------------------------------------------------------------------
(* The types                                                               *)

Item == [request: Executes, queuedAt: Nat]
Maps(S, T) == UNION {[D -> T] : D \in SUBSET S}

Runtime ==
  [queue: Seq(Item), processing: BOOLEAN, sending: Executes \cup {None},
   executed: Maps(Keys, Nat), cancelled: Maps(Keys, Nat),
   pending: Maps(Executes \cup Snapshots, Nat), inFlight: Maps(Executes, Keys),
   reply: [Requests -> Answers]]

\* A request is queued once.
Distinct(q) == \A i, j \in DOMAIN q : q[i].request = q[j].request => i = j

LEMMA MapsMean ==
  ASSUME NEW S, NEW T, NEW f
  PROVE  f \in Maps(S, T)
           <=> f = [k \in DOMAIN f |-> f[k]] /\ DOMAIN f \subseteq S /\ \A k \in DOMAIN f : f[k] \in T
<1>1. ASSUME f \in Maps(S, T)
      PROVE  f = [k \in DOMAIN f |-> f[k]] /\ DOMAIN f \subseteq S /\ \A k \in DOMAIN f : f[k] \in T
  <2>1. PICK D \in SUBSET S : f \in [D -> T]
    BY <1>1 DEF Maps
  <2> QED BY <2>1
<1>2. ASSUME f = [k \in DOMAIN f |-> f[k]], DOMAIN f \subseteq S, \A k \in DOMAIN f : f[k] \in T
      PROVE  f \in Maps(S, T)
  <2>1. f \in [DOMAIN f -> T]
    BY <1>2
  <2> QED BY <1>2, <2>1 DEF Maps
<1> QED BY <1>1, <1>2

LEMMA PutMeans ==
  ASSUME NEW S, NEW T, NEW f \in Maps(S, T), NEW key \in S, NEW value \in T
  PROVE  /\ Put(f, key, value) \in Maps(S, T)
         /\ DOMAIN Put(f, key, value) = DOMAIN f \cup {key}
         /\ Put(f, key, value)[key] = value
         /\ \A k \in DOMAIN f : k # key => Put(f, key, value)[k] = f[k]
<1> DEFINE g == Put(f, key, value)
<1>1. /\ g = [k \in DOMAIN g |-> g[k]] /\ DOMAIN g = DOMAIN f \cup {key} /\ g[key] = value
      /\ \A k \in DOMAIN f : k # key => g[k] = f[k]
  BY DEF Put
<1> HIDE DEF g
<1>2. DOMAIN f \subseteq S /\ \A k \in DOMAIN f : f[k] \in T
  BY MapsMean
<1>3. g \in Maps(S, T)
  BY <1>1, <1>2, MapsMean
<1> QED BY <1>1, <1>3 DEF g

LEMMA WithoutMeans ==
  ASSUME NEW S, NEW T, NEW f \in Maps(S, T), NEW keys
  PROVE  /\ Without(f, keys) \in Maps(S, T)
         /\ DOMAIN Without(f, keys) = DOMAIN f \ keys
         /\ \A k \in DOMAIN f \ keys : Without(f, keys)[k] = f[k]
<1> DEFINE g == Without(f, keys)
<1>1. /\ g = [k \in DOMAIN g |-> g[k]] /\ DOMAIN g = DOMAIN f \ keys
      /\ \A k \in DOMAIN f \ keys : g[k] = f[k]
  BY DEF Without
<1> HIDE DEF g
<1>2. DOMAIN f \subseteq S /\ \A k \in DOMAIN f : f[k] \in T
  BY MapsMean
<1>3. g \in Maps(S, T)
  BY <1>1, <1>2, MapsMean
<1> QED BY <1>1, <1>3 DEF g

LEMMA EmptyMap == ASSUME NEW S, NEW T PROVE <<>> \in Maps(S, T) /\ DOMAIN <<>> = {}
<1>1. <<>> = [k \in DOMAIN <<>> |-> <<>>[k]] /\ DOMAIN <<>> = {}
  OBVIOUS
<1> QED BY <1>1, MapsMean

-----------------------------------------------------------------------------
(* The queue                                                               *)

LEMMA ItemsMean ==
  ASSUME NEW q \in Seq(Item), NEW x
  PROVE  x \in Items(q) <=> \E i \in 1 .. Len(q) : q[i].request = x
BY DEF Items

LEMMA FilterItems ==
  ASSUME NEW q \in Seq(Item), Distinct(q), NEW places, places \subseteq DOMAIN q
  PROVE  /\ Filter(q, places) \in Seq(Item) /\ Distinct(Filter(q, places))
         /\ Items(Filter(q, places)) = {q[i].request : i \in places}
<1> DEFINE t == Filter(q, places)
<1>1. t \in Seq(Item) /\ \E pos : Picks(q, places, Len(q), t, pos)
  BY FilterMeans
<1> HIDE DEF t
<1>2. Len(t) \in Nat /\ DOMAIN t = 1 .. Len(t) /\ Len(q) \in Nat /\ DOMAIN q = 1 .. Len(q)
  BY <1>1, LenProperties
<1>3. PICK pos : Picks(q, places, Len(q), t, pos)
  BY <1>1
<1>4. \A i \in 1 .. Len(t) : pos[i] \in 1 .. Len(q) /\ pos[i] \in places /\ t[i] = q[pos[i]]
  BY <1>3 DEF Picks
<1>5. Distinct(t)
  <2> SUFFICES ASSUME NEW i \in 1 .. Len(t), NEW j \in 1 .. Len(t), t[i].request = t[j].request
               PROVE  i = j
    BY <1>2 DEF Distinct
  <2>1. pos[i] = pos[j]
    BY <1>2, <1>4 DEF Distinct
  <2>2. ~ (i < j) /\ ~ (j < i)
    BY <1>3, <1>4, <2>1 DEF Picks
  <2> QED BY <2>2
<1>6. Items(t) = {q[i].request : i \in places}
  <2>1. ASSUME NEW i \in 1 .. Len(t) PROVE t[i].request \in {q[k].request : k \in places}
    BY <1>4
  <2>2. ASSUME NEW k \in places PROVE \E i \in 1 .. Len(t) : t[i].request = q[k].request
    <3>1. PICK i \in 1 .. Len(t) : pos[i] = k
      BY <1>2, <1>3 DEF Picks
    <3> QED BY <1>4, <3>1
  <2> QED BY <1>2, <2>1, <2>2 DEF Items
<1> QED BY <1>1, <1>5, <1>6 DEF t

LEMMA AppendItem ==
  ASSUME NEW q \in Seq(Item), Distinct(q), NEW item \in Item, item.request \notin Items(q)
  PROVE  /\ Append(q, item) \in Seq(Item) /\ Distinct(Append(q, item))
         /\ Items(Append(q, item)) = Items(q) \cup {item.request}
<1> DEFINE t == Append(q, item)
<1>1. /\ t \in Seq(Item) /\ Len(t) = Len(q) + 1 /\ t[Len(q) + 1] = item
      /\ \A i \in 1 .. Len(q) : t[i] = q[i]
      /\ DOMAIN t = 1 .. Len(t) /\ DOMAIN q = 1 .. Len(q) /\ Len(q) \in Nat
  BY AppendProperties, LenProperties
<1> HIDE DEF t
<1>2. \A i \in 1 .. Len(t) : i \in 1 .. Len(q) \/ i = Len(q) + 1
  BY <1>1
<1>3. \A i \in 1 .. Len(q) : q[i].request # item.request
  BY <1>1 DEF Items
<1>4. Distinct(t)
  BY <1>1, <1>2, <1>3 DEF Distinct
<1>5. Items(t) = Items(q) \cup {item.request}
  BY <1>1, <1>2 DEF Items
<1> QED BY <1>1, <1>4, <1>5 DEF t

LEMMA TailItems ==
  ASSUME NEW q \in Seq(Item), Distinct(q), q # <<>>
  PROVE  /\ Tail(q) \in Seq(Item) /\ Distinct(Tail(q)) /\ Head(q) \in Item
         /\ Items(Tail(q)) = Items(q) \ {Head(q).request} /\ Head(q).request \in Items(q)
<1> DEFINE t == Tail(q)
           h == Head(q)
<1>1. /\ t \in Seq(Item) /\ Len(t) = Len(q) - 1 /\ h \in Item /\ h = q[1]
      /\ \A i \in 1 .. Len(t) : t[i] = q[i + 1]
      /\ DOMAIN t = 1 .. Len(t) /\ DOMAIN q = 1 .. Len(q) /\ Len(q) \in Nat \ {0}
  BY HeadTailProperties, LenProperties
<1> HIDE DEF t, h
<1>2. Distinct(t)
  <2> SUFFICES ASSUME NEW i \in 1 .. Len(t), NEW j \in 1 .. Len(t), t[i].request = t[j].request
               PROVE  i = j
    BY <1>1 DEF Distinct
  <2>1. i + 1 \in DOMAIN q /\ j + 1 \in DOMAIN q /\ q[i + 1].request = q[j + 1].request
    BY <1>1
  <2>2. i + 1 = j + 1
    BY <2>1 DEF Distinct
  <2> QED BY <1>1, <2>2
<1>3. Items(t) = Items(q) \ {h.request}
  <2>1. ASSUME NEW i \in 1 .. Len(t) PROVE t[i].request \in Items(q) \ {h.request}
    <3>1. i + 1 \in DOMAIN q /\ i + 1 # 1 /\ 1 \in DOMAIN q
      BY <1>1
    <3>2. q[i + 1].request # q[1].request
      BY <3>1 DEF Distinct
    <3> QED BY <1>1, <3>1, <3>2 DEF Items
  <2>2. ASSUME NEW k \in 1 .. Len(q), q[k].request # h.request
        PROVE  \E i \in 1 .. Len(t) : t[i].request = q[k].request
    <3>1. k - 1 \in 1 .. Len(t) /\ (k - 1) + 1 = k
      BY <1>1, <2>2
    <3> QED BY <1>1, <3>1
  <2>3. \A x \in Items(t) : x \in Items(q) \ {h.request}
    BY <1>1, <2>1 DEF Items
  <2>4. ASSUME NEW x \in Items(q), x # h.request PROVE x \in Items(t)
    <3>1. PICK k \in 1 .. Len(q) : x = q[k].request
      BY <1>1 DEF Items
    <3> QED BY <1>1, <2>2, <2>4, <3>1 DEF Items
  <2> QED BY <2>3, <2>4
<1>4. h.request \in Items(q)
  BY <1>1 DEF Items
<1> QED BY <1>1, <1>2, <1>3, <1>4 DEF t, h

\* What comes after the n-th of a queue.
LEMMA RestItems ==
  ASSUME NEW q \in Seq(Item), Distinct(q), NEW n \in 1 .. Len(q)
  PROVE  LET t == SubSeq(q, n + 1, Len(q))
         IN  /\ t \in Seq(Item) /\ Distinct(t)
             /\ Items(t) = Items(q) \ {q[i].request : i \in 1 .. n}
<1> DEFINE t == SubSeq(q, n + 1, Len(q))
<1>1. /\ Len(q) \in Nat /\ DOMAIN q = 1 .. Len(q)
      /\ \A i \in 1 .. Len(q) : q[i] \in Item
  BY LenProperties
<1>2. n + 1 \in Int /\ Len(q) \in Int /\ \A i \in n + 1 .. Len(q) : q[i] \in Item
  BY <1>1
<1>3. /\ t \in Seq(Item) /\ Len(t) = IF n + 1 <= Len(q) THEN Len(q) - (n + 1) + 1 ELSE 0
      /\ \A i \in 1 .. Len(q) - (n + 1) + 1 : t[i] = q[n + 1 + i - 1]
  BY <1>2, SubSeqProperties
<1> HIDE DEF t
<1>4. Len(t) = Len(q) - n /\ DOMAIN t = 1 .. Len(t) /\ \A i \in 1 .. Len(t) : t[i] = q[n + i]
  <2>1. Len(t) = Len(q) - n
    <3>1. CASE n + 1 <= Len(q)
      BY <1>1, <1>3, <3>1
    <3>2. CASE n = Len(q)
      <4>1. ~ (n + 1 <= Len(q))
        BY <1>1, <3>2
      <4>2. Len(t) = 0
        BY <1>3, <4>1
      <4> QED BY <1>1, <3>2, <4>2
    <3>3. n + 1 <= Len(q) \/ n = Len(q)
      <4>1. Len(q) \in Nat /\ n \in Nat /\ n <= Len(q)
        BY <1>1
      <4> QED BY <4>1
    <3> QED BY <3>1, <3>2, <3>3
  <2>2. DOMAIN t = 1 .. Len(t)
    BY <1>3, LenProperties
  <2>3. ASSUME NEW i \in 1 .. Len(t) PROVE t[i] = q[n + i]
    <3>1. i \in 1 .. Len(q) - (n + 1) + 1 /\ n + 1 + i - 1 = n + i
      BY <1>1, <2>1
    <3> QED BY <1>3, <3>1
  <2> QED BY <2>1, <2>2, <2>3
<1>5. Distinct(t)
  <2> SUFFICES ASSUME NEW i \in 1 .. Len(t), NEW j \in 1 .. Len(t), t[i].request = t[j].request
               PROVE  i = j
    BY <1>4 DEF Distinct
  <2>1. n + i \in DOMAIN q /\ n + j \in DOMAIN q /\ q[n + i].request = q[n + j].request
    BY <1>1, <1>4
  <2>2. n + i = n + j
    BY <2>1 DEF Distinct
  <2> QED BY <1>1, <2>2
<1>6. Items(t) = Items(q) \ {q[i].request : i \in 1 .. n}
  <2>1. ASSUME NEW i \in 1 .. Len(t)
        PROVE  t[i].request \in Items(q) \ {q[k].request : k \in 1 .. n}
    <3>1. n + i \in DOMAIN q /\ \A k \in 1 .. n : k \in DOMAIN q /\ k # n + i
      BY <1>1, <1>4
    <3>2. \A k \in 1 .. n : q[k].request # q[n + i].request
      BY <3>1 DEF Distinct
    <3> QED BY <1>4, <3>1, <3>2 DEF Items
  <2>2. ASSUME NEW k \in 1 .. Len(q), q[k].request \notin {q[i].request : i \in 1 .. n}
        PROVE  \E i \in 1 .. Len(t) : t[i].request = q[k].request
    <3>1. k - n \in 1 .. Len(t) /\ n + (k - n) = k
      BY <1>1, <1>4, <2>2
    <3> QED BY <1>4, <3>1
  <2>3. \A x \in Items(t) : x \in Items(q) \ {q[i].request : i \in 1 .. n}
    BY <1>4, <2>1 DEF Items
  <2>4. ASSUME NEW x \in Items(q), x \notin {q[i].request : i \in 1 .. n} PROVE x \in Items(t)
    <3>1. PICK k \in 1 .. Len(q) : x = q[k].request
      BY <1>1 DEF Items
    <3> QED BY <1>4, <2>2, <2>4, <3>1 DEF Items
  <2> QED BY <2>3, <2>4
<1> QED BY <1>3, <1>5, <1>6 DEF t

LEMMA ConsItems ==
  ASSUME NEW q \in Seq(Item), Distinct(q), NEW item \in Item, item.request \notin Items(q)
  PROVE  LET t == <<item>> \o q
         IN  /\ t \in Seq(Item) /\ Distinct(t) /\ Items(t) = Items(q) \cup {item.request}
             /\ Len(t) = Len(q) + 1 /\ t[1] = item
<1> DEFINE u == <<item>>
           t == u \o q
<1>1. u \in Seq(Item) /\ Len(u) = 1 /\ u[1] = item
  OBVIOUS
<1> HIDE DEF u
<1>2. /\ t \in Seq(Item) /\ Len(t) = Len(u) + Len(q)
      /\ \A i \in 1 .. Len(u) + Len(q) : t[i] = IF i <= Len(u) THEN u[i] ELSE q[i - Len(u)]
  BY <1>1, ConcatProperties
<1> HIDE DEF t
<1>3. /\ Len(t) = Len(q) + 1 /\ t[1] = item /\ \A i \in 1 .. Len(q) : t[1 + i] = q[i]
      /\ DOMAIN t = 1 .. Len(t) /\ DOMAIN q = 1 .. Len(q) /\ Len(q) \in Nat
  <2>1. DOMAIN t = 1 .. Len(t) /\ DOMAIN q = 1 .. Len(q) /\ Len(q) \in Nat
    BY <1>2, LenProperties
  <2>2. Len(t) = Len(q) + 1 /\ t[1] = item
    BY <1>1, <1>2, <2>1
  <2>3. ASSUME NEW i \in 1 .. Len(q) PROVE t[1 + i] = q[i]
    <3>1. 1 + i \in 1 .. Len(u) + Len(q) /\ ~ (1 + i <= Len(u)) /\ (1 + i) - Len(u) = i
      BY <1>1, <2>1
    <3> QED BY <1>2, <3>1
  <2> QED BY <2>1, <2>2, <2>3
<1>4. \A i \in 1 .. Len(t) : i = 1 \/ \E j \in 1 .. Len(q) : i = 1 + j
  <2> SUFFICES ASSUME NEW i \in 1 .. Len(t), i # 1 PROVE \E j \in 1 .. Len(q) : i = 1 + j
    OBVIOUS
  <2>1. i - 1 \in 1 .. Len(q) /\ i = 1 + (i - 1)
    BY <1>3
  <2> QED BY <2>1
<1>5. \A j \in 1 .. Len(q) : q[j].request # item.request
  BY <1>3 DEF Items
<1>6. Distinct(t)
  <2> SUFFICES ASSUME NEW i \in 1 .. Len(t), NEW j \in 1 .. Len(t), t[i].request = t[j].request
               PROVE  i = j
    BY <1>3 DEF Distinct
  <2>1. CASE i = 1
    BY <1>3, <1>4, <1>5, <2>1
  <2>2. CASE j = 1
    BY <1>3, <1>4, <1>5, <2>2
  <2>3. CASE i # 1 /\ j # 1
    <3>1. PICK a \in 1 .. Len(q) : i = 1 + a
      BY <1>4, <2>3
    <3>2. PICK b \in 1 .. Len(q) : j = 1 + b
      BY <1>4, <2>3
    <3>3. q[a].request = q[b].request
      BY <1>3, <3>1, <3>2
    <3>4. a = b
      BY <1>3, <3>3 DEF Distinct
    <3> QED BY <3>1, <3>2, <3>4
  <2> QED BY <2>1, <2>2, <2>3
<1>7. Items(t) = Items(q) \cup {item.request}
  <2>1. \A x \in Items(t) : x \in Items(q) \cup {item.request}
    <3> SUFFICES ASSUME NEW i \in 1 .. Len(t), i # 1 PROVE t[i].request \in Items(q)
      BY <1>3 DEF Items
    <3>1. PICK j \in 1 .. Len(q) : i = 1 + j
      BY <1>4
    <3> QED BY <1>3, <3>1 DEF Items
  <2>2. item.request \in Items(t)
    <3>1. 1 \in DOMAIN t
      BY <1>3
    <3> QED BY <1>3, <3>1 DEF Items
  <2>3. ASSUME NEW j \in 1 .. Len(q) PROVE q[j].request \in Items(t)
    <3>1. 1 + j \in DOMAIN t
      BY <1>3
    <3> QED BY <1>3, <3>1 DEF Items
  <2> QED BY ZenonT(30), <1>3, <2>1, <2>2, <2>3 DEF Items
<1> QED BY <1>2, <1>3, <1>6, <1>7 DEF t, u

\* The first request that is not cancelled, if there is one.
LEMMA FirstLiveMeans ==
  ASSUME NEW q \in Seq(Item), NEW cancelled
  PROVE  \/ FirstLive(q, cancelled) = 0
         \/ /\ FirstLive(q, cancelled) \in 1 .. Len(q)
            /\ KeyOf[q[FirstLive(q, cancelled)].request] \notin DOMAIN cancelled
<1> DEFINE live(i) == KeyOf[q[i].request] \notin DOMAIN cancelled
           T == {i \in DOMAIN q : live(i)}
<1>1. DOMAIN q = 1 .. Len(q) /\ Len(q) \in Nat
  BY LenProperties
<1>2. CASE T = {}
  BY <1>2 DEF FirstLive
<1>3. CASE T # {}
  <2>1. T \subseteq Nat
    BY <1>1
  <2>2. PICK i \in T : \A j \in T : i <= j
    BY <1>3, <2>1, Least
  <2>3. i \in DOMAIN q /\ live(i) /\ \A j \in 1 .. i - 1 : ~ live(j)
    <3>1. i \in 1 .. Len(q)
      BY <1>1
    <3>2. ASSUME NEW j \in 1 .. i - 1, live(j) PROVE FALSE
      <4>1. j \in DOMAIN q /\ ~ (i <= j)
        BY <1>1, <3>1
      <4> QED BY <2>2, <3>2, <4>1
    <3> QED BY <3>2
  <2> DEFINE n == CHOOSE k \in DOMAIN q : live(k) /\ \A j \in 1 .. k - 1 : ~ live(j)
  <2>4. n \in DOMAIN q /\ live(n)
    BY <2>3
  <2>5. FirstLive(q, cancelled) = n
    BY <2>3 DEF FirstLive
  <2> HIDE DEF n
  <2> QED BY <1>1, <2>4, <2>5
<1> QED BY <1>2, <1>3

-----------------------------------------------------------------------------
(* The order of the queue                                                  *)

Among(A, S) == {p \in A : p[1] \in S /\ p[2] \in S}

\* Of the requests of q those of t are left, in their order.
Kept(q, t) == Items(t) \subseteq Items(q) /\ Ahead(t) = Among(Ahead(q), Items(t))

LEMMA AheadMeans ==
  ASSUME NEW q \in Seq(Item), NEW p
  PROVE  p \in Ahead(q) <=> \E i, j \in 1 .. Len(q) : i < j /\ p = <<q[i].request, q[j].request>>
<1>1. DOMAIN q = 1 .. Len(q)
  BY LenProperties
<1>2. ASSUME p \in Ahead(q)
      PROVE  \E i, j \in 1 .. Len(q) : i < j /\ p = <<q[i].request, q[j].request>>
  <2>1. PICK c \in (DOMAIN q) \X (DOMAIN q) :
          c[1] < c[2] /\ p = <<q[c[1]].request, q[c[2]].request>>
    BY Zenon, <1>2 DEF Ahead
  <2>2. c[1] \in 1 .. Len(q) /\ c[2] \in 1 .. Len(q)
    BY <1>1
  <2> QED BY <2>1, <2>2
<1>3. ASSUME NEW i \in 1 .. Len(q), NEW j \in 1 .. Len(q), i < j, p = <<q[i].request, q[j].request>>
      PROVE  p \in Ahead(q)
  <2> DEFINE c == <<i, j>>
  <2>1. c \in (DOMAIN q) \X (DOMAIN q) /\ c[1] = i /\ c[2] = j
    BY <1>1
  <2> HIDE DEF c
  <2>2. c \in {o \in (DOMAIN q) \X (DOMAIN q) : o[1] < o[2]}
    BY <1>3, <2>1
  <2>3. p = <<q[c[1]].request, q[c[2]].request>>
    BY <1>3, <2>1
  <2> QED BY Zenon, <2>2, <2>3 DEF Ahead
<1> QED BY <1>2, <1>3

\* Nobody is ahead of itself, and who is ahead of whom is in the queue.
LEMMA AheadInside ==
  ASSUME NEW q \in Seq(Item), Distinct(q), NEW p \in Ahead(q)
  PROVE  p[1] \in Items(q) /\ p[2] \in Items(q) /\ p[1] # p[2] /\ p = <<p[1], p[2]>>
<1>1. PICK i, j \in 1 .. Len(q) : i < j /\ p = <<q[i].request, q[j].request>>
  BY AheadMeans
<1>2. DOMAIN q = 1 .. Len(q)
  BY LenProperties
<1>3. p[1] = q[i].request /\ p[2] = q[j].request
  BY <1>1
<1>4. q[i].request # q[j].request
  <2>1. i # j
    BY <1>1
  <2> QED BY <1>2, <2>1 DEF Distinct
<1>5. p[1] \in Items(q) /\ p[2] \in Items(q)
  BY <1>2, <1>3 DEF Items
<1> QED BY <1>1, <1>3, <1>4, <1>5

\* What is picked from a queue from its head to its end keeps its order.
LEMMA PickedInOrder ==
  ASSUME NEW q \in Seq(Item), Distinct(q), NEW t \in Seq(Item),
         NEW pos \in [1 .. Len(t) -> 1 .. Len(q)],
         \A i \in 1 .. Len(t) : t[i] = q[pos[i]],
         \A i, j \in 1 .. Len(t) : i < j => pos[i] < pos[j]
  PROVE  Kept(q, t)
<1>1. DOMAIN q = 1 .. Len(q) /\ DOMAIN t = 1 .. Len(t) /\ Len(t) \in Nat /\ Len(q) \in Nat
  BY LenProperties
<1>2. Items(t) \subseteq Items(q)
  BY <1>1 DEF Items
<1>3. ASSUME NEW p \in Ahead(t) PROVE p \in Among(Ahead(q), Items(t))
  <2>1. PICK i, j \in 1 .. Len(t) : i < j /\ p = <<t[i].request, t[j].request>>
    BY AheadMeans
  <2>2. pos[i] < pos[j] /\ p = <<q[pos[i]].request, q[pos[j]].request>>
    BY <2>1
  <2>3. p \in Ahead(q)
    BY <2>2, AheadMeans
  <2>4. p[1] = t[i].request /\ p[2] = t[j].request
    BY <2>1
  <2>5. p[1] \in Items(t) /\ p[2] \in Items(t)
    BY <1>1, <2>4 DEF Items
  <2> QED BY <2>3, <2>5 DEF Among
<1>4. ASSUME NEW p \in Among(Ahead(q), Items(t)) PROVE p \in Ahead(t)
  <2>1. p \in Ahead(q) /\ p[1] \in Items(t) /\ p[2] \in Items(t)
    BY DEF Among
  <2>2. PICK a, b \in 1 .. Len(q) : a < b /\ p = <<q[a].request, q[b].request>>
    BY <2>1, AheadMeans
  <2>3. PICK i \in 1 .. Len(t) : t[i].request = p[1]
    BY <1>1, <2>1 DEF Items
  <2>4. PICK j \in 1 .. Len(t) : t[j].request = p[2]
    BY <1>1, <2>1 DEF Items
  <2>5. p[1] = q[a].request /\ p[2] = q[b].request
    BY <2>2
  <2>6. q[pos[i]].request = q[a].request /\ q[pos[j]].request = q[b].request
    BY <2>3, <2>4, <2>5
  <2>7. pos[i] = a /\ pos[j] = b
    BY <1>1, <2>6 DEF Distinct
  <2>8. i < j
    <3>1. ~ (j < i) /\ i # j
      BY <2>2, <2>7
    <3> QED BY <3>1
  <2>9. p = <<t[i].request, t[j].request>>
    BY <2>2, <2>3, <2>4, <2>5
  <2> QED BY <2>8, <2>9, AheadMeans
<1> QED BY <1>2, <1>3, <1>4 DEF Kept

LEMMA KeptTwice == ASSUME NEW q, NEW t, NEW u, Kept(q, t), Kept(t, u) PROVE Kept(q, u)
BY DEF Kept, Among

LEMMA KeptItself == ASSUME NEW q \in Seq(Item), Distinct(q) PROVE Kept(q, q)
BY AheadInside DEF Kept, Among

LEMMA FilterOrder ==
  ASSUME NEW q \in Seq(Item), Distinct(q), NEW places
  PROVE  Kept(q, Filter(q, places))
<1> DEFINE t == Filter(q, places)
<1>1. t \in Seq(Item) /\ \E pos : Picks(q, places, Len(q), t, pos)
  BY FilterMeans
<1> HIDE DEF t
<1>2. PICK pos : Picks(q, places, Len(q), t, pos)
  BY <1>1
<1>3. pos \in [1 .. Len(t) -> 1 .. Len(q)]
      /\ (\A i \in 1 .. Len(t) : t[i] = q[pos[i]])
      /\ \A i, j \in 1 .. Len(t) : i < j => pos[i] < pos[j]
  BY <1>2 DEF Picks
<1>4. Kept(q, t)
  BY <1>1, <1>3, PickedInOrder
<1> QED BY <1>4 DEF t

\* What comes after the n-th keeps its order, and nothing of it was ahead of the n-th.
LEMMA RestOrder ==
  ASSUME NEW q \in Seq(Item), Distinct(q), NEW n \in 1 .. Len(q)
  PROVE  /\ Kept(q, SubSeq(q, n + 1, Len(q)))
         /\ \A p \in Ahead(q) : p[2] = q[n].request => p[1] \in {q[i].request : i \in 1 .. n}
<1> DEFINE t == SubSeq(q, n + 1, Len(q))
<1>1. Len(q) \in Nat /\ DOMAIN q = 1 .. Len(q) /\ \A i \in 1 .. Len(q) : q[i] \in Item
  BY LenProperties
<1>2. n + 1 \in Int /\ Len(q) \in Int /\ \A i \in n + 1 .. Len(q) : q[i] \in Item
  BY <1>1
<1>3. /\ t \in Seq(Item) /\ Len(t) = IF n + 1 <= Len(q) THEN Len(q) - (n + 1) + 1 ELSE 0
      /\ \A i \in 1 .. Len(q) - (n + 1) + 1 : t[i] = q[n + 1 + i - 1]
  BY <1>2, SubSeqProperties
<1> HIDE DEF t
<1>4. Len(t) = Len(q) - n
  <2>1. CASE n + 1 <= Len(q)
    BY <1>1, <1>3, <2>1
  <2>2. CASE n = Len(q)
    <3>1. ~ (n + 1 <= Len(q))
      BY <1>1, <2>2
    <3>2. Len(t) = 0
      BY <1>3, <3>1
    <3> QED BY <1>1, <2>2, <3>2
  <2>3. n + 1 <= Len(q) \/ n = Len(q)
    <3>1. Len(q) \in Nat /\ n \in Nat /\ n <= Len(q)
      BY <1>1
    <3> QED BY <3>1
  <2> QED BY <2>1, <2>2, <2>3
<1>5. \A i \in 1 .. Len(t) : t[i] = q[n + i] /\ n + i \in 1 .. Len(q)
  <2> SUFFICES ASSUME NEW i \in 1 .. Len(t) PROVE t[i] = q[n + i] /\ n + i \in 1 .. Len(q)
    OBVIOUS
  <2>1. i \in 1 .. Len(q) - (n + 1) + 1 /\ n + 1 + i - 1 = n + i /\ n + i \in 1 .. Len(q)
    BY <1>1, <1>4
  <2> QED BY <1>3, <2>1
<1> DEFINE pos == [i \in 1 .. Len(t) |-> n + i]
<1>6. \A i \in 1 .. Len(t) : pos[i] = n + i
  OBVIOUS
<1>7. pos \in [1 .. Len(t) -> 1 .. Len(q)]
  BY <1>5
<1> HIDE DEF pos
<1>8. \A i \in 1 .. Len(t) : t[i] = q[pos[i]]
  BY <1>5, <1>6
<1>9. \A i, j \in 1 .. Len(t) : i < j => pos[i] < pos[j]
  BY <1>1, <1>4, <1>6
<1>10. Kept(q, t)
  BY <1>3, <1>7, <1>8, <1>9, PickedInOrder
<1>11. ASSUME NEW p \in Ahead(q), p[2] = q[n].request
       PROVE  p[1] \in {q[i].request : i \in 1 .. n}
  <2>1. PICK i, j \in 1 .. Len(q) : i < j /\ p = <<q[i].request, q[j].request>>
    BY AheadMeans
  <2>2. p[1] = q[i].request /\ p[2] = q[j].request
    BY <2>1
  <2>3. j = n
    BY <1>1, <1>11, <2>2 DEF Distinct
  <2>4. i \in 1 .. n
    BY <2>1, <2>3
  <2> QED BY <2>2, <2>4
<1> QED BY <1>10, <1>11 DEF t

\* A queue with h in front of t.
LEMMA HeadAhead ==
  ASSUME NEW q \in Seq(Item), NEW t \in Seq(Item), Len(q) = Len(t) + 1,
         \A i \in 1 .. Len(t) : q[1 + i] = t[i]
  PROVE  Ahead(q) = ({q[1].request} \X Items(t)) \cup Ahead(t)
<1> DEFINE h == q[1].request
<1>1. DOMAIN t = 1 .. Len(t) /\ Len(t) \in Nat /\ Len(q) \in Nat
  BY LenProperties
<1>2. ASSUME NEW p \in Ahead(q) PROVE p \in ({h} \X Items(t)) \cup Ahead(t)
  <2>1. PICK i, j \in 1 .. Len(q) : i < j /\ p = <<q[i].request, q[j].request>>
    BY AheadMeans
  <2>2. j - 1 \in 1 .. Len(t) /\ 1 + (j - 1) = j
    BY <1>1, <2>1
  <2>3. q[j].request = t[j - 1].request
    BY <2>2
  <2>4. CASE i = 1
    <3>1. q[j].request \in Items(t)
      BY <1>1, <2>2, <2>3 DEF Items
    <3> QED BY <2>1, <2>4, <3>1
  <2>5. CASE i # 1
    <3>1. i - 1 \in 1 .. Len(t) /\ 1 + (i - 1) = i /\ i - 1 < j - 1
      BY <1>1, <2>1, <2>5
    <3>2. q[i].request = t[i - 1].request
      BY <3>1
    <3>3. p \in Ahead(t)
      BY <2>1, <2>2, <2>3, <3>1, <3>2, AheadMeans
    <3> QED BY <3>3
  <2> QED BY <2>4, <2>5
<1>3. ASSUME NEW p \in {h} \X Items(t) PROVE p \in Ahead(q)
  <2>1. p = <<h, p[2]>> /\ p[2] \in Items(t)
    OBVIOUS
  <2>2. PICK j \in 1 .. Len(t) : p[2] = t[j].request
    BY <1>1, <2>1 DEF Items
  <2>3. 1 \in 1 .. Len(q) /\ 1 + j \in 1 .. Len(q) /\ 1 < 1 + j /\ q[1 + j].request = p[2]
    BY <1>1, <2>2
  <2>4. p = <<q[1].request, q[1 + j].request>>
    BY <2>1, <2>3
  <2> QED BY <2>3, <2>4, AheadMeans
<1>4. ASSUME NEW p \in Ahead(t) PROVE p \in Ahead(q)
  <2>1. PICK i, j \in 1 .. Len(t) : i < j /\ p = <<t[i].request, t[j].request>>
    BY AheadMeans
  <2>2. 1 + i \in 1 .. Len(q) /\ 1 + j \in 1 .. Len(q) /\ 1 + i < 1 + j
    BY <1>1, <2>1
  <2>3. p = <<q[1 + i].request, q[1 + j].request>>
    BY <2>1
  <2> QED BY <2>2, <2>3, AheadMeans
<1> QED BY <1>2, <1>3, <1>4

\* The head stays in front of what is left of the rest.
LEMMA HeadOrder ==
  ASSUME NEW q \in Seq(Item), Distinct(q), q # <<>>, NEW c \in Seq(Item), Kept(Tail(q), c)
  PROVE  Kept(q, <<Head(q)>> \o c)
<1> DEFINE t == Tail(q)
           x == Head(q)
           u == <<x>>
           k == u \o c
<1>1. /\ t \in Seq(Item) /\ Len(t) = Len(q) - 1 /\ x \in Item /\ x = q[1]
      /\ \A i \in 1 .. Len(t) : t[i] = q[i + 1]
      /\ Len(q) \in Nat \ {0} /\ Len(t) \in Nat
  BY HeadTailProperties, LenProperties
<1>2. Distinct(t) /\ Items(t) = Items(q) \ {x.request} /\ x.request \in Items(q)
  BY TailItems
<1> HIDE DEF t, x
<1>3. Items(c) \subseteq Items(t) /\ Ahead(c) = Among(Ahead(t), Items(c))
  BY DEF Kept, t
<1>4. u \in Seq(Item) /\ Len(u) = 1 /\ u[1] = x
  BY <1>1
<1> HIDE DEF u
<1>5. /\ k \in Seq(Item) /\ Len(k) = Len(u) + Len(c)
      /\ \A i \in 1 .. Len(u) + Len(c) : k[i] = IF i <= Len(u) THEN u[i] ELSE c[i - Len(u)]
  BY <1>4, ConcatProperties
<1> HIDE DEF k
<1>6. Len(k) = Len(c) + 1 /\ k[1] = x /\ \A i \in 1 .. Len(c) : k[1 + i] = c[i]
  <2>1. Len(c) \in Nat
    BY LenProperties
  <2>2. Len(k) = Len(c) + 1 /\ k[1] = x
    BY <1>4, <1>5, <2>1
  <2>3. ASSUME NEW i \in 1 .. Len(c) PROVE k[1 + i] = c[i]
    <3>1. 1 + i \in 1 .. Len(u) + Len(c) /\ ~ (1 + i <= Len(u)) /\ (1 + i) - Len(u) = i
      BY <1>4, <2>1
    <3> QED BY <1>5, <3>1
  <2> QED BY <2>2, <2>3
<1>7. Ahead(k) = ({x.request} \X Items(c)) \cup Ahead(c)
  <2>1. Ahead(k) = ({k[1].request} \X Items(c)) \cup Ahead(c)
    BY <1>5, <1>6, HeadAhead
  <2> QED BY <1>6, <2>1
<1>8. Ahead(q) = ({x.request} \X Items(t)) \cup Ahead(t)
  <2>1. Len(q) = Len(t) + 1
    BY <1>1
  <2>2. \A i \in 1 .. Len(t) : q[1 + i] = t[i]
    BY <1>1
  <2>3. Ahead(q) = ({q[1].request} \X Items(t)) \cup Ahead(t)
    BY <1>1, <2>1, <2>2, HeadAhead
  <2> QED BY <1>1, <2>3
<1>9. Items(k) = Items(c) \cup {x.request}
  <2>1. DOMAIN c = 1 .. Len(c) /\ DOMAIN k = 1 .. Len(k) /\ Len(c) \in Nat
    BY <1>5, LenProperties
  <2>2. \A i \in 1 .. Len(k) : i = 1 \/ (i - 1 \in 1 .. Len(c) /\ 1 + (i - 1) = i)
    BY <1>6, <2>1
  <2>3. 1 \in 1 .. Len(k) /\ \A i \in 1 .. Len(c) : 1 + i \in 1 .. Len(k)
    BY <1>6, <2>1
  <2>4. ASSUME NEW i \in 1 .. Len(k), i # 1 PROVE k[i].request \in Items(c)
    <3>1. i - 1 \in 1 .. Len(c) /\ k[i] = c[i - 1]
      BY <1>6, <2>2, <2>4
    <3> QED BY <2>1, <3>1 DEF Items
  <2>5. \A y \in Items(k) : y \in Items(c) \cup {x.request}
    BY <1>6, <2>1, <2>4 DEF Items
  <2>6. \A i \in 1 .. Len(c) : c[i].request \in Items(k)
    BY <1>6, <2>1, <2>3 DEF Items
  <2>7. \A y \in Items(c) : y \in Items(k)
    BY <2>1, <2>6 DEF Items
  <2>8. x.request \in Items(k)
    BY <1>6, <2>1, <2>3 DEF Items
  <2> QED BY <2>5, <2>7, <2>8
<1>10. x.request \notin Items(c) /\ x.request \notin Items(t)
  BY <1>2, <1>3
<1>11. \A p \in Ahead(t) : p[1] \in Items(t) /\ p[2] \in Items(t)
  BY <1>1, <1>2, AheadInside
<1>12. Ahead(k) = Among(Ahead(q), Items(k))
  <2>1. ASSUME NEW p \in Ahead(k) PROVE p \in Among(Ahead(q), Items(k))
    <3>1. CASE p \in {x.request} \X Items(c)
      BY <1>3, <1>8, <1>9, <3>1 DEF Among
    <3>2. CASE p \in Ahead(c)
      BY <1>3, <1>8, <1>9, <3>2 DEF Among
    <3> QED BY <1>7, <3>1, <3>2
  <2>2. ASSUME NEW p \in Among(Ahead(q), Items(k)) PROVE p \in Ahead(k)
    <3>1. p \in Ahead(q) /\ p[1] \in Items(k) /\ p[2] \in Items(k)
      BY DEF Among
    <3>2. CASE p \in {x.request} \X Items(t)
      <4>1. p[1] = x.request /\ p[2] \in Items(t) /\ p = <<p[1], p[2]>>
        BY <3>2
      <4>2. p[2] \in Items(c)
        BY <1>9, <1>10, <3>1, <4>1
      <4> QED BY <1>7, <4>1, <4>2
    <3>3. CASE p \in Ahead(t)
      <4>1. p[1] \in Items(c) /\ p[2] \in Items(c)
        BY <1>9, <1>10, <1>11, <3>1, <3>3
      <4> QED BY <1>3, <1>7, <3>3, <4>1 DEF Among
    <3> QED BY <1>8, <3>1, <3>2, <3>3
  <2> QED BY <2>1, <2>2
<1>13. Items(k) \subseteq Items(q)
  BY <1>2, <1>3, <1>9
<1>14. Kept(q, k)
  BY <1>12, <1>13 DEF Kept
<1> QED BY <1>14 DEF k, u, x

\* Who joins the queue is behind all others.
LEMMA AppendOrder ==
  ASSUME NEW q \in Seq(Item), Distinct(q), NEW item \in Item, item.request \notin Items(q)
  PROVE  Ahead(Append(q, item)) = Ahead(q) \cup (Items(q) \X {item.request})
<1> DEFINE t == Append(q, item)
           x == item.request
<1>1. /\ t \in Seq(Item) /\ Len(t) = Len(q) + 1 /\ t[Len(q) + 1] = item
      /\ \A i \in 1 .. Len(q) : t[i] = q[i]
      /\ DOMAIN q = 1 .. Len(q) /\ Len(q) \in Nat
  BY AppendProperties, LenProperties
<1> HIDE DEF t
<1>2. ASSUME NEW p \in Ahead(t) PROVE p \in Ahead(q) \cup (Items(q) \X {x})
  <2>1. PICK i, j \in 1 .. Len(t) : i < j /\ p = <<t[i].request, t[j].request>>
    BY <1>1, AheadMeans
  <2>2. i \in 1 .. Len(q) /\ t[i] = q[i] /\ (j \in 1 .. Len(q) \/ j = Len(q) + 1)
    BY <1>1, <2>1
  <2>3. CASE j \in 1 .. Len(q)
    <3>1. p = <<q[i].request, q[j].request>>
      BY <1>1, <2>1, <2>2, <2>3
    <3>2. p \in Ahead(q)
      BY <2>1, <2>2, <2>3, <3>1, AheadMeans
    <3> QED BY <3>2
  <2>4. CASE j = Len(q) + 1
    <3>1. p = <<q[i].request, x>>
      BY <1>1, <2>1, <2>2, <2>4
    <3>2. q[i].request \in Items(q)
      BY <1>1, <2>2 DEF Items
    <3> QED BY <3>1, <3>2
  <2> QED BY <2>2, <2>3, <2>4
<1>3. ASSUME NEW p \in Ahead(q) PROVE p \in Ahead(t)
  <2>1. PICK i, j \in 1 .. Len(q) : i < j /\ p = <<q[i].request, q[j].request>>
    BY AheadMeans
  <2>2. i \in 1 .. Len(t) /\ j \in 1 .. Len(t) /\ p = <<t[i].request, t[j].request>>
    BY <1>1, <2>1
  <2> QED BY <1>1, <2>1, <2>2, AheadMeans
<1>4. ASSUME NEW p \in Items(q) \X {x} PROVE p \in Ahead(t)
  <2>1. p = <<p[1], x>> /\ p[1] \in Items(q)
    OBVIOUS
  <2>2. PICK i \in 1 .. Len(q) : p[1] = q[i].request
    BY <1>1, <2>1 DEF Items
  <2>3. i \in 1 .. Len(t) /\ Len(q) + 1 \in 1 .. Len(t) /\ i < Len(q) + 1
    BY <1>1
  <2>4. p = <<t[i].request, t[Len(q) + 1].request>>
    BY <1>1, <2>1, <2>2
  <2> QED BY <1>1, <2>3, <2>4, AheadMeans
<1>5. Ahead(t) = Ahead(q) \cup (Items(q) \X {x})
  BY <1>2, <1>3, <1>4
<1> QED BY <1>5 DEF t

-----------------------------------------------------------------------------
(* The closure                                                             *)

\* Everything but the replies stays as it is.
SameButReply(r, d) ==
  /\ d.queue = r.queue /\ d.processing = r.processing /\ d.sending = r.sending
  /\ d.executed = r.executed /\ d.cancelled = r.cancelled
  /\ d.pending = r.pending /\ d.inFlight = r.inFlight

LEMMA ReplyMeans ==
  ASSUME NEW r \in Runtime, NEW requests, NEW answer \in Answers
  PROVE  /\ Reply(r, requests, answer) \in Runtime
         /\ SameButReply(r, Reply(r, requests, answer))
         /\ \A x \in Requests :
              Reply(r, requests, answer).reply[x] = IF x \in requests THEN answer ELSE r.reply[x]
<1> DEFINE g == [x \in Requests |-> IF x \in requests THEN answer ELSE r.reply[x]]
           d == [r EXCEPT !.reply = g]
<1>1. Reply(r, requests, answer) = d
  BY DEF Reply, Runtime
<1>2. g \in [Requests -> Answers]
  BY DEF Runtime
<1>3. \A x \in Requests : g[x] = IF x \in requests THEN answer ELSE r.reply[x]
  OBVIOUS
<1> HIDE DEF g
<1>4. d \in Runtime /\ SameButReply(r, d) /\ d.reply = g
  BY <1>2 DEF Runtime, SameButReply
<1> QED BY <1>1, <1>3, <1>4

\* What is in force of a map of times.
InForce(map) == {k \in DOMAIN map : map[k] > now}
Current(map, map2) ==
  /\ DOMAIN map2 = InForce(map)
  /\ \A k \in DOMAIN map2 : map2[k] = map[k]

LEMMA DropOverdueMeans ==
  ASSUME NEW r \in Runtime
  PROVE  /\ DropOverdue(r) \in Runtime
         /\ DropOverdue(r).queue = r.queue /\ DropOverdue(r).processing = r.processing
         /\ DropOverdue(r).sending = r.sending /\ DropOverdue(r).reply = r.reply
         /\ DropOverdue(r).executed = r.executed /\ DropOverdue(r).cancelled = r.cancelled
<1> DEFINE p == Without(r.pending, Overdue(r))
           f == Without(r.inFlight, Overdue(r))
           d == [r EXCEPT !.pending = p, !.inFlight = f]
<1>1. p \in Maps(Executes \cup Snapshots, Nat) /\ f \in Maps(Executes, Keys)
  <2>1. r.pending \in Maps(Executes \cup Snapshots, Nat) /\ r.inFlight \in Maps(Executes, Keys)
    BY DEF Runtime
  <2> QED BY <2>1, WithoutMeans
<1>2. DropOverdue(r) = d
  BY DEF DropOverdue
<1> HIDE DEF p, f
<1> QED BY <1>1, <1>2 DEF Runtime

\* What a request is answered that leaves the queue without being sent.
NotServed == {"duplicate", "action_cancelled", "refused", "action_queue_full",
              "action_dispatch_failed"}

\* Only who has waited for too long is given up.
Overstayed(r, d) ==
  \A x \in Requests :
    d.reply[x] = "action_dispatch_failed" /\ r.reply[x] # d.reply[x]
      => \E i \in DOMAIN r.queue : r.queue[i].request = x /\ Expired(r.queue[i])

LEMMA CleanMeans ==
  ASSUME NEW r \in Runtime, Distinct(r.queue), now \in Nat
  PROVE  /\ Clean(r) \in Runtime /\ Distinct(Clean(r).queue)
         /\ Items(Clean(r).queue) \subseteq Items(r.queue)
         /\ \A x \in Requests : Clean(r).reply[x] =
              IF x \in Items(r.queue) \ Items(Clean(r).queue) THEN "action_dispatch_failed" ELSE r.reply[x]
         /\ Clean(r).processing = r.processing /\ Clean(r).sending = r.sending
         /\ Current(r.executed, Clean(r).executed) /\ Current(r.cancelled, Clean(r).cancelled)
         /\ Kept(r.queue, Clean(r).queue) /\ Overstayed(r, Clean(r))
<1> DEFINE queue == Unexpired(r.queue)
           o == DropOverdue(r)
           e == Without(o.executed, {k \in DOMAIN o.executed : o.executed[k] <= now})
           c == Without(o.cancelled, {k \in DOMAIN o.cancelled : o.cancelled[k] <= now})
           d == [o EXCEPT !.executed = e, !.cancelled = c, !.queue = queue]
<1>1. /\ queue \in Seq(Item) /\ Distinct(queue) /\ Items(queue) \subseteq Items(r.queue)
      /\ Kept(r.queue, queue)
      /\ \A x \in Items(r.queue) \ Items(queue) :
           \E i \in DOMAIN r.queue : r.queue[i].request = x /\ Expired(r.queue[i])
  <2> DEFINE places == {i \in DOMAIN r.queue : ~ Expired(r.queue[i])}
  <2>1. r.queue \in Seq(Item) /\ places \subseteq DOMAIN r.queue
    BY DEF Runtime
  <2>2. queue = Filter(r.queue, places)
    BY DEF Unexpired
  <2>4. \A i \in DOMAIN r.queue : i \in places \/ Expired(r.queue[i])
    OBVIOUS
  <2> HIDE DEF places, queue
  <2>3. Items(queue) = {r.queue[i].request : i \in places}
    BY <2>1, <2>2, FilterItems
  <2>5. queue \in Seq(Item) /\ Distinct(queue) /\ Items(queue) \subseteq Items(r.queue)
    BY <2>1, <2>2, <2>3, FilterItems DEF Items
  <2>6. Kept(r.queue, queue)
    BY <2>1, <2>2, FilterOrder
  <2>7. \A x \in Items(r.queue) \ Items(queue) :
          \E i \in DOMAIN r.queue : r.queue[i].request = x /\ Expired(r.queue[i])
    BY <2>3, <2>4 DEF Items
  <2> QED BY <2>5, <2>6, <2>7
<1>2. /\ o \in Runtime /\ o.queue = r.queue /\ o.processing = r.processing
      /\ o.sending = r.sending /\ o.reply = r.reply
      /\ o.executed = r.executed /\ o.cancelled = r.cancelled
  BY DropOverdueMeans
<1>3. Clean(r) = Reply(d, Items(r.queue) \ Items(queue), "action_dispatch_failed")
  BY DEF Clean
<1> HIDE DEF queue, o
<1>4. \A m \in Maps(Keys, Nat) :
        /\ Without(m, {k \in DOMAIN m : m[k] <= now}) \in Maps(Keys, Nat)
        /\ Current(m, Without(m, {k \in DOMAIN m : m[k] <= now}))
  <2> SUFFICES ASSUME NEW m \in Maps(Keys, Nat)
               PROVE  LET m2 == Without(m, {k \in DOMAIN m : m[k] <= now})
                      IN  m2 \in Maps(Keys, Nat) /\ Current(m, m2)
    OBVIOUS
  <2> DEFINE old == {k \in DOMAIN m : m[k] <= now}
             m2 == Without(m, old)
  <2>2. \A k \in DOMAIN m : m[k] \in Nat
    BY MapsMean
  <2>3. DOMAIN m \ old = InForce(m)
    BY <2>2 DEF InForce
  <2> HIDE DEF old
  <2>1. /\ m2 \in Maps(Keys, Nat) /\ DOMAIN m2 = DOMAIN m \ old
        /\ \A k \in DOMAIN m \ old : m2[k] = m[k]
    BY WithoutMeans
  <2> HIDE DEF m2
  <2>4. m2 \in Maps(Keys, Nat) /\ Current(m, m2)
    BY <2>1, <2>3 DEF Current
  <2> QED BY <2>4 DEF m2, old
<1>5. /\ e \in Maps(Keys, Nat) /\ c \in Maps(Keys, Nat)
      /\ Current(r.executed, e) /\ Current(r.cancelled, c)
  <2>1. r.executed \in Maps(Keys, Nat) /\ r.cancelled \in Maps(Keys, Nat)
    BY DEF Runtime
  <2>2. e = Without(r.executed, {k \in DOMAIN r.executed : r.executed[k] <= now})
    BY <1>2
  <2>3. c = Without(r.cancelled, {k \in DOMAIN r.cancelled : r.cancelled[k] <= now})
    BY <1>2
  <2> HIDE DEF e, c
  <2> QED BY <1>4, <2>1, <2>2, <2>3
<1> HIDE DEF e, c
<1>6. /\ d \in Runtime /\ d.queue = queue /\ d.executed = e /\ d.cancelled = c
      /\ d.processing = r.processing /\ d.sending = r.sending /\ d.reply = r.reply
  BY <1>1, <1>2, <1>5 DEF Runtime
<1> HIDE DEF d
<1> DEFINE a == "action_dispatch_failed"
           s == Items(r.queue) \ Items(queue)
<1>7. a \in Answers
  BY DEF Answers
<1>8. /\ Reply(d, s, a) \in Runtime /\ SameButReply(d, Reply(d, s, a))
      /\ \A x \in Requests : Reply(d, s, a).reply[x] = IF x \in s THEN a ELSE d.reply[x]
  BY <1>6, <1>7, ReplyMeans
<1>9. Clean(r).queue = queue
  BY <1>3, <1>6, <1>8 DEF SameButReply
<1>10. Overstayed(r, Clean(r))
  <2> SUFFICES ASSUME NEW x \in Requests, Clean(r).reply[x] # r.reply[x]
               PROVE  \E i \in DOMAIN r.queue : r.queue[i].request = x /\ Expired(r.queue[i])
    BY DEF Overstayed
  <2>1. x \in s
    BY <1>3, <1>6, <1>8
  <2> QED BY <1>1, <2>1
<1> QED BY <1>1, <1>3, <1>5, <1>6, <1>8, <1>9, <1>10 DEF SameButReply

\* Requests leave q in their turn: the others keep their order, the one that is sent is
\* ahead of all who stay, and no other leaves unanswered.  (s was being sent before.)
InTurn(q, s, d) ==
  /\ Kept(q, d.queue)
  /\ \A x \in Items(q) \ Items(d.queue) : x = d.sending \/ d.reply[x] \in NotServed
  /\ d.sending \notin {None, s} =>
       \A p \in Ahead(q) : p[2] = d.sending => p[1] \notin Items(d.queue)

\* What a step of the processor makes of the closure: it answers or takes requests from the
\* queue, keeps what is in force of the keys, and sends nothing that is cancelled.
Advanced(r, d) ==
  /\ d \in Runtime /\ Distinct(d.queue) /\ Items(d.queue) \subseteq Items(r.queue)
  /\ d.processing = (d.sending # None)
  /\ d.sending # None =>
       /\ d.sending \in Items(r.queue) \ Items(d.queue)
       /\ d.reply[d.sending] = r.reply[d.sending]
       /\ KeyOf[d.sending] \notin InForce(r.cancelled)
  /\ \A x \in Requests :
       \/ d.reply[x] = r.reply[x]
       \/ /\ x \in Items(r.queue) \ Items(d.queue)
          /\ d.reply[x] \in {"action_cancelled", "action_dispatch_failed"}
  /\ \A k \in InForce(r.executed) : k \in DOMAIN d.executed /\ d.executed[k] = r.executed[k]
  /\ InTurn(r.queue, None, d) /\ Overstayed(r, d)

LEMMA ItemRequest == ASSUME NEW q \in Seq(Item) PROVE Items(q) \subseteq Executes
<1>1. \A i \in 1 .. Len(q) : q[i] \in Item
  OBVIOUS
<1> QED BY <1>1 DEF Items, Item

LEMMA EmptyQueue == <<>> \in Seq(Item) /\ Distinct(<<>>) /\ Items(<<>>) = {}
BY DEF Items, Distinct

LEMMA TakeNextMeans ==
  ASSUME NEW r \in Runtime, Distinct(r.queue), now \in Nat
  PROVE  Advanced(r, TakeNext(r))
<1> DEFINE d == TakeNext(r)
<1> USE DispatchAssumption DEF Requests
<1>1. r.queue \in Seq(Item) /\ \A k \in DOMAIN r.executed : TRUE
  BY DEF Runtime
<1>2. CASE r.queue = <<>>
  <2>1. d = [r EXCEPT !.processing = FALSE, !.sending = None]
    BY <1>2 DEF TakeNext
  <2>2. d \in Runtime /\ d.queue = r.queue /\ d.reply = r.reply /\ d.executed = r.executed
        /\ d.processing = FALSE /\ d.sending = None
    BY <2>1 DEF Runtime
  <2> HIDE DEF d
  <2>4. InTurn(r.queue, None, d)
    BY <1>1, <2>2, KeptItself DEF InTurn
  <2>5. Overstayed(r, d)
    BY <2>2 DEF Overstayed
  <2>3. Advanced(r, d)
    BY <2>2, <2>4, <2>5 DEF Advanced, InForce
  <2> QED BY <2>3 DEF d
<1>3. CASE r.queue # <<>>
  <2> DEFINE h == Head(r.queue)
             t == Tail(r.queue)
             r1 == [r EXCEPT !.queue = t]
             c == Clean(r1)
             q == <<h>> \o c.queue
             n == FirstLive(q, c.cancelled)
             s == IF n = 0 THEN Items(q) ELSE {q[i].request : i \in 1 .. n - 1}
             Q == IF n = 0 THEN <<>> ELSE SubSeq(q, n + 1, Len(q))
             P == n # 0
             S == IF n = 0 THEN None ELSE q[n].request
             e == [c EXCEPT !.queue = Q, !.processing = P, !.sending = S]
  <2>1. d = Reply(e, s, "action_cancelled")
    BY Zenon, <1>3 DEF TakeNext
  <2>2. /\ t \in Seq(Item) /\ Distinct(t) /\ h \in Item
        /\ Items(t) = Items(r.queue) \ {h.request} /\ h.request \in Items(r.queue)
    BY <1>1, <1>3, TailItems
  <2>19. \A i \in DOMAIN t : i + 1 \in DOMAIN r.queue /\ t[i] = r.queue[i + 1]
    <3>1. /\ Len(t) = Len(r.queue) - 1 /\ Len(r.queue) \in Nat /\ Len(t) \in Nat
          /\ \A i \in 1 .. Len(t) : t[i] = r.queue[i + 1]
          /\ DOMAIN t = 1 .. Len(t) /\ DOMAIN r.queue = 1 .. Len(r.queue)
      BY <1>1, <1>3, HeadTailProperties, LenProperties
    <3> HIDE DEF t
    <3> QED BY <3>1
  <2>20. \A c2 \in Seq(Item) : Kept(t, c2) => Kept(r.queue, <<h>> \o c2)
    BY <1>1, <1>3, HeadOrder
  <2> HIDE DEF h, t, d
  <2>3. /\ r1 \in Runtime /\ r1.queue = t /\ r1.reply = r.reply
        /\ r1.executed = r.executed /\ r1.cancelled = r.cancelled
    BY <2>2 DEF Runtime
  <2> HIDE DEF r1
  <2>4. /\ c \in Runtime /\ Distinct(c.queue) /\ Items(c.queue) \subseteq Items(t)
        /\ \A x \in Requests : c.reply[x] =
             IF x \in Items(t) \ Items(c.queue) THEN "action_dispatch_failed" ELSE r.reply[x]
        /\ Current(r.executed, c.executed) /\ Current(r.cancelled, c.cancelled)
        /\ Kept(t, c.queue) /\ Overstayed(r1, c)
    <3>1. r1 \in Runtime /\ Distinct(r1.queue) /\ now \in Nat
      BY <2>2, <2>3
    <3>2. /\ c \in Runtime /\ Distinct(c.queue) /\ Items(c.queue) \subseteq Items(r1.queue)
          /\ \A x \in Requests : c.reply[x] =
               IF x \in Items(r1.queue) \ Items(c.queue) THEN "action_dispatch_failed"
               ELSE r1.reply[x]
          /\ Current(r1.executed, c.executed) /\ Current(r1.cancelled, c.cancelled)
          /\ Kept(r1.queue, c.queue) /\ Overstayed(r1, c)
      BY ZenonT(30), <3>1, CleanMeans
    <3> HIDE DEF c
    <3> QED BY ZenonT(30), <2>3, <3>2
  <2> HIDE DEF c
  <2>5. c.queue \in Seq(Item) /\ h.request \notin Items(c.queue)
    BY <2>2, <2>4 DEF Runtime
  <2>6. q \in Seq(Item) /\ Distinct(q) /\ Items(q) = Items(c.queue) \cup {h.request}
    BY <2>2, <2>4, <2>5, ConsItems
  <2>21. Kept(r.queue, q)
    BY <2>4, <2>5, <2>20
  <2> HIDE DEF q
  <2>7. Items(q) \subseteq Items(r.queue) /\ Items(q) \subseteq Executes
    BY <2>2, <2>4, <2>6, ItemRequest
  <2>8. n = 0 \/ (n \in 1 .. Len(q) /\ KeyOf[q[n].request] \notin DOMAIN c.cancelled)
    BY <2>6, FirstLiveMeans
  <2> HIDE DEF n
  <2>9. /\ Q \in Seq(Item) /\ Distinct(Q) /\ Items(Q) \subseteq Items(q)
        /\ P \in BOOLEAN /\ S \in Executes \cup {None} /\ P = (S # None)
        /\ s \subseteq Items(q) \ Items(Q) /\ S \notin s
        /\ S # None => /\ S \in Items(q) \ Items(Q)
                       /\ KeyOf[S] \notin DOMAIN c.cancelled
                       /\ \A p \in Ahead(q) : p[2] = S => p[1] \notin Items(Q)
        /\ Kept(q, Q) /\ \A x \in Items(q) \ Items(Q) : x = S \/ x \in s
    <3>1. CASE n = 0
      <4>1. Q = <<>> /\ P = FALSE /\ S = None /\ s = Items(q)
        BY <3>1
      <4> HIDE DEF Q, P, S, s
      <4>2. Kept(q, Q)
        <5>1. Ahead(<<>>) = {}
          BY DEF Ahead
        <5> QED BY <4>1, <5>1, EmptyQueue DEF Kept, Among
      <4> QED BY <2>7, <4>1, <4>2, EmptyQueue
    <3>2. CASE n \in 1 .. Len(q)
      <4>1. n # 0 /\ DOMAIN q = 1 .. Len(q) /\ Len(q) \in Nat
        BY <2>6, <3>2, LenProperties
      <4>2. Q = SubSeq(q, n + 1, Len(q)) /\ P = TRUE /\ S = q[n].request
            /\ s = {q[i].request : i \in 1 .. n - 1}
        BY <4>1
      <4> HIDE DEF Q, P, S, s
      <4>3. Q \in Seq(Item) /\ Distinct(Q) /\ Items(Q) = Items(q) \ {q[i].request : i \in 1 .. n}
        BY <2>6, <3>2, <4>2, RestItems
      <4>4. S \in Items(q)
        BY <3>2, <4>1, <4>2 DEF Items
      <4>5. S \in {q[i].request : i \in 1 .. n}
        BY <3>2, <4>2
      <4>6. \A i \in 1 .. n - 1 : i \in 1 .. n /\ i \in 1 .. Len(q) /\ i # n
        BY <3>2, <4>1
      <4>7. s \subseteq Items(q) /\ s \subseteq {q[i].request : i \in 1 .. n}
        BY <4>1, <4>2, <4>6 DEF Items
      <4>8. S \notin s
        <5>1. \A i \in 1 .. n - 1 : q[i].request # q[n].request
          BY <2>6, <3>2, <4>1, <4>6 DEF Distinct
        <5> QED BY <4>2, <5>1
      <4>9. S \in Executes /\ S # None
        BY <2>7, <4>4
      <4>10. KeyOf[S] \notin DOMAIN c.cancelled
        BY <2>8, <4>1, <4>2
      <4>11. Kept(q, Q) /\ \A p \in Ahead(q) : p[2] = S => p[1] \notin Items(Q)
        BY <2>6, <3>2, <4>2, <4>3, RestOrder
      <4>12. ASSUME NEW x \in Items(q) \ Items(Q) PROVE x = S \/ x \in s
        <5>1. PICK i \in 1 .. n : x = q[i].request
          BY <4>3, <4>12
        <5>2. i = n \/ i \in 1 .. n - 1
          BY <3>2
        <5> QED BY <4>2, <5>1, <5>2
      <4> QED BY <4>2, <4>3, <4>4, <4>5, <4>7, <4>8, <4>9, <4>10, <4>11, <4>12
    <3> QED BY <2>8, <3>1, <3>2
  <2> HIDE DEF Q, P, S, s
  <2>10. /\ e \in Runtime /\ e.queue = Q /\ e.processing = P /\ e.sending = S
         /\ e.reply = c.reply /\ e.executed = c.executed
    BY <2>4, <2>9 DEF Runtime
  <2> HIDE DEF e
  <2>11. "action_cancelled" \in Answers
    BY DEF Answers
  <2>12. /\ d \in Runtime /\ SameButReply(e, d)
         /\ \A x \in Requests : d.reply[x] = IF x \in s THEN "action_cancelled" ELSE c.reply[x]
    BY <2>1, <2>10, <2>11, ReplyMeans
  <2>13. d.queue = Q /\ d.processing = P /\ d.sending = S /\ d.executed = c.executed
    BY <2>10, <2>12 DEF SameButReply
  <2>14. Items(Q) \subseteq Items(r.queue)
    BY <2>7, <2>9
  <2>15. ASSUME S # None
         PROVE  /\ S \in Items(r.queue) \ Items(Q) /\ d.reply[S] = r.reply[S]
                /\ KeyOf[S] \notin InForce(r.cancelled)
    <3>1. S \in Items(q) \ Items(Q) /\ S \in Requests
      BY <2>9, <2>15
    <3>2. S \notin Items(t) \ Items(c.queue)
      BY <2>2, <2>6, <3>1
    <3>3. d.reply[S] = r.reply[S]
      BY <2>4, <2>9, <2>12, <3>1, <3>2
    <3>4. DOMAIN c.cancelled = InForce(r.cancelled)
      BY <2>4 DEF Current
    <3> QED BY <2>7, <2>9, <2>15, <3>1, <3>3, <3>4
  <2>16. ASSUME NEW x \in Requests, d.reply[x] # r.reply[x]
         PROVE  /\ x \in Items(r.queue) \ Items(Q)
                /\ d.reply[x] \in {"action_cancelled", "action_dispatch_failed"}
    <3>1. CASE x \in s
      BY <2>7, <2>9, <2>12, <3>1
    <3>2. CASE x \notin s
      <4>1. x \in Items(t) \ Items(c.queue) /\ d.reply[x] = "action_dispatch_failed"
        BY <2>4, <2>12, <2>16, <3>2
      <4>2. x \notin Items(q)
        BY <2>2, <2>6, <4>1
      <4> QED BY <2>2, <2>9, <4>1, <4>2
    <3> QED BY <3>1, <3>2
  <2>17. \A k \in InForce(r.executed) : k \in DOMAIN d.executed /\ d.executed[k] = r.executed[k]
    BY <2>4, <2>13 DEF Current
  <2>22. InTurn(r.queue, None, d)
    <3>1. Kept(r.queue, Q)
      BY <2>9, <2>21, KeptTwice
    <3>2. ASSUME NEW x \in Items(r.queue) \ Items(Q)
          PROVE  x = S \/ d.reply[x] \in NotServed
      <4>1. x \in Requests
        BY <1>1, ItemRequest
      <4>2. CASE x \in Items(q)
        BY <2>9, <2>12, <4>1, <4>2 DEF NotServed
      <4>3. CASE x \notin Items(q)
        <5>1. x \in Items(t) \ Items(c.queue) /\ x \notin s
          BY <2>2, <2>6, <2>9, <4>3
        <5> QED BY <2>4, <2>12, <4>1, <5>1 DEF NotServed
      <4> QED BY <4>2, <4>3
    <3>3. ASSUME S # None, NEW p \in Ahead(r.queue), p[2] = S, p[1] \in Items(Q) PROVE FALSE
      <4>1. p \in Ahead(q)
        BY <2>9, <2>21, <3>3 DEF Kept, Among
      <4> QED BY <2>9, <3>3, <4>1
    <3> QED BY <2>13, <3>1, <3>2, <3>3 DEF InTurn
  <2>23. Overstayed(r, d)
    <3> SUFFICES ASSUME NEW x \in Requests, d.reply[x] = "action_dispatch_failed",
                        r.reply[x] # d.reply[x]
                 PROVE  \E i \in DOMAIN r.queue : r.queue[i].request = x /\ Expired(r.queue[i])
      BY DEF Overstayed
    <3>1. c.reply[x] = d.reply[x]
      BY <2>12
    <3>2. PICK i \in DOMAIN t : t[i].request = x /\ Expired(t[i])
      BY <2>3, <2>4, <3>1 DEF Overstayed
    <3> QED BY <2>19, <3>2
  <2>18. Advanced(r, d)
    BY <2>9, <2>12, <2>13, <2>14, <2>15, <2>16, <2>17, <2>22, <2>23 DEF Advanced
  <2> QED BY <2>18 DEF d
<1> QED BY <1>2, <1>3

\* The processor is started, or already runs.
LEMMA KickMeans ==
  ASSUME NEW r \in Runtime, Distinct(r.queue), now \in Nat
  PROVE  Kick(r) = r \/ Advanced(r, Kick(r))
BY TakeNextMeans DEF Kick

-----------------------------------------------------------------------------
(* The invariant                                                           *)

RequestStates == {"new", "url", "waiting", "thrown"}
CallStates == {"none", "calling", "resolved", "rejected"}

TypeInv ==
  /\ rt \in Runtime
  /\ at \in [Requests -> RequestStates] /\ calls \in [Requests -> CallStates]
  /\ now \in Nat /\ faults \in Nat /\ shown \in Pages
  /\ cancelledOnPage \subseteq Keys /\ results \subseteq Requests
  /\ handled \in [Requests -> Nat] /\ performed \in [Requests -> Nat]
  /\ okAt \in Maps(Executes, Nat) /\ late \subseteq Executes

\* Answers to requests that the page never sees.
Refusals == {"duplicate", "action_cancelled", "refused", "action_queue_full"}

\* Each action request is in one place: not yet through onMessage, queued, being sent, or
\* answered according to what became of its dispatch.  (s is the request being sent, a and c
\* are what at and calls say.)
Placed(r, s, a, c) ==
  \A x \in Executes :
    /\ a[x] # "waiting" =>
         c[x] = "none" /\ r.reply[x] = "none" /\ x \notin Items(r.queue) /\ x # s
    /\ x \in Items(r.queue) => c[x] = "none" /\ r.reply[x] = "none" /\ x # s
    /\ x = s => c[x] # "none" /\ r.reply[x] = "none"
    /\ r.reply[x] = "ok" => c[x] = "resolved"
    /\ r.reply[x] \in Refusals => c[x] = "none"
    /\ r.reply[x] = "action_dispatch_failed" => c[x] \in {"none", "rejected"}

\* The processor runs exactly while it sends a request, and the queue holds none twice.
Processing(r) == Distinct(r.queue) /\ r.processing = (r.sending # None)

\* The page has handled an action once when its dispatch was accepted, and not at all
\* before it had the chance.
Counted(c) ==
  \A x \in Executes :
    /\ c[x] \in {"none", "calling"} => handled[x] = 0
    /\ c[x] = "resolved" => handled[x] = 1
    /\ handled[x] <= 1 /\ performed[x] <= handled[x]
    /\ faults = 0 => c[x] # "rejected"

\* A late duplicate has been turned away.
LateRefused(r, l) == \A x \in l : r.reply[x] \in {"action_cancelled", "duplicate"}

\* The key of an action that was answered ok is remembered for its time.
Remembered(r, ok) ==
  \A y \in DOMAIN ok :
    /\ ok[y] <= now
    /\ ok[y] + KeyTtl > now =>
         KeyOf[y] \in DOMAIN r.executed /\ r.executed[KeyOf[y]] >= ok[y] + KeyTtl

Inv ==
  /\ TypeInv /\ Processing(rt) /\ Placed(rt, rt.sending, at, calls) /\ Counted(calls)
  /\ LateRefused(rt, late) /\ Remembered(rt, okAt)

-----------------------------------------------------------------------------
(* Serving the queue                                                       *)

\* Requests leave the queue: answered, or at most one to be sent.
Serves(r, s, d) ==
  /\ d \in Runtime /\ Processing(d) /\ Items(d.queue) \subseteq Items(r.queue)
  /\ \/ d.sending = s
     \/ d.sending = None
     \/ /\ d.sending \in Items(r.queue) \ Items(d.queue)
        /\ d.reply[d.sending] = r.reply[d.sending]
        /\ KeyOf[d.sending] \notin InForce(r.cancelled)
  /\ \A x \in Requests :
       \/ d.reply[x] = r.reply[x]
       \/ /\ x \in Items(r.queue) \ Items(d.queue)
          /\ d.reply[x] \in {"action_cancelled", "action_dispatch_failed"}
  /\ \A k \in InForce(r.executed) : k \in DOMAIN d.executed /\ d.executed[k] = r.executed[k]

\* sendToActiveTab is called for the request that is newly sent.
Called(c, s, d) == IF d.sending \notin {None, s} THEN [c EXCEPT ![d.sending] = "calling"] ELSE c

LEMMA AdvancedServes == \A r, s, d : Advanced(r, d) => Serves(r, s, d)
BY DEF Advanced, Serves, Processing

LEMMA CleanServes ==
  ASSUME NEW r \in Runtime, Processing(r), now \in Nat
  PROVE  Serves(r, r.sending, Clean(r)) /\ Clean(r).sending = r.sending
<1> DEFINE d == Clean(r)
<1>1. /\ d \in Runtime /\ Distinct(d.queue) /\ Items(d.queue) \subseteq Items(r.queue)
      /\ \A x \in Requests : d.reply[x] =
           IF x \in Items(r.queue) \ Items(d.queue) THEN "action_dispatch_failed" ELSE r.reply[x]
      /\ d.processing = r.processing /\ d.sending = r.sending
      /\ Current(r.executed, d.executed)
  BY CleanMeans DEF Processing
<1> HIDE DEF d
<1>2. \A k \in InForce(r.executed) : k \in DOMAIN d.executed /\ d.executed[k] = r.executed[k]
  BY <1>1 DEF Current
<1>3. Serves(r, r.sending, d)
  BY <1>1, <1>2 DEF Serves, Processing
<1> QED BY <1>1, <1>3 DEF d

LEMMA KickServes ==
  ASSUME NEW r \in Runtime, Processing(r), now \in Nat
  PROVE  Serves(r, r.sending, Kick(r))
<1>1. CASE Kick(r) = r
  BY <1>1 DEF Serves, InForce
<1>2. CASE Advanced(r, Kick(r))
  BY <1>2, AdvancedServes
<1> QED BY <1>1, <1>2, KickMeans DEF Processing

\* Serving the queue keeps every part of the invariant, and sends nothing that is cancelled.
LEMMA ServingKeeps ==
  ASSUME NEW r \in Runtime, NEW s, NEW d, NEW a, NEW c \in [Requests -> CallStates], NEW l, NEW ok,
         Serves(r, s, d), Placed(r, s, a, c), Counted(c), l \subseteq Executes,
         LateRefused(r, l), ok \in Maps(Executes, Nat), Remembered(r, ok), now \in Nat
  PROVE  /\ Called(c, s, d) \in [Requests -> CallStates]
         /\ Placed(d, d.sending, a, Called(c, s, d)) /\ Counted(Called(c, s, d))
         /\ LateRefused(d, l) /\ Remembered(d, ok)
         /\ \A x \in Executes : c[x] = "none" /\ Called(c, s, d)[x] = "calling"
                                  => KeyOf[x] \notin InForce(r.cancelled)
<1> DEFINE c2 == Called(c, s, d)
           new == d.sending \notin {None, s}
<1> USE DispatchAssumption
<1>1. Executes \subseteq Requests /\ None \notin Executes /\ Items(r.queue) \subseteq Executes
  BY ItemRequest DEF Requests, Runtime
<1>2. /\ \A x \in Requests : c2[x] = IF new /\ x = d.sending THEN "calling" ELSE c[x]
      /\ c2 \in [Requests -> CallStates]
  BY DEF Called, CallStates
<1> HIDE DEF c2
<1>3. /\ d \in Runtime /\ Items(d.queue) \subseteq Items(r.queue)
      /\ \A x \in Requests :
           \/ d.reply[x] = r.reply[x]
           \/ /\ x \in Items(r.queue) \ Items(d.queue)
              /\ d.reply[x] \in {"action_cancelled", "action_dispatch_failed"}
      /\ new => /\ d.sending \in Items(r.queue) \ Items(d.queue)
                /\ d.reply[d.sending] = r.reply[d.sending]
                /\ KeyOf[d.sending] \notin InForce(r.cancelled)
      /\ ~ new => d.sending = s \/ d.sending = None
  BY DEF Serves
<1> HIDE DEF new
<1>4. ASSUME NEW x \in Executes
      PROVE  /\ a[x] # "waiting" =>
                  c2[x] = "none" /\ d.reply[x] = "none" /\ x \notin Items(d.queue) /\ x # d.sending
             /\ x \in Items(d.queue) => c2[x] = "none" /\ d.reply[x] = "none" /\ x # d.sending
             /\ x = d.sending => c2[x] # "none" /\ d.reply[x] = "none"
             /\ d.reply[x] = "ok" => c2[x] = "resolved"
             /\ d.reply[x] \in Refusals => c2[x] = "none"
             /\ d.reply[x] = "action_dispatch_failed" => c2[x] \in {"none", "rejected"}
  <2>1. /\ a[x] # "waiting" =>
             c[x] = "none" /\ r.reply[x] = "none" /\ x \notin Items(r.queue) /\ x # s
        /\ x \in Items(r.queue) => c[x] = "none" /\ r.reply[x] = "none" /\ x # s
        /\ x = s => c[x] # "none" /\ r.reply[x] = "none"
        /\ r.reply[x] = "ok" => c[x] = "resolved"
        /\ r.reply[x] \in Refusals => c[x] = "none"
        /\ r.reply[x] = "action_dispatch_failed" => c[x] \in {"none", "rejected"}
    BY DEF Placed
  <2>2. "none" \notin Refusals
    BY DEF Refusals
  <2>3. CASE new /\ x = d.sending
    <3>1. c2[x] = "calling" /\ x \in Items(r.queue) \ Items(d.queue) /\ d.reply[x] = "none"
      BY <1>1, <1>2, <1>3, <2>1, <2>3
    <3> QED BY <2>1, <2>2, <3>1
  <2>4. CASE ~ (new /\ x = d.sending) /\ d.reply[x] = r.reply[x]
    <3>1. c2[x] = c[x]
      BY <1>1, <1>2, <2>4
    <3>2. x = d.sending => x = s
      BY <1>1, <1>3, <2>4
    <3> QED BY <1>3, <2>1, <2>4, <3>1, <3>2
  <2>5. CASE ~ (new /\ x = d.sending) /\ d.reply[x] # r.reply[x]
    <3>1. /\ x \in Items(r.queue) \ Items(d.queue)
          /\ d.reply[x] \in {"action_cancelled", "action_dispatch_failed"}
      BY <1>1, <1>3, <2>5
    <3>2. c2[x] = c[x]
      BY <1>1, <1>2, <2>5
    <3>3. x # d.sending
      BY <1>1, <1>3, <2>1, <2>5, <3>1
    <3> QED BY <2>1, <3>1, <3>2, <3>3
  <2> QED BY <2>3, <2>4, <2>5
<1>5. Placed(d, d.sending, a, c2)
  BY <1>4 DEF Placed
<1>6. Counted(c2)
  <2> SUFFICES ASSUME NEW x \in Executes
               PROVE  /\ c2[x] \in {"none", "calling"} => handled[x] = 0
                      /\ c2[x] = "resolved" => handled[x] = 1
                      /\ handled[x] <= 1 /\ performed[x] <= handled[x]
                      /\ faults = 0 => c2[x] # "rejected"
    BY DEF Counted
  <2>1. /\ c[x] \in {"none", "calling"} => handled[x] = 0
        /\ c[x] = "resolved" => handled[x] = 1
        /\ handled[x] <= 1 /\ performed[x] <= handled[x]
        /\ faults = 0 => c[x] # "rejected"
    BY DEF Counted
  <2>2. CASE new /\ x = d.sending
    <3>1. c[x] = "none"
      BY <1>3, <2>2 DEF Placed
    <3> QED BY <1>1, <1>2, <2>1, <2>2, <3>1
  <2>3. CASE ~ (new /\ x = d.sending)
    BY <1>1, <1>2, <2>1, <2>3
  <2> QED BY <2>2, <2>3
<1>7. LateRefused(d, l)
  <2> SUFFICES ASSUME NEW x \in l PROVE d.reply[x] \in {"action_cancelled", "duplicate"}
    BY DEF LateRefused
  <2>1. r.reply[x] \in {"action_cancelled", "duplicate"} /\ x \in Executes
    BY DEF LateRefused
  <2>2. x \notin Items(r.queue)
    BY <2>1 DEF Placed
  <2> QED BY <1>1, <1>3, <2>1, <2>2
<1>8. Remembered(d, ok)
  <2> SUFFICES ASSUME NEW y \in DOMAIN ok
               PROVE  /\ ok[y] <= now
                      /\ ok[y] + KeyTtl > now =>
                           KeyOf[y] \in DOMAIN d.executed /\ d.executed[KeyOf[y]] >= ok[y] + KeyTtl
    BY DEF Remembered
  <2>1. /\ ok[y] <= now
        /\ ok[y] + KeyTtl > now =>
             KeyOf[y] \in DOMAIN r.executed /\ r.executed[KeyOf[y]] >= ok[y] + KeyTtl
    BY DEF Remembered
  <2>2. ok[y] \in Nat
    BY MapsMean
  <2>3. \A k \in DOMAIN r.executed : r.executed[k] \in Nat
    BY MapsMean DEF Runtime
  <2>4. ASSUME ok[y] + KeyTtl > now PROVE KeyOf[y] \in InForce(r.executed)
    BY <2>1, <2>2, <2>3, <2>4 DEF InForce
  <2> QED BY <2>1, <2>4 DEF Serves
<1>9. ASSUME NEW x \in Executes, c[x] = "none", c2[x] = "calling"
       PROVE  KeyOf[x] \notin InForce(r.cancelled)
  BY <1>1, <1>2, <1>3, <1>9
<1> QED BY <1>2, <1>5, <1>6, <1>7, <1>8, <1>9 DEF c2

-----------------------------------------------------------------------------
(* The steps of the background                                             *)

\* What CancelHolds says of one step.
NothingCancelled ==
  \A x \in Executes :
    calls[x] = "none" /\ calls'[x] = "calling" => KeyOf[x] \notin InForce(rt.cancelled)

Good == Inv' /\ NothingCancelled

LEMMA SameOnActions ==
  ASSUME NEW r, NEW s, NEW a, NEW c, NEW c2, \A x \in Executes : c2[x] = c[x]
  PROVE  /\ Placed(r, s, a, c) => Placed(r, s, a, c2)
         /\ Counted(c) => Counted(c2)
BY DEF Placed, Counted

\* A handler of the background has brought the closure to r, and then serves the queue.
LEMMA HandlerKeeps ==
  ASSUME Inv, NEW r \in Runtime, NEW s, Serves(r, s, rt'),
         calls' \in [Requests -> CallStates],
         \A x \in Executes : calls'[x] = Called(calls, s, rt')[x],
         at' \in [Requests -> RequestStates], Placed(r, s, at', calls),
         okAt' \in Maps(Executes, Nat), Remembered(r, okAt'),
         late' \subseteq Executes, LateRefused(r, late'),
         r.cancelled = rt.cancelled \/ \A x \in Executes : calls'[x] = calls[x],
         UNCHANGED <<now, page, faults>>
  PROVE  Good
<1>1. TypeInv /\ Counted(calls) /\ now \in Nat /\ calls \in [Requests -> CallStates]
  BY DEF Inv, TypeInv
<1> DEFINE c2 == Called(calls, s, rt')
<1>2. /\ Placed(rt', rt'.sending, at', c2) /\ Counted(c2)
      /\ LateRefused(rt', late') /\ Remembered(rt', okAt')
      /\ \A x \in Executes : calls[x] = "none" /\ c2[x] = "calling"
                               => KeyOf[x] \notin InForce(r.cancelled)
  BY <1>1, ServingKeeps
<1> HIDE DEF c2
<1>3. \A x \in Executes : calls'[x] = c2[x]
  BY DEF c2
<1>4. Placed(rt', rt'.sending, at', calls') /\ Counted(calls')
  BY <1>2, <1>3, SameOnActions
<1>5. rt' \in Runtime /\ Processing(rt')
  BY DEF Serves
<1>6. /\ now' = now /\ faults' = faults /\ shown' = shown
      /\ cancelledOnPage' = cancelledOnPage /\ results' = results
      /\ handled' = handled /\ performed' = performed
  BY DEF page
<1>7. TypeInv'
  BY <1>1, <1>5, <1>6 DEF TypeInv
<1>8. Counted(calls)'
  BY <1>4, <1>6 DEF Counted
<1>9. Remembered(rt, okAt)'
  BY <1>2, <1>6 DEF Remembered
<1>10. Processing(rt)' /\ Placed(rt, rt.sending, at, calls)' /\ LateRefused(rt, late)'
  BY <1>2, <1>4, <1>5 DEF Processing, Placed, LateRefused
<1>11. NothingCancelled
  BY <1>2, <1>3 DEF NothingCancelled
<1> QED BY <1>7, <1>8, <1>9, <1>10, <1>11 DEF Good, Inv

LEMMA Standing ==
  ASSUME NEW r \in Runtime, Processing(r)
  PROVE  Serves(r, r.sending, r) /\ \A c : Called(c, r.sending, r) = c
BY DEF Serves, Called, InForce

\* A handler that sends nothing.
LEMMA QuietKeeps ==
  ASSUME Inv, rt' \in Runtime, Processing(rt'),
         calls' \in [Requests -> CallStates], \A x \in Executes : calls'[x] = calls[x],
         at' \in [Requests -> RequestStates], Placed(rt', rt'.sending, at', calls),
         okAt' \in Maps(Executes, Nat), Remembered(rt', okAt'),
         late' \subseteq Executes, LateRefused(rt', late'),
         UNCHANGED <<now, page, faults>>
  PROVE  Good
<1> DEFINE r == rt'
<1>1. Serves(r, r.sending, rt') /\ \A x \in Executes : calls'[x] = Called(calls, r.sending, rt')[x]
  BY Standing
<1>2. /\ r \in Runtime /\ Placed(r, r.sending, at', calls) /\ Remembered(r, okAt')
      /\ LateRefused(r, late')
  OBVIOUS
<1> HIDE DEF r
<1> QED BY <1>1, <1>2, HandlerKeeps

\* After cleanupExpiredEntries everything is as it was, with fewer requests queued.
LEMMA CleanKeeps ==
  ASSUME Inv
  PROVE  /\ Clean(rt) \in Runtime /\ Processing(Clean(rt)) /\ Clean(rt).sending = rt.sending
         /\ Serves(rt, rt.sending, Clean(rt))
         /\ Placed(Clean(rt), rt.sending, at, calls)
         /\ LateRefused(Clean(rt), late) /\ Remembered(Clean(rt), okAt)
<1> DEFINE d == Clean(rt)
<1>1. /\ rt \in Runtime /\ Processing(rt) /\ now \in Nat /\ calls \in [Requests -> CallStates]
      /\ Placed(rt, rt.sending, at, calls) /\ Counted(calls) /\ late \subseteq Executes
      /\ LateRefused(rt, late) /\ okAt \in Maps(Executes, Nat) /\ Remembered(rt, okAt)
  BY DEF Inv, TypeInv
<1>2. Serves(rt, rt.sending, d) /\ d.sending = rt.sending
  BY <1>1, CleanServes
<1> HIDE DEF d
<1>3. Called(calls, rt.sending, d) = calls
  BY <1>2 DEF Called
<1>4. /\ Placed(d, d.sending, at, calls)
      /\ LateRefused(d, late) /\ Remembered(d, okAt)
  BY <1>1, <1>2, <1>3, ServingKeeps
<1>5. d \in Runtime /\ Processing(d)
  BY <1>2 DEF Serves
<1> QED BY <1>2, <1>4, <1>5 DEF d

LEMMA ReceiveExecuteKeeps ==
  ASSUME Inv, NEW x \in Executes, ReceiveExecute(x) PROVE Good
<1> USE DispatchAssumption
<1> DEFINE c == Clean(rt)
<1>1. /\ c \in Runtime /\ Processing(c) /\ c.sending = rt.sending
      /\ Placed(c, rt.sending, at, calls)
      /\ LateRefused(c, late) /\ Remembered(c, okAt)
  BY CleanKeeps
<1>2. Serves(rt, rt.sending, c)
  BY CleanKeeps
<1>3. /\ at[x] = "new" /\ calls' = calls /\ UNCHANGED <<now, page, faults, okAt>>
      /\ late' = late \cup {x : y \in {y \in DOMAIN okAt : KeyOf[y] = KeyOf[x]
                                                          /\ okAt[y] + KeyTtl > now}}
      /\ \/ /\ KeyOf[x] \in DOMAIN c.cancelled
            /\ rt' = Reply(c, {x}, "action_cancelled") /\ Waiting(x)
         \/ /\ KeyOf[x] \in DOMAIN c.executed \ DOMAIN c.cancelled
            /\ rt' = Reply(c, {x}, "duplicate") /\ Waiting(x)
         \/ /\ KeyOf[x] \notin DOMAIN c.cancelled \cup DOMAIN c.executed
            /\ rt' = c /\ at' = [at EXCEPT ![x] = "url"]
  BY DEF ReceiveExecute
<1> HIDE DEF c
<1>4. /\ x \in Requests /\ Executes \subseteq Requests /\ TypeInv
      /\ at \in [Requests -> RequestStates] /\ calls \in [Requests -> CallStates]
  BY DEF Inv, TypeInv, Requests
<1>5. calls[x] = "none" /\ c.reply[x] = "none" /\ x \notin Items(c.queue) /\ x # rt.sending
  BY <1>1, <1>3 DEF Placed
<1>6. x \notin late
  BY <1>1, <1>5 DEF LateRefused
<1>7. late' \subseteq late \cup {x}
  BY <1>3
<1>8. x \in late' => KeyOf[x] \in DOMAIN c.executed
  BY <1>1, <1>3, <1>6 DEF Remembered
<1>9. ASSUME rt'.reply[x] # "none" => rt'.reply[x] \in {"action_cancelled", "duplicate"},
             \A y \in Executes : y # x => rt'.reply[y] = c.reply[y],
             rt' \in Runtime, SameButReply(c, rt'), at' \in [Requests -> RequestStates],
             at'[x] # "waiting" => rt'.reply[x] = "none",
             \A y \in Executes : y # x => at'[y] = at[y],
             x \in late' => rt'.reply[x] # "none"
      PROVE  Good
  <2>1. Placed(rt', rt'.sending, at', calls)
    <3> SUFFICES ASSUME NEW y \in Executes
                 PROVE  /\ at'[y] # "waiting" =>
                             /\ calls[y] = "none" /\ rt'.reply[y] = "none"
                             /\ y \notin Items(rt'.queue) /\ y # rt'.sending
                        /\ y \in Items(rt'.queue) =>
                             calls[y] = "none" /\ rt'.reply[y] = "none" /\ y # rt'.sending
                        /\ y = rt'.sending => calls[y] # "none" /\ rt'.reply[y] = "none"
                        /\ rt'.reply[y] = "ok" => calls[y] = "resolved"
                        /\ rt'.reply[y] \in Refusals => calls[y] = "none"
                        /\ rt'.reply[y] = "action_dispatch_failed"
                             => calls[y] \in {"none", "rejected"}
      BY DEF Placed
    <3>1. rt'.queue = c.queue /\ rt'.sending = rt.sending
      BY <1>1, <1>9 DEF SameButReply
    <3>2. CASE y = x
      BY <1>5, <1>9, <3>1, <3>2
    <3>3. CASE y # x
      <4>1. rt'.reply[y] = c.reply[y] /\ at'[y] = at[y]
        BY <1>9, <3>3
      <4> QED BY <1>1, <3>1, <4>1 DEF Placed
    <3> QED BY <3>2, <3>3
  <2>2. LateRefused(rt', late')
    <3> SUFFICES ASSUME NEW y \in late' PROVE rt'.reply[y] \in {"action_cancelled", "duplicate"}
      BY DEF LateRefused
    <3>1. CASE y = x
      BY <1>9, <3>1
    <3>2. CASE y # x
      BY <1>1, <1>4, <1>7, <1>9, <3>2 DEF LateRefused, TypeInv
    <3> QED BY <3>1, <3>2
  <2>3. Remembered(rt', okAt) /\ Processing(rt')
    BY <1>1, <1>9 DEF SameButReply, Remembered, Processing
  <2>4. late' \subseteq Executes /\ okAt' = okAt /\ okAt \in Maps(Executes, Nat)
    BY <1>3, <1>4, <1>7 DEF TypeInv
  <2>5. okAt' \in Maps(Executes, Nat) /\ Remembered(rt', okAt')
    BY <2>3, <2>4
  <2> QED BY <1>3, <1>4, <1>9, <2>1, <2>2, <2>3, <2>4, <2>5, QuietKeeps
<1>10. \A status \in RequestStates :
         at' = [at EXCEPT ![x] = status]
           => /\ at' \in [Requests -> RequestStates] /\ at'[x] = status
              /\ \A y \in Executes : y # x => at'[y] = at[y]
  BY <1>4
<1>11. "waiting" \in RequestStates /\ "url" \in RequestStates
  BY DEF RequestStates
<1>12. ASSUME NEW answer \in {"action_cancelled", "duplicate"}, rt' = Reply(c, {x}, answer),
              Waiting(x)
       PROVE  Good
  <2>1. answer \in Answers /\ answer # "none"
    BY DEF Answers
  <2>2. /\ rt' \in Runtime /\ SameButReply(c, rt') /\ rt'.reply[x] = answer
        /\ \A y \in Executes : y # x => rt'.reply[y] = c.reply[y]
    BY <1>1, <1>4, <1>12, <2>1, ReplyMeans
  <2>3. /\ at' \in [Requests -> RequestStates] /\ at'[x] = "waiting"
        /\ \A y \in Executes : y # x => at'[y] = at[y]
    BY <1>10, <1>11, <1>12 DEF Waiting
  <2> QED BY <1>9, <2>1, <2>2, <2>3
<1>13. ASSUME KeyOf[x] \notin DOMAIN c.cancelled \cup DOMAIN c.executed, rt' = c,
              at' = [at EXCEPT ![x] = "url"]
       PROVE  Good
  <2>1. /\ rt' \in Runtime /\ SameButReply(c, rt') /\ rt'.reply[x] = "none"
        /\ \A y \in Executes : y # x => rt'.reply[y] = c.reply[y]
    BY <1>1, <1>5, <1>13 DEF SameButReply
  <2>2. /\ at' \in [Requests -> RequestStates]
        /\ \A y \in Executes : y # x => at'[y] = at[y]
    BY <1>10, <1>11, <1>13
  <2>3. x \notin late'
    BY <1>8, <1>13
  <2> QED BY <1>9, <2>1, <2>2, <2>3
<1> QED BY <1>3, <1>12, <1>13

LEMMA UrlKnownKeeps ==
  ASSUME Inv, NEW x \in Executes, UrlKnown(x) PROVE Good
<1> USE DispatchAssumption
<1>1. /\ at[x] = "url" /\ Waiting(x) /\ UNCHANGED <<now, page, faults, okAt, late>> /\ Calling
      /\ \/ rt' = Reply(rt, {x}, "refused")
         \/ rt' = Reply(rt, {x}, "action_queue_full")
         \/ rt' = Kick([rt EXCEPT !.queue = Append(@, [request |-> x, queuedAt |-> now])])
  BY DEF UrlKnown
<1>2. /\ rt \in Runtime /\ Processing(rt) /\ now \in Nat /\ Executes \subseteq Requests
      /\ Placed(rt, rt.sending, at, calls) /\ LateRefused(rt, late) /\ Remembered(rt, okAt)
      /\ okAt \in Maps(Executes, Nat) /\ late \subseteq Executes
      /\ at \in [Requests -> RequestStates] /\ calls \in [Requests -> CallStates]
  BY DEF Inv, TypeInv, Requests
<1>3. calls[x] = "none" /\ rt.reply[x] = "none" /\ x \notin Items(rt.queue) /\ x # rt.sending
  BY <1>1, <1>2 DEF Placed
<1>4. /\ at' \in [Requests -> RequestStates] /\ at'[x] = "waiting"
      /\ \A y \in Executes : y # x => at'[y] = at[y]
  BY <1>1, <1>2 DEF Waiting, RequestStates
<1>5. okAt' = okAt /\ late' = late
  BY <1>1
<1>6. x \notin late
  BY <1>2, <1>3 DEF LateRefused
<1>7. ASSUME NEW answer \in {"refused", "action_queue_full"}, rt' = Reply(rt, {x}, answer)
      PROVE  Good
  <2>1. answer \in Answers /\ answer \in Refusals
    BY DEF Answers, Refusals
  <2>2. /\ rt' \in Runtime /\ SameButReply(rt, rt') /\ rt'.reply[x] = answer
        /\ \A y \in Executes : y # x => rt'.reply[y] = rt.reply[y]
    BY <1>2, <1>7, <2>1, ReplyMeans
  <2>3. rt'.queue = rt.queue /\ rt'.sending = rt.sending
    BY <2>2 DEF SameButReply
  <2>4. calls' = calls
    BY <1>1, <2>3 DEF Calling
  <2>5. ASSUME NEW y \in Executes
        PROVE  /\ at'[y] # "waiting" =>
                    /\ calls[y] = "none" /\ rt'.reply[y] = "none"
                    /\ y \notin Items(rt'.queue) /\ y # rt'.sending
               /\ y \in Items(rt'.queue) =>
                    calls[y] = "none" /\ rt'.reply[y] = "none" /\ y # rt'.sending
               /\ y = rt'.sending => calls[y] # "none" /\ rt'.reply[y] = "none"
               /\ rt'.reply[y] = "ok" => calls[y] = "resolved"
               /\ rt'.reply[y] \in Refusals => calls[y] = "none"
               /\ rt'.reply[y] = "action_dispatch_failed" => calls[y] \in {"none", "rejected"}
    <3>1. CASE y = x
      BY <1>3, <1>4, <2>2, <2>3, <3>1
    <3>2. CASE y # x
      <4>1. rt'.reply[y] = rt.reply[y] /\ at'[y] = at[y]
        BY <1>4, <2>2, <3>2
      <4> QED BY <1>2, <2>3, <4>1 DEF Placed
    <3> QED BY <3>1, <3>2
  <2>6. Placed(rt', rt'.sending, at', calls)
    BY <2>5 DEF Placed
  <2>7. LateRefused(rt', late')
    BY <1>2, <1>5, <1>6, <2>2 DEF LateRefused
  <2>8. Remembered(rt', okAt') /\ Processing(rt')
    BY <1>2, <1>5, <2>2 DEF SameButReply, Remembered, Processing
  <2>9. okAt' \in Maps(Executes, Nat) /\ late' \subseteq Executes
    BY <1>2, <1>5
  <2> QED BY <1>1, <1>2, <1>4, <2>2, <2>4, <2>6, <2>7, <2>8, <2>9, QuietKeeps
<1>8. ASSUME rt' = Kick([rt EXCEPT !.queue = Append(@, [request |-> x, queuedAt |-> now])])
      PROVE  Good
  <2> DEFINE item == [request |-> x, queuedAt |-> now]
             q == Append(rt.queue, item)
             r == [rt EXCEPT !.queue = q]
  <2>1. rt.queue \in Seq(Item) /\ Distinct(rt.queue) /\ item \in Item /\ item.request = x
    BY <1>2 DEF Runtime, Processing, Item
  <2>2. rt' = Kick(r)
    BY <1>8
  <2> HIDE DEF item
  <2>3. q \in Seq(Item) /\ Distinct(q) /\ Items(q) = Items(rt.queue) \cup {x}
    BY <1>3, <2>1, AppendItem
  <2> HIDE DEF q
  <2>4. /\ r \in Runtime /\ r.queue = q /\ r.sending = rt.sending /\ r.processing = rt.processing
        /\ r.reply = rt.reply /\ r.executed = rt.executed /\ r.cancelled = rt.cancelled
    BY <1>2, <2>3 DEF Runtime
  <2> HIDE DEF r
  <2>5. Processing(r)
    BY <1>2, <2>3, <2>4 DEF Processing
  <2>6. Serves(r, rt.sending, rt')
    BY <1>2, <2>2, <2>4, <2>5, KickServes
  <2>7. Placed(r, rt.sending, at', calls)
    <3> SUFFICES ASSUME NEW y \in Executes
                 PROVE  /\ at'[y] # "waiting" =>
                             /\ calls[y] = "none" /\ r.reply[y] = "none"
                             /\ y \notin Items(r.queue) /\ y # rt.sending
                        /\ y \in Items(r.queue) =>
                             calls[y] = "none" /\ r.reply[y] = "none" /\ y # rt.sending
                        /\ y = rt.sending => calls[y] # "none" /\ r.reply[y] = "none"
                        /\ r.reply[y] = "ok" => calls[y] = "resolved"
                        /\ r.reply[y] \in Refusals => calls[y] = "none"
                        /\ r.reply[y] = "action_dispatch_failed" => calls[y] \in {"none", "rejected"}
      BY DEF Placed
    <3>1. CASE y = x
      <4>1. "none" \notin Refusals
        BY DEF Refusals
      <4> QED BY <1>3, <1>4, <2>4, <3>1, <4>1
    <3>2. CASE y # x
      <4>1. at'[y] = at[y] /\ (y \in Items(r.queue) <=> y \in Items(rt.queue))
        BY <1>4, <2>3, <2>4, <3>2
      <4> QED BY <1>2, <2>4, <4>1 DEF Placed
    <3> QED BY <3>1, <3>2
  <2>8. LateRefused(r, late') /\ Remembered(r, okAt')
    BY <1>2, <1>5, <2>4 DEF LateRefused, Remembered
  <2>9. calls' = Called(calls, rt.sending, rt')
    BY <1>1 DEF Calling, Called
  <2>10. calls' \in [Requests -> CallStates]
    <3>1. rt' \in Runtime
      BY <2>6 DEF Serves
    <3> QED BY <1>1, <1>2 DEF Calling, CallStates
  <2>11. okAt' \in Maps(Executes, Nat) /\ late' \subseteq Executes
    BY <1>2, <1>5
  <2> QED BY <1>1, <1>4, <2>4, <2>6, <2>7, <2>8, <2>9, <2>10, <2>11, HandlerKeeps
<1> QED BY <1>1, <1>7, <1>8

\* Answering cancelled requests out of the queue is one way to serve it.
LEMMA UncancelledServes ==
  ASSUME NEW r \in Runtime, Processing(r), NEW key \in Keys, NEW time \in Nat, NEW d,
         d = Reply([r EXCEPT !.cancelled = Put(@, key, time), !.queue = Uncancelled(r.queue, key)],
                   Items(r.queue) \ Items(Uncancelled(r.queue, key)), "action_cancelled")
  PROVE  Serves(r, r.sending, d) /\ d.sending = r.sending
<1> DEFINE places == {i \in DOMAIN r.queue : KeyOf[r.queue[i].request] # key}
           q == Filter(r.queue, places)
           m == Put(r.cancelled, key, time)
           e == [r EXCEPT !.cancelled = m, !.queue = q]
           gone == Items(r.queue) \ Items(q)
<1>1. r.queue \in Seq(Item) /\ Distinct(r.queue) /\ r.cancelled \in Maps(Keys, Nat)
  BY DEF Runtime, Processing
<1>2. Uncancelled(r.queue, key) = q
  BY DEF Uncancelled
<1>3. d = Reply(e, gone, "action_cancelled")
  BY <1>2
<1>4. places \subseteq DOMAIN r.queue
  OBVIOUS
<1> HIDE DEF places
<1>5. q \in Seq(Item) /\ Distinct(q) /\ Items(q) = {r.queue[i].request : i \in places}
  BY <1>1, <1>4, FilterItems
<1> HIDE DEF q
<1>6. Items(q) \subseteq Items(r.queue)
  BY <1>4, <1>5 DEF Items
<1>7. m \in Maps(Keys, Nat)
  BY <1>1, PutMeans
<1> HIDE DEF m
<1>8. /\ e \in Runtime /\ e.queue = q /\ e.processing = r.processing /\ e.sending = r.sending
      /\ e.reply = r.reply /\ e.executed = r.executed
  BY <1>5, <1>7 DEF Runtime
<1> HIDE DEF e
<1>9. "action_cancelled" \in Answers
  BY DEF Answers
<1> HIDE DEF gone
<1>10. /\ d \in Runtime /\ SameButReply(e, d)
       /\ \A x \in Requests : d.reply[x] = IF x \in gone THEN "action_cancelled" ELSE e.reply[x]
  <2> DEFINE a == "action_cancelled"
  <2>1. /\ Reply(e, gone, a) \in Runtime /\ SameButReply(e, Reply(e, gone, a))
        /\ \A x \in Requests :
             Reply(e, gone, a).reply[x] = IF x \in gone THEN a ELSE e.reply[x]
    BY <1>8, <1>9, ReplyMeans
  <2> QED BY <1>3, <2>1
<1>11. /\ d.queue = q /\ d.processing = r.processing /\ d.sending = r.sending
       /\ d.executed = r.executed
  BY <1>8, <1>10 DEF SameButReply
<1>12. Processing(d)
  BY <1>5, <1>11 DEF Processing
<1> QED BY <1>6, <1>8, <1>10, <1>11, <1>12 DEF Serves, InForce, gone

LEMMA ReceiveCancelKeeps ==
  ASSUME Inv, NEW x \in Cancels, ReceiveCancel(x) PROVE Good
<1> USE DispatchAssumption
<1> DEFINE c == Clean(rt)
<1>1. /\ c \in Runtime /\ Processing(c) /\ c.sending = rt.sending
      /\ Placed(c, rt.sending, at, calls)
      /\ LateRefused(c, late) /\ Remembered(c, okAt)
  BY CleanKeeps
<1>2. /\ Waiting(x) /\ calls' = [calls EXCEPT ![x] = "calling"]
      /\ rt' = Reply([c EXCEPT !.cancelled = Put(@, KeyOf[x], now + KeyTtl),
                               !.queue = Uncancelled(c.queue, KeyOf[x])],
                     Items(c.queue) \ Items(Uncancelled(c.queue, KeyOf[x])), "action_cancelled")
      /\ UNCHANGED <<now, page, faults, okAt, late>>
  BY DEF ReceiveCancel
<1> HIDE DEF c
<1>3. /\ x \in Requests /\ x \notin Executes /\ now \in Nat /\ Executes \subseteq Requests
      /\ at \in [Requests -> RequestStates] /\ calls \in [Requests -> CallStates]
      /\ okAt' \in Maps(Executes, Nat) /\ late' \subseteq Executes /\ okAt' = okAt /\ late' = late
      /\ KeyOf[x] \in Keys /\ now + KeyTtl \in Nat
  BY <1>2 DEF Inv, TypeInv, Requests
<1>4. Serves(c, rt.sending, rt') /\ rt'.sending = rt.sending
  <2> DEFINE key == KeyOf[x]
             time == now + KeyTtl
             d == Reply([c EXCEPT !.cancelled = Put(@, key, time),
                                  !.queue = Uncancelled(c.queue, key)],
                        Items(c.queue) \ Items(Uncancelled(c.queue, key)), "action_cancelled")
  <2>1. key \in Keys /\ time \in Nat /\ rt' = d
    BY <1>2, <1>3
  <2> HIDE DEF key, time
  <2>2. Serves(c, c.sending, d) /\ d.sending = c.sending
    BY <1>1, <2>1, UncancelledServes
  <2> HIDE DEF d
  <2> QED BY <1>1, <2>1, <2>2
<1>5. /\ at' \in [Requests -> RequestStates] /\ \A y \in Executes : at'[y] = at[y]
      /\ calls' \in [Requests -> CallStates] /\ \A y \in Executes : calls'[y] = calls[y]
  BY <1>2, <1>3 DEF Waiting, RequestStates, CallStates
<1>6. Called(calls, rt.sending, rt') = calls
  BY <1>4 DEF Called
<1>7. Placed(c, rt.sending, at', calls)
  BY <1>1, <1>5 DEF Placed
<1>8. /\ \A y \in Executes : calls'[y] = Called(calls, rt.sending, rt')[y]
      /\ \A y \in Executes : calls'[y] = calls[y]
  BY <1>5, <1>6
<1>9. Remembered(c, okAt') /\ LateRefused(c, late') /\ UNCHANGED <<now, page, faults>>
  <2>1. Remembered(c, okAt')
    BY Zenon, <1>1, <1>3
  <2>2. LateRefused(c, late')
    BY Zenon, <1>1, <1>3
  <2> QED BY <1>2, <2>1, <2>2
<1>10. c \in Runtime /\ Serves(c, rt.sending, rt') /\ calls' \in [Requests -> CallStates]
  BY <1>1, <1>4, <1>5
<1> QED BY <1>3, <1>5, <1>7, <1>8, <1>9, <1>10, HandlerKeeps

LEMMA ReceiveSnapshotKeeps ==
  ASSUME Inv, NEW x \in Snapshots, ReceiveSnapshot(x) PROVE Good
<1> USE DispatchAssumption
<1>1. /\ Clean(rt) \in Runtime /\ Processing(Clean(rt)) /\ Clean(rt).sending = rt.sending
      /\ Placed(Clean(rt), rt.sending, at, calls)
      /\ LateRefused(Clean(rt), late) /\ Remembered(Clean(rt), okAt)
  BY CleanKeeps
<1>2. /\ Waiting(x) /\ calls' = [calls EXCEPT ![x] = "calling"] /\ rt' = Clean(rt)
      /\ UNCHANGED <<now, page, faults, okAt, late>>
  BY DEF ReceiveSnapshot
<1>3. /\ x \in Requests /\ x \notin Executes /\ Executes \subseteq Requests
      /\ at \in [Requests -> RequestStates] /\ calls \in [Requests -> CallStates]
      /\ okAt' \in Maps(Executes, Nat) /\ late' \subseteq Executes /\ okAt' = okAt /\ late' = late
  BY <1>2 DEF Inv, TypeInv, Requests
<1>4. /\ at' \in [Requests -> RequestStates] /\ \A y \in Executes : at'[y] = at[y]
      /\ calls' \in [Requests -> CallStates] /\ \A y \in Executes : calls'[y] = calls[y]
  BY <1>2, <1>3 DEF Waiting, RequestStates, CallStates
<1>5. Placed(rt', rt'.sending, at', calls)
  BY <1>1, <1>2, <1>4 DEF Placed
<1> QED BY <1>1, <1>2, <1>3, <1>4, <1>5, QuietKeeps

LEMMA ExpectMeans ==
  ASSUME NEW r \in Runtime, NEW x \in Executes \cup Snapshots, now \in Nat
  PROVE  /\ Expect(r, x) \in Runtime
         /\ Expect(r, x).queue = r.queue /\ Expect(r, x).processing = r.processing
         /\ Expect(r, x).sending = r.sending /\ Expect(r, x).reply = r.reply
         /\ Expect(r, x).executed = r.executed /\ Expect(r, x).cancelled = r.cancelled
<1> USE DispatchAssumption
<1> DEFINE p == Put(r.pending, x, now)
           f == IF x \in Executes THEN Put(r.inFlight, x, KeyOf[x]) ELSE r.inFlight
           d == [r EXCEPT !.pending = p, !.inFlight = f]
<1>1. r.pending \in Maps(Executes \cup Snapshots, Nat) /\ r.inFlight \in Maps(Executes, Keys)
  BY DEF Runtime
<1>2. p \in Maps(Executes \cup Snapshots, Nat)
  BY <1>1, PutMeans
<1>3. f \in Maps(Executes, Keys)
  <2>1. CASE x \in Executes
    <3> DEFINE k == KeyOf[x]
    <3>1. k \in Keys
      BY <2>1
    <3> HIDE DEF k
    <3>2. Put(r.inFlight, x, k) \in Maps(Executes, Keys)
      BY <1>1, <2>1, <3>1, PutMeans
    <3> QED BY <2>1, <3>2 DEF k
  <2>2. CASE x \notin Executes
    BY <1>1, <2>2
  <2> QED BY <2>1, <2>2
<1>4. Expect(r, x) = d
  BY DEF Expect
<1> HIDE DEF p, f
<1> QED BY <1>2, <1>3, <1>4 DEF Runtime

\* The answer to the request that was being sent, in a place that its call justifies.
LEMMA AnswerSent ==
  ASSUME NEW r \in Runtime, NEW x \in Executes, NEW r2, NEW answer, NEW a, NEW c,
         Placed(r, x, a, c), r2.queue = r.queue, r2.reply[x] = answer,
         \A y \in Executes : y # x => r2.reply[y] = r.reply[y],
         \/ answer = "ok" /\ c[x] = "resolved"
         \/ answer = "action_dispatch_failed" /\ c[x] = "rejected"
  PROVE  Placed(r2, None, a, c)
<1> USE DispatchAssumption
<1>1. Executes \subseteq Requests /\ None \notin Executes
  BY DEF Requests
<1> SUFFICES ASSUME NEW y \in Executes
             PROVE  /\ a[y] # "waiting" =>
                         /\ c[y] = "none" /\ r2.reply[y] = "none"
                         /\ y \notin Items(r2.queue) /\ y # None
                    /\ y \in Items(r2.queue) =>
                         c[y] = "none" /\ r2.reply[y] = "none" /\ y # None
                    /\ y = None => c[y] # "none" /\ r2.reply[y] = "none"
                    /\ r2.reply[y] = "ok" => c[y] = "resolved"
                    /\ r2.reply[y] \in Refusals => c[y] = "none"
                    /\ r2.reply[y] = "action_dispatch_failed" => c[y] \in {"none", "rejected"}
  BY DEF Placed
<1>2. CASE y = x
  <2>1. answer \notin Refusals
    BY DEF Refusals
  <2>2. c[x] # "none" /\ a[x] = "waiting" /\ x \notin Items(r.queue)
    BY DEF Placed
  <2> QED BY <1>1, <1>2, <2>1, <2>2
<1>3. CASE y # x
  BY <1>1, <1>3 DEF Placed
<1> QED BY <1>2, <1>3

LEMMA ProcessorResumesKeeps ==
  ASSUME Inv, NEW x \in Executes, ProcessorResumes(x) PROVE Good
<1> USE DispatchAssumption
<1>1. /\ rt.sending = x /\ Calling /\ UNCHANGED <<at, now, page, faults, late>>
      /\ \/ calls[x] = "resolved" /\ rt' = AfterDispatch(rt, x) /\ okAt' = Put(okAt, x, now)
         \/ calls[x] = "rejected" /\ rt' = AfterFailure(rt, x) /\ okAt' = okAt
  BY DEF ProcessorResumes
<1>2. /\ rt \in Runtime /\ Processing(rt) /\ now \in Nat /\ Executes \subseteq Requests
      /\ None \notin Executes
      /\ Placed(rt, x, at, calls) /\ LateRefused(rt, late) /\ Remembered(rt, okAt)
      /\ okAt \in Maps(Executes, Nat) /\ late \subseteq Executes
      /\ at \in [Requests -> RequestStates] /\ calls \in [Requests -> CallStates]
  BY <1>1 DEF Inv, TypeInv, Requests
<1>3. rt.reply[x] = "none" /\ x \notin Items(rt.queue)
  BY <1>2 DEF Placed
<1>4. x \notin late
  BY <1>2, <1>3 DEF LateRefused
<1>5. ASSUME NEW r \in Runtime, rt' = TakeNext(r), r.queue = rt.queue,
             \A y \in Executes : y # x => r.reply[y] = rt.reply[y],
             r.cancelled = rt.cancelled, Placed(r, None, at, calls),
             okAt' \in Maps(Executes, Nat), Remembered(r, okAt')
      PROVE  Good
  <2>1. Processing(rt) /\ Distinct(r.queue)
    BY <1>2, <1>5 DEF Processing
  <2>2. Advanced(r, rt')
    BY <1>2, <1>5, <2>1, TakeNextMeans
  <2>3. Serves(r, None, rt')
    BY <2>2, AdvancedServes
  <2>4. rt'.sending # x
    BY <1>2, <1>3, <1>5, <2>2 DEF Advanced
  <2>5. calls' = Called(calls, None, rt')
    BY <1>1, <2>4 DEF Calling, Called
  <2>6. calls' \in [Requests -> CallStates]
    <3>1. rt' \in Runtime
      BY <2>3 DEF Serves
    <3> QED BY <1>1, <1>2 DEF Calling, CallStates
  <2>7. LateRefused(r, late')
    BY <1>1, <1>2, <1>4, <1>5 DEF LateRefused
  <2>8. at' \in [Requests -> RequestStates] /\ Placed(r, None, at', calls)
    BY <1>1, <1>2, <1>5
  <2>9. late' \subseteq Executes
    BY <1>1, <1>2
  <2> QED BY <1>1, <1>5, <2>3, <2>5, <2>6, <2>7, <2>8, <2>9, HandlerKeeps
<1>6. ASSUME calls[x] = "resolved", rt' = AfterDispatch(rt, x), okAt' = Put(okAt, x, now)
      PROVE  Good
  <2> DEFINE m == Put(rt.executed, KeyOf[x], now + KeyTtl)
             r1 == [rt EXCEPT !.executed = m]
             r2 == Expect(r1, x)
             r == Reply(r2, {x}, "ok")
  <2>1. /\ rt.executed \in Maps(Keys, Nat) /\ KeyOf[x] \in Keys /\ now + KeyTtl \in Nat
        /\ "ok" \in Answers
    BY <1>2 DEF Runtime, Answers
  <2>2. /\ m \in Maps(Keys, Nat) /\ DOMAIN m = DOMAIN rt.executed \cup {KeyOf[x]}
        /\ m[KeyOf[x]] = now + KeyTtl
        /\ \A k \in DOMAIN rt.executed : k # KeyOf[x] => m[k] = rt.executed[k]
    <3> DEFINE key == KeyOf[x]
               time == now + KeyTtl
               old == rt.executed
    <3> HIDE DEF key, time, old
    <3>1. old \in Maps(Keys, Nat) /\ key \in Keys /\ time \in Nat
      BY <2>1 DEF key, time, old
    <3>2. Put(old, key, time) \in Maps(Keys, Nat)
      BY ZenonT(30), <3>1, PutMeans
    <3>3. /\ DOMAIN Put(old, key, time) = DOMAIN old \cup {key}
          /\ Put(old, key, time)[key] = time
          /\ \A k \in DOMAIN old : k # key => Put(old, key, time)[k] = old[k]
      BY DEF Put
    <3> QED BY <3>2, <3>3 DEF key, time, old
  <2>3. rt' = TakeNext(r)
    BY <1>6 DEF AfterDispatch
  <2> HIDE DEF m
  <2>4. /\ r1 \in Runtime /\ r1.queue = rt.queue /\ r1.reply = rt.reply
        /\ r1.cancelled = rt.cancelled /\ r1.executed = m
    BY <1>2, <2>2 DEF Runtime
  <2> HIDE DEF r1
  <2>5. /\ r2 \in Runtime /\ r2.queue = rt.queue /\ r2.reply = rt.reply
        /\ r2.cancelled = rt.cancelled /\ r2.executed = m
    BY <1>2, <2>4, ExpectMeans
  <2> HIDE DEF r2
  <2>6. /\ r \in Runtime /\ SameButReply(r2, r)
        /\ \A y \in Requests : r.reply[y] = IF y \in {x} THEN "ok" ELSE r2.reply[y]
    BY <2>1, <2>5, ReplyMeans
  <2> HIDE DEF r
  <2>7. /\ r.queue = rt.queue /\ r.cancelled = rt.cancelled /\ r.executed = m
        /\ r.reply[x] = "ok" /\ \A y \in Executes : y # x => r.reply[y] = rt.reply[y]
    BY <1>2, <2>5, <2>6 DEF SameButReply
  <2>8. Placed(r, None, at, calls)
    BY <1>2, <1>6, <2>7, AnswerSent
  <2>9. /\ okAt' \in Maps(Executes, Nat) /\ DOMAIN okAt' = DOMAIN okAt \cup {x}
        /\ okAt'[x] = now /\ \A y \in DOMAIN okAt : y # x => okAt'[y] = okAt[y]
    <3>1. Put(okAt, x, now) \in Maps(Executes, Nat)
      BY ZenonT(30), <1>2, PutMeans
    <3>2. /\ DOMAIN Put(okAt, x, now) = DOMAIN okAt \cup {x} /\ Put(okAt, x, now)[x] = now
          /\ \A y \in DOMAIN okAt : y # x => Put(okAt, x, now)[y] = okAt[y]
      BY DEF Put
    <3> QED BY Zenon, <1>6, <3>1, <3>2
  <2>10. Remembered(r, okAt')
    <3> SUFFICES ASSUME NEW y \in DOMAIN okAt'
                 PROVE  /\ okAt'[y] <= now
                        /\ okAt'[y] + KeyTtl > now =>
                             KeyOf[y] \in DOMAIN m /\ m[KeyOf[y]] >= okAt'[y] + KeyTtl
      BY <2>7 DEF Remembered
    <3>1. CASE y = x
      BY <1>2, <2>2, <2>9, <3>1
    <3>2. CASE y # x
      <4>1. y \in DOMAIN okAt /\ okAt'[y] = okAt[y] /\ okAt[y] \in Nat
        BY <1>2, <2>9, <3>2, MapsMean
      <4>2. /\ okAt[y] <= now
            /\ okAt[y] + KeyTtl > now => KeyOf[y] \in DOMAIN rt.executed
                                         /\ rt.executed[KeyOf[y]] >= okAt[y] + KeyTtl
        BY <1>2, <4>1 DEF Remembered
      <4>3. CASE KeyOf[y] = KeyOf[x]
        <5>1. now + KeyTtl >= okAt[y] + KeyTtl
          BY <1>2, <4>1, <4>2
        <5> QED BY <2>2, <4>1, <4>2, <4>3, <5>1
      <4>4. CASE KeyOf[y] # KeyOf[x]
        BY <2>2, <4>1, <4>2, <4>4
      <4> QED BY <4>3, <4>4
    <3> QED BY <3>1, <3>2
  <2> QED BY <1>5, <2>3, <2>6, <2>7, <2>8, <2>9, <2>10
<1>7. ASSUME calls[x] = "rejected", rt' = AfterFailure(rt, x), okAt' = okAt
      PROVE  Good
  <2> DEFINE failed == "action_dispatch_failed"
             r == Reply(rt, {x}, failed)
  <2>1. failed \in Answers
    BY DEF Answers
  <2>2. rt' = TakeNext(r)
    BY <1>7 DEF AfterFailure
  <2>3. /\ r \in Runtime /\ SameButReply(rt, r)
        /\ \A y \in Requests : r.reply[y] = IF y \in {x} THEN failed ELSE rt.reply[y]
    BY <1>2, <2>1, ReplyMeans
  <2> HIDE DEF r
  <2>4. /\ r.queue = rt.queue /\ r.cancelled = rt.cancelled /\ r.executed = rt.executed
        /\ r.reply[x] = failed /\ \A y \in Executes : y # x => r.reply[y] = rt.reply[y]
    BY <1>2, <2>3 DEF SameButReply
  <2>5. Placed(r, None, at, calls)
    BY <1>2, <1>7, <2>4, AnswerSent
  <2>6. okAt' \in Maps(Executes, Nat) /\ Remembered(r, okAt')
    BY <1>2, <1>7, <2>4 DEF Remembered
  <2> QED BY <1>5, <2>2, <2>3, <2>4, <2>5, <2>6
<1> QED BY <1>1, <1>6, <1>7

LEMMA HandlerResumesKeeps ==
  ASSUME Inv, NEW x \in Requests, HandlerResumes(x) PROVE Good
<1> USE DispatchAssumption
<1>1. /\ x \notin Executes /\ UNCHANGED <<calls, now, page, faults, okAt, late>>
      /\ \/ /\ rt' = Reply(IF AwaitsResult(x) THEN Expect(rt, x) ELSE rt, {x}, "ok") /\ at' = at
         \/ rt' = rt /\ at' = [at EXCEPT ![x] = "thrown"]
  BY DEF HandlerResumes
<1>2. /\ rt \in Runtime /\ Processing(rt) /\ now \in Nat /\ Executes \subseteq Requests
      /\ Placed(rt, rt.sending, at, calls) /\ LateRefused(rt, late) /\ Remembered(rt, okAt)
      /\ late \subseteq Executes
      /\ at \in [Requests -> RequestStates] /\ calls \in [Requests -> CallStates]
      /\ okAt' \in Maps(Executes, Nat) /\ late' \subseteq Executes /\ okAt' = okAt /\ late' = late
  BY <1>1 DEF Inv, TypeInv, Requests
<1>3. at' \in [Requests -> RequestStates] /\ \A y \in Executes : at'[y] = at[y]
  BY <1>1, <1>2 DEF RequestStates
<1>4. /\ rt' \in Runtime /\ rt'.queue = rt.queue /\ rt'.processing = rt.processing
      /\ rt'.sending = rt.sending /\ rt'.executed = rt.executed
      /\ \A y \in Executes : rt'.reply[y] = rt.reply[y]
  <2>1. CASE rt' = rt
    BY <1>2, <2>1
  <2>2. CASE rt' # rt
    <3> DEFINE r == IF AwaitsResult(x) THEN Expect(rt, x) ELSE rt
    <3>1. /\ r \in Runtime /\ r.queue = rt.queue /\ r.processing = rt.processing
          /\ r.sending = rt.sending /\ r.executed = rt.executed /\ r.reply = rt.reply
      <4>1. CASE AwaitsResult(x)
        <5>1. x \in Executes \cup Snapshots
          BY <4>1 DEF AwaitsResult
        <5> QED BY <1>2, <4>1, <5>1, ExpectMeans
      <4>2. CASE ~ AwaitsResult(x)
        BY <1>2, <4>2
      <4> QED BY <4>1, <4>2
    <3>2. rt' = Reply(r, {x}, "ok") /\ "ok" \in Answers
      BY <1>1, <2>2 DEF Answers
    <3> HIDE DEF r
    <3>3. /\ rt' \in Runtime /\ SameButReply(r, rt')
          /\ \A y \in Requests : rt'.reply[y] = IF y \in {x} THEN "ok" ELSE r.reply[y]
      BY <3>1, <3>2, ReplyMeans
    <3> QED BY <1>1, <1>2, <3>1, <3>3 DEF SameButReply
  <2> QED BY <2>1, <2>2
<1>5. Placed(rt', rt'.sending, at', calls)
  BY <1>2, <1>3, <1>4 DEF Placed
<1>6. /\ LateRefused(rt', late') /\ Remembered(rt', okAt')
      /\ Processing(rt')
  BY <1>2, <1>4 DEF LateRefused, Remembered, Processing
<1> QED BY <1>1, <1>2, <1>3, <1>4, <1>5, <1>6, QuietKeeps

\* Everything but the results that are awaited stays as it is.
SameButMaps(r, d) ==
  /\ d.queue = r.queue /\ d.processing = r.processing /\ d.sending = r.sending
  /\ d.executed = r.executed /\ d.reply = r.reply

LEMMA ContentResultKeeps ==
  ASSUME Inv, NEW x \in Executes \cup Snapshots, ContentResult(x) PROVE Good
<1> USE DispatchAssumption
<1> DEFINE c == Clean(rt)
<1>1. /\ c \in Runtime /\ Processing(c) /\ c.sending = rt.sending
      /\ Placed(c, rt.sending, at, calls)
      /\ LateRefused(c, late) /\ Remembered(c, okAt)
  BY CleanKeeps
<1>2. /\ results' = results \ {x}
      /\ UNCHANGED <<at, calls, now, shown, cancelledOnPage, handled, performed, faults, okAt,
                     late>>
      /\ \/ rt' = [c EXCEPT !.pending = Without(@, {x}), !.inFlight = Without(@, {x})]
         \/ rt' = c
  BY DEF ContentResult
<1> HIDE DEF c
<1>3. /\ rt' \in Runtime /\ SameButMaps(c, rt')
  <2>1. CASE rt' = c
    BY <1>1, <2>1 DEF SameButMaps
  <2>2. CASE rt' = [c EXCEPT !.pending = Without(@, {x}), !.inFlight = Without(@, {x})]
    <3> DEFINE p == Without(c.pending, {x})
               f == Without(c.inFlight, {x})
               d == [c EXCEPT !.pending = p, !.inFlight = f]
    <3>1. c.pending \in Maps(Executes \cup Snapshots, Nat) /\ c.inFlight \in Maps(Executes, Keys)
      BY <1>1 DEF Runtime
    <3>2. p \in Maps(Executes \cup Snapshots, Nat) /\ f \in Maps(Executes, Keys)
      BY <3>1, WithoutMeans
    <3>3. rt' = d
      BY <2>2
    <3> HIDE DEF p, f
    <3> QED BY <1>1, <3>2, <3>3 DEF Runtime, SameButMaps
  <2> QED BY <1>2, <2>1, <2>2
<1>4. Inv /\ TypeInv /\ Counted(calls)
  BY DEF Inv
<1>5. /\ TypeInv' /\ Processing(rt)' /\ Counted(calls)' /\ LateRefused(rt, late)'
      /\ Remembered(rt, okAt)'
  <2>1. TypeInv'
    BY <1>2, <1>3, <1>4 DEF TypeInv
  <2>2. Processing(rt)' /\ LateRefused(rt, late)'
    BY <1>1, <1>2, <1>3 DEF Processing, LateRefused, SameButMaps
  <2>3. Counted(calls)'
    BY <1>2, <1>4 DEF Counted
  <2>4. Remembered(rt, okAt)'
    BY <1>1, <1>2, <1>3 DEF Remembered, SameButMaps
  <2> QED BY <2>1, <2>2, <2>3, <2>4
<1>6. Placed(rt, rt.sending, at, calls)'
  BY <1>1, <1>2, <1>3 DEF Placed, SameButMaps
<1>7. NothingCancelled
  BY <1>2 DEF NothingCancelled
<1> QED BY <1>5, <1>6, <1>7 DEF Good, Inv

-----------------------------------------------------------------------------
(* The steps of the page and the browser                                   *)

\* A call that was under way is settled; the page has counted it, or was not reached.
LEMMA SettledKeeps ==
  ASSUME Inv, NEW x \in Requests, calls[x] = "calling",
         NEW outcome \in {"resolved", "rejected"}, calls' = [calls EXCEPT ![x] = outcome],
         outcome = "rejected" => faults' > 0, faults' \in Nat, faults' >= faults,
         handled' \in [Requests -> Nat], performed' \in [Requests -> Nat],
         \A y \in Requests : y # x => handled'[y] = handled[y] /\ performed'[y] = performed[y],
         x \in Executes => /\ handled'[x] <= 1 /\ performed'[x] <= handled'[x]
                           /\ outcome = "resolved" => handled'[x] = 1,
         cancelledOnPage' \subseteq Keys, results' \subseteq Requests,
         UNCHANGED <<rt, at, now, shown, okAt, late>>
  PROVE  Inv' /\ NothingCancelled
<1> USE DispatchAssumption
<1>1. /\ TypeInv /\ Processing(rt) /\ Placed(rt, rt.sending, at, calls) /\ Counted(calls)
      /\ LateRefused(rt, late) /\ Remembered(rt, okAt)
      /\ Executes \subseteq Requests
  BY DEF Inv, Requests
<1>2. /\ calls' \in [Requests -> CallStates] /\ calls'[x] = outcome
      /\ \A y \in Requests : y # x => calls'[y] = calls[y]
  BY <1>1 DEF TypeInv, CallStates
<1>3. TypeInv'
  BY <1>1, <1>2 DEF TypeInv
<1>4. Processing(rt)' /\ LateRefused(rt, late)' /\ Remembered(rt, okAt)'
  BY <1>1 DEF Processing, LateRefused, Remembered
<1>5. Placed(rt, rt.sending, at, calls)'
  <2> SUFFICES ASSUME NEW y \in Executes
               PROVE  /\ at[y] # "waiting" =>
                           /\ calls'[y] = "none" /\ rt.reply[y] = "none"
                           /\ y \notin Items(rt.queue) /\ y # rt.sending
                      /\ y \in Items(rt.queue) =>
                           calls'[y] = "none" /\ rt.reply[y] = "none" /\ y # rt.sending
                      /\ y = rt.sending => calls'[y] # "none" /\ rt.reply[y] = "none"
                      /\ rt.reply[y] = "ok" => calls'[y] = "resolved"
                      /\ rt.reply[y] \in Refusals => calls'[y] = "none"
                      /\ rt.reply[y] = "action_dispatch_failed" => calls'[y] \in {"none", "rejected"}
    BY DEF Placed
  <2>1. CASE y = x
    BY <1>1, <1>2, <2>1 DEF Placed
  <2>2. CASE y # x
    BY <1>1, <1>2, <2>2 DEF Placed
  <2> QED BY <2>1, <2>2
<1>6. Counted(calls)'
  <2> SUFFICES ASSUME NEW y \in Executes
               PROVE  /\ calls'[y] \in {"none", "calling"} => handled'[y] = 0
                      /\ calls'[y] = "resolved" => handled'[y] = 1
                      /\ handled'[y] <= 1 /\ performed'[y] <= handled'[y]
                      /\ faults' = 0 => calls'[y] # "rejected"
    BY DEF Counted
  <2>1. CASE y = x
    BY <1>2, <2>1
  <2>2. CASE y # x
    <3>1. faults' = 0 => faults = 0
      BY <1>1 DEF TypeInv
    <3> QED BY <1>1, <1>2, <2>2, <3>1 DEF Counted
  <2> QED BY <2>1, <2>2
<1>7. NothingCancelled
  BY <1>1, <1>2 DEF NothingCancelled
<1> QED BY <1>3, <1>4, <1>5, <1>6, <1>7 DEF Inv

LEMMA PageHandlesKeeps ==
  ASSUME Inv, NEW x \in Requests, PageHandles(x) PROVE Good
<1> USE DispatchAssumption
<1>1. /\ calls[x] = "calling"
      /\ cancelledOnPage' = IF x \in Cancels THEN cancelledOnPage \cup {KeyOf[x]} ELSE cancelledOnPage
      /\ results' = IF x \in Cancels THEN results ELSE results \cup {x}
      /\ handled' = [handled EXCEPT ![x] = @ + 1]
      /\ performed' = IF x \in Executes /\ NotCancelledOnPage(x)
                      THEN [performed EXCEPT ![x] = @ + 1] ELSE performed
      /\ UNCHANGED <<rt, at, now, shown, okAt, late>>
      /\ \/ calls' = [calls EXCEPT ![x] = "resolved"] /\ faults' = faults
         \/ calls' = [calls EXCEPT ![x] = "rejected"] /\ faults' = faults + 1
  BY DEF PageHandles, Settle
<1>2. /\ TypeInv /\ Counted(calls) /\ Executes \subseteq Requests
      /\ handled \in [Requests -> Nat] /\ performed \in [Requests -> Nat] /\ faults \in Nat
      /\ cancelledOnPage \subseteq Keys /\ results \subseteq Requests
  BY DEF Inv, TypeInv, Requests
<1>3. cancelledOnPage' \subseteq Keys /\ results' \subseteq Requests
  BY <1>1, <1>2
<1>4. /\ handled' \in [Requests -> Nat] /\ handled'[x] = handled[x] + 1
      /\ \A y \in Requests : y # x => handled'[y] = handled[y]
  BY <1>1, <1>2
<1>5. /\ performed' \in [Requests -> Nat]
      /\ performed'[x] = performed[x] \/ performed'[x] = performed[x] + 1
      /\ \A y \in Requests : y # x => performed'[y] = performed[y]
  <2>1. CASE performed' = performed
    BY <1>2, <2>1
  <2>2. CASE performed' = [performed EXCEPT ![x] = @ + 1]
    BY <1>2, <2>2
  <2> QED BY <1>1, <2>1, <2>2
<1>6. x \in Executes => handled[x] = 0 /\ performed[x] <= handled[x]
  BY <1>1, <1>2 DEF Counted
<1>7. /\ x \in Executes => /\ handled'[x] <= 1 /\ performed'[x] <= handled'[x]
                           /\ handled'[x] = 1
  BY <1>2, <1>4, <1>5, <1>6
<1>8. Inv' /\ NothingCancelled
  <2>1. CASE calls' = [calls EXCEPT ![x] = "resolved"] /\ faults' = faults
    <3> DEFINE outcome == "resolved"
    <3>1. outcome \in {"resolved", "rejected"} /\ calls' = [calls EXCEPT ![x] = outcome]
          /\ (outcome = "rejected" => faults' > 0) /\ faults' \in Nat /\ faults' >= faults
      <4>1. outcome # "rejected" /\ outcome \in {"resolved", "rejected"}
        OBVIOUS
      <4>2. faults' \in Nat /\ faults' >= faults
        BY <1>2, <2>1
      <4> QED BY <2>1, <4>1, <4>2
    <3> HIDE DEF outcome
    <3> QED BY <1>1, <1>3, <1>4, <1>5, <1>7, <3>1, SettledKeeps
  <2>2. CASE calls' = [calls EXCEPT ![x] = "rejected"] /\ faults' = faults + 1
    <3> DEFINE outcome == "rejected"
    <3>1. outcome \in {"resolved", "rejected"} /\ calls' = [calls EXCEPT ![x] = outcome]
          /\ faults' > 0 /\ faults' \in Nat /\ faults' >= faults
      BY <1>2, <2>2
    <3> HIDE DEF outcome
    <3> QED BY <1>1, <1>3, <1>4, <1>5, <1>7, <3>1, SettledKeeps
  <2> QED BY <1>1, <2>1, <2>2
<1> QED BY <1>8 DEF Good

LEMMA PageUnreachableKeeps ==
  ASSUME Inv, NEW x \in Requests, PageUnreachable(x) PROVE Good
<1>1. /\ calls[x] = "calling" /\ calls' = [calls EXCEPT ![x] = "rejected"] /\ faults' = faults + 1
      /\ UNCHANGED <<rt, at, now, page, okAt, late>>
  BY DEF PageUnreachable, Settle
<1>2. /\ TypeInv /\ Counted(calls) /\ faults \in Nat
      /\ handled \in [Requests -> Nat] /\ performed \in [Requests -> Nat]
      /\ cancelledOnPage \subseteq Keys /\ results \subseteq Requests
  BY DEF Inv, TypeInv
<1>3. /\ handled' = handled /\ performed' = performed /\ shown' = shown
      /\ cancelledOnPage' = cancelledOnPage /\ results' = results
  BY <1>1 DEF page
<1>4. x \in Executes => handled[x] <= 1 /\ performed[x] <= handled[x]
  BY <1>2 DEF Counted
<1>5. Inv' /\ NothingCancelled
  <2> DEFINE outcome == "rejected"
  <2>1. outcome \in {"resolved", "rejected"} /\ calls' = [calls EXCEPT ![x] = outcome]
        /\ faults' > 0 /\ faults' \in Nat /\ faults' >= faults
    BY <1>1, <1>2
  <2>2. outcome # "resolved"
    OBVIOUS
  <2> HIDE DEF outcome
  <2> QED BY <1>1, <1>2, <1>3, <1>4, <2>1, <2>2, SettledKeeps
<1> QED BY <1>3, <1>5 DEF Good

LEMMA UrlUnknownKeeps ==
  ASSUME Inv, NEW x \in Executes, UrlUnknown(x) PROVE Good
<1>1. /\ at[x] = "url" /\ at' = [at EXCEPT ![x] = "thrown"] /\ faults' = faults + 1
      /\ UNCHANGED <<rt, calls, now, page, okAt, late>>
  BY DEF UrlUnknown
<1>2. /\ TypeInv /\ Processing(rt) /\ Placed(rt, rt.sending, at, calls) /\ Counted(calls)
      /\ LateRefused(rt, late) /\ Remembered(rt, okAt)
      /\ Executes \subseteq Requests
  BY DEF Inv, Requests
<1>3. /\ handled' = handled /\ performed' = performed /\ shown' = shown
      /\ cancelledOnPage' = cancelledOnPage /\ results' = results
  BY <1>1 DEF page
<1>4. /\ at' \in [Requests -> RequestStates]
      /\ \A y \in Executes : at'[y] # "waiting" => at[y] # "waiting"
  BY <1>1, <1>2 DEF TypeInv, RequestStates
<1>5. faults' \in Nat /\ faults' # 0
  BY <1>1, <1>2 DEF TypeInv
<1>6. TypeInv'
  BY <1>1, <1>2, <1>3, <1>4, <1>5 DEF TypeInv
<1>7. Processing(rt)' /\ LateRefused(rt, late)' /\ Remembered(rt, okAt)'
  BY <1>1, <1>2, <1>3 DEF Processing, LateRefused, Remembered
<1>8. Counted(calls)'
  BY <1>1, <1>2, <1>3, <1>5 DEF Counted
<1>9. Placed(rt, rt.sending, at, calls)'
  BY <1>1, <1>2, <1>4 DEF Placed
<1>10. NothingCancelled
  BY <1>1 DEF NothingCancelled
<1> QED BY <1>3, <1>6, <1>7, <1>8, <1>9, <1>10 DEF Good, Inv

LEMMA PageChangesKeeps ==
  ASSUME Inv, PageChanges PROVE Good
<1> USE DispatchAssumption
<1>1. /\ shown' \in Pages /\ cancelledOnPage' = {}
      /\ UNCHANGED <<rt, at, calls, now, results, handled, performed, faults, okAt, late>>
  BY DEF PageChanges
<1>2. /\ TypeInv /\ Processing(rt) /\ Placed(rt, rt.sending, at, calls) /\ Counted(calls)
      /\ LateRefused(rt, late) /\ Remembered(rt, okAt) /\ rt.queue \in Seq(Item)
  BY DEF Inv, TypeInv, Runtime
<1>3. TypeInv'
  BY <1>1, <1>2 DEF TypeInv
<1>4. Processing(rt)' /\ LateRefused(rt, late)' /\ Remembered(rt, okAt)' /\ Counted(calls)'
  BY <1>1, <1>2 DEF Processing, LateRefused, Remembered, Counted
<1>5. Placed(rt, rt.sending, at, calls)'
  BY <1>1, <1>2 DEF Placed
<1>6. NothingCancelled
  BY <1>1 DEF NothingCancelled
<1> QED BY <1>1, <1>3, <1>4, <1>5, <1>6 DEF Good, Inv

LEMMA TickKeeps ==
  ASSUME Inv, Tick PROVE Good
<1> USE DispatchAssumption
<1>1. now' = now + 1 /\ UNCHANGED <<rt, at, calls, page, faults, okAt, late>>
  BY DEF Tick
<1>2. /\ TypeInv /\ Processing(rt) /\ Placed(rt, rt.sending, at, calls) /\ Counted(calls)
      /\ LateRefused(rt, late) /\ Remembered(rt, okAt)
      /\ okAt \in Maps(Executes, Nat) /\ now \in Nat
  BY DEF Inv, TypeInv
<1>3. /\ handled' = handled /\ performed' = performed /\ shown' = shown
      /\ cancelledOnPage' = cancelledOnPage /\ results' = results
  BY <1>1 DEF page
<1>4. TypeInv'
  BY <1>1, <1>2, <1>3 DEF TypeInv
<1>5. Processing(rt)' /\ LateRefused(rt, late)' /\ Counted(calls)'
  BY <1>1, <1>2, <1>3 DEF Processing, LateRefused, Counted
<1>6. Placed(rt, rt.sending, at, calls)'
  BY <1>1, <1>2 DEF Placed
<1>7. Remembered(rt, okAt)'
  <2> SUFFICES ASSUME NEW y \in DOMAIN okAt
               PROVE  /\ okAt[y] <= now'
                      /\ okAt[y] + KeyTtl > now' =>
                           KeyOf[y] \in DOMAIN rt.executed /\ rt.executed[KeyOf[y]] >= okAt[y] + KeyTtl
    BY <1>1 DEF Remembered
  <2>1. /\ okAt[y] <= now
        /\ okAt[y] + KeyTtl > now =>
             KeyOf[y] \in DOMAIN rt.executed /\ rt.executed[KeyOf[y]] >= okAt[y] + KeyTtl
    BY <1>2 DEF Remembered
  <2>2. okAt[y] \in Nat
    BY <1>2, MapsMean
  <2>3. okAt[y] <= now' /\ (okAt[y] + KeyTtl > now' => okAt[y] + KeyTtl > now)
    BY <1>1, <1>2, <2>1, <2>2
  <2> QED BY <2>1, <2>3
<1>8. NothingCancelled
  BY <1>1 DEF NothingCancelled
<1> QED BY <1>3, <1>4, <1>5, <1>6, <1>7, <1>8 DEF Good, Inv

LEMMA FreshMeans ==
  ASSUME NEW replies \in [Requests -> Answers]
  PROVE  /\ FreshRuntime(replies) \in Runtime /\ Processing(FreshRuntime(replies))
         /\ Items(FreshRuntime(replies).queue) = {}
         /\ FreshRuntime(replies).sending = None /\ FreshRuntime(replies).reply = replies
<1> DEFINE r == FreshRuntime(replies)
<1>1. r = [queue |-> <<>>, processing |-> FALSE, sending |-> None, executed |-> <<>>,
           cancelled |-> <<>>, pending |-> <<>>, inFlight |-> <<>>, reply |-> replies]
  BY DEF FreshRuntime
<1> HIDE DEF r
<1>2. <<>> \in Maps(Keys, Nat) /\ <<>> \in Maps(Executes \cup Snapshots, Nat)
      /\ <<>> \in Maps(Executes, Keys)
  BY EmptyMap
<1>3. r \in Runtime
  BY <1>1, <1>2, EmptyQueue DEF Runtime
<1>4. r.queue = <<>> /\ r.processing = FALSE /\ r.sending = None /\ r.reply = replies
  BY <1>1
<1>5. Processing(r) /\ Items(r.queue) = {}
  BY <1>4, EmptyQueue DEF Processing
<1> QED BY <1>3, <1>4, <1>5 DEF r

LEMMA RestartKeeps ==
  ASSUME Inv, Restart PROVE Good
<1> USE DispatchAssumption
<1> DEFINE replies == [x \in Requests |-> Unanswered(x)]
<1>1. /\ faults' = faults + 1 /\ rt' = FreshRuntime(replies) /\ okAt' = <<>>
      /\ at' = [x \in Requests |-> IF at[x] = "new" THEN "new" ELSE "waiting"]
      /\ UNCHANGED <<now, page, late>>
  BY DEF Restart
<1>2. PICK unsent \in SUBSET {x \in Requests : calls[x] = "calling"} :
        calls' = [x \in Requests |-> IF x \in unsent THEN "rejected" ELSE calls[x]]
  BY DEF Restart
<1>3. /\ TypeInv /\ Placed(rt, rt.sending, at, calls) /\ Counted(calls)
      /\ LateRefused(rt, late) /\ Executes \subseteq Requests
      /\ None \notin Executes /\ rt \in Runtime
  BY DEF Inv, TypeInv, Requests
<1>4. replies \in [Requests -> Answers]
  BY <1>3 DEF Unanswered, Runtime, Answers
<1>5. \A x \in Requests : replies[x] = IF at[x] # "new" /\ rt.reply[x] = "none" THEN "lost"
                                       ELSE rt.reply[x]
  BY DEF Unanswered
<1> HIDE DEF replies
<1>6. /\ rt' \in Runtime /\ Processing(rt') /\ Items(rt'.queue) = {} /\ rt'.sending = None
      /\ rt'.reply = replies
  BY <1>1, <1>4, FreshMeans
<1>7. /\ handled' = handled /\ performed' = performed /\ shown' = shown
      /\ cancelledOnPage' = cancelledOnPage /\ results' = results /\ now' = now /\ late' = late
  BY <1>1 DEF page
<1>8. faults' \in Nat /\ faults' # 0
  BY <1>1, <1>3 DEF TypeInv
<1>9. /\ at' \in [Requests -> RequestStates] /\ calls' \in [Requests -> CallStates]
      /\ \A x \in Requests : /\ at'[x] = IF at[x] = "new" THEN "new" ELSE "waiting"
                             /\ calls'[x] = IF x \in unsent THEN "rejected" ELSE calls[x]
                             /\ x \in unsent => calls[x] = "calling"
  <2>1. at' \in [Requests -> RequestStates]
    BY <1>1 DEF RequestStates
  <2>2. \A x \in Requests : calls[x] \in CallStates
    BY <1>3 DEF TypeInv
  <2>3. calls' \in [Requests -> CallStates]
    BY <1>2, <2>2 DEF CallStates
  <2> QED BY <1>1, <1>2, <2>1, <2>3
<1>10. TypeInv'
  <2>1. okAt' \in Maps(Executes, Nat)
    BY <1>1, EmptyMap
  <2> QED BY <1>3, <1>6, <1>7, <1>8, <1>9, <2>1 DEF TypeInv
<1>11. Placed(rt, rt.sending, at, calls)'
  <2> SUFFICES ASSUME NEW y \in Executes
               PROVE  /\ at'[y] # "waiting" => calls'[y] = "none" /\ replies[y] = "none"
                      /\ replies[y] = "ok" => calls'[y] = "resolved"
                      /\ replies[y] \in Refusals => calls'[y] = "none"
                      /\ replies[y] = "action_dispatch_failed" => calls'[y] \in {"none", "rejected"}
    BY <1>3, <1>6 DEF Placed
  <2>1. /\ at[y] # "waiting" => calls[y] = "none" /\ rt.reply[y] = "none"
        /\ rt.reply[y] = "ok" => calls[y] = "resolved"
        /\ rt.reply[y] \in Refusals => calls[y] = "none"
        /\ rt.reply[y] = "action_dispatch_failed" => calls[y] \in {"none", "rejected"}
    BY <1>3 DEF Placed
  <2>2. "lost" \notin Refusals
    BY DEF Refusals
  <2>3. /\ at'[y] = IF at[y] = "new" THEN "new" ELSE "waiting"
        /\ calls'[y] = IF y \in unsent THEN "rejected" ELSE calls[y]
        /\ y \in unsent => calls[y] = "calling"
        /\ replies[y] = IF at[y] # "new" /\ rt.reply[y] = "none" THEN "lost" ELSE rt.reply[y]
    BY <1>3, <1>5, <1>9
  <2> QED BY <2>1, <2>2, <2>3
<1>12. Counted(calls)'
  BY <1>3, <1>7, <1>8, <1>9 DEF Counted
<1>13. LateRefused(rt, late)'
  BY <1>3, <1>5, <1>6, <1>7 DEF LateRefused, TypeInv
<1>14. Remembered(rt, okAt)' /\ Processing(rt)'
  <2>1. DOMAIN okAt' = {}
    BY <1>1
  <2> QED BY <1>6, <2>1 DEF Remembered, Processing
<1>15. NothingCancelled
  BY <1>3, <1>9 DEF NothingCancelled
<1> QED BY <1>7, <1>10, <1>11, <1>12, <1>13, <1>14, <1>15 DEF Good, Inv

-----------------------------------------------------------------------------
(* The invariant holds                                                     *)

LEMMA InitInv == Init => Inv
<1> USE DispatchAssumption
<1> SUFFICES ASSUME Init PROVE Inv
  OBVIOUS
<1> DEFINE replies == [x \in Requests |-> "none"]
<1>1. /\ rt = FreshRuntime(replies)
      /\ at = [x \in Requests |-> "new"] /\ calls = [x \in Requests |-> "none"]
      /\ now = 0 /\ faults = 0 /\ shown = 1
      /\ cancelledOnPage = {} /\ results = {}
      /\ handled = [x \in Requests |-> 0] /\ performed = [x \in Requests |-> 0]
      /\ okAt = <<>> /\ late = {}
  BY DEF Init
<1>2. replies \in [Requests -> Answers] /\ \A x \in Requests : replies[x] = "none"
  BY DEF Answers
<1> HIDE DEF replies
<1>3. /\ rt \in Runtime /\ Processing(rt) /\ Items(rt.queue) = {} /\ rt.sending = None
      /\ rt.reply = replies
  BY <1>1, <1>2, FreshMeans
<1>4. None \notin Executes /\ Executes \subseteq Requests
  BY DEF Requests
<1>5. okAt \in Maps(Executes, Nat) /\ DOMAIN okAt = {}
  BY <1>1, EmptyMap
<1>6. TypeInv
  BY <1>1, <1>3, <1>5 DEF TypeInv, RequestStates, CallStates
<1>7. Placed(rt, rt.sending, at, calls)
  <2>1. "none" \notin Refusals
    BY DEF Refusals
  <2> QED BY <1>1, <1>2, <1>3, <1>4, <2>1 DEF Placed
<1>8. Counted(calls)
  BY <1>1, <1>4 DEF Counted
<1>9. LateRefused(rt, late) /\ Remembered(rt, okAt)
  BY <1>1, <1>3, <1>4, <1>5 DEF LateRefused, Remembered
<1> QED BY <1>3, <1>6, <1>7, <1>8, <1>9 DEF Inv

LEMMA NextGood == ASSUME Inv, [Next]_vars PROVE Good
<1>1. CASE Progress
  <2>1. ASSUME NEW x \in Requests, PageUnreachable(x) \/ PageHandles(x) \/ HandlerResumes(x)
        PROVE  Good
    BY <2>1, PageUnreachableKeeps, PageHandlesKeeps, HandlerResumesKeeps
  <2>2. ASSUME NEW x \in Executes, UrlUnknown(x) \/ UrlKnown(x) \/ ProcessorResumes(x)
        PROVE  Good
    BY <2>2, UrlUnknownKeeps, UrlKnownKeeps, ProcessorResumesKeeps
  <2>3. ASSUME NEW x \in Executes \cup Snapshots, ContentResult(x)
        PROVE  Good
    BY <2>3, ContentResultKeeps
  <2> QED BY <1>1, <2>1, <2>2, <2>3 DEF Progress
<1>2. CASE Arrive
  BY <1>2, ReceiveExecuteKeeps, ReceiveCancelKeeps, ReceiveSnapshotKeeps DEF Arrive
<1>3. CASE PageChanges \/ Tick \/ Restart
  BY <1>3, PageChangesKeeps, TickKeeps, RestartKeeps
<1>4. CASE UNCHANGED vars
  <2>1. /\ rt' = rt /\ at' = at /\ calls' = calls /\ now' = now /\ shown' = shown
        /\ cancelledOnPage' = cancelledOnPage /\ results' = results /\ handled' = handled
        /\ performed' = performed /\ faults' = faults /\ okAt' = okAt /\ late' = late
    BY <1>4 DEF vars
  <2>2. TypeInv' /\ Processing(rt)' /\ LateRefused(rt, late)'
    BY <2>1 DEF Inv, TypeInv, Processing, LateRefused
  <2>3. Placed(rt, rt.sending, at, calls)' /\ Counted(calls)'
    BY <2>1 DEF Inv, Placed, Counted
  <2>4. Remembered(rt, okAt)'
    BY <2>1 DEF Inv, Remembered
  <2>5. NothingCancelled
    BY <2>1 DEF NothingCancelled
  <2> QED BY <2>1, <2>2, <2>3, <2>4, <2>5 DEF Good, Inv
<1> QED BY <1>1, <1>2, <1>3, <1>4 DEF Next

LEMMA Invariance == Spec => []Inv
<1>1. Inv /\ [Next]_vars => Inv'
  BY NextGood DEF Good
<1> QED BY InitInv, <1>1, PTL DEF Spec

-----------------------------------------------------------------------------
(* What it promises                                                        *)

LEMMA MapOfMaps == ASSUME NEW S, NEW T, NEW f \in Maps(S, T) PROVE MapOf(f, S, T)
BY MapsMean DEF MapOf

\* The closure, the requests, the page and the history keep their types.
THEOREM TypeCorrect == Spec => []TypeOK
<1>1. ASSUME Inv PROVE TypeOK
  <2>1. TypeInv /\ rt \in Runtime
    BY <1>1 DEF Inv, TypeInv
  <2>2. MapOf(rt.executed, Keys, Nat) /\ MapOf(rt.cancelled, Keys, Nat)
        /\ MapOf(rt.pending, Executes \cup Snapshots, Nat) /\ MapOf(rt.inFlight, Executes, Keys)
    <3>1. /\ rt.executed \in Maps(Keys, Nat) /\ rt.cancelled \in Maps(Keys, Nat)
          /\ rt.pending \in Maps(Executes \cup Snapshots, Nat) /\ rt.inFlight \in Maps(Executes, Keys)
      BY <2>1 DEF Runtime
    <3> QED BY <3>1, MapOfMaps
  <2>3. /\ DOMAIN rt = {"queue", "processing", "sending", "executed", "cancelled", "pending",
                        "inFlight", "reply"}
        /\ rt.queue \in Seq([request: Executes, queuedAt: Nat])
        /\ rt.processing \in BOOLEAN /\ rt.sending \in Executes \cup {None}
        /\ rt.reply \in [Requests -> Answers]
    BY <2>1 DEF Runtime, Item
  <2>4. MapOf(okAt, Executes, Nat)
    BY <2>1, MapOfMaps DEF TypeInv
  <2> QED BY <2>1, <2>2, <2>3, <2>4 DEF TypeOK, TypeInv, RequestStates, CallStates
<1> QED BY Invariance, <1>1, PTL

\* The popup is told the truth: what is answered ok reached the page exactly once, what is
\* refused, cancelled or called a duplicate never did, whatever the queue limit, the times
\* that keys and requests live, and however often calls fail or the worker is restarted.
THEOREM AnswersAreHonest == Spec => []AnswersHonest
<1>1. ASSUME Inv PROVE AnswersHonest
  <2> SUFFICES ASSUME NEW x \in Executes
               PROVE  /\ handled[x] <= 1 /\ performed[x] <= handled[x]
                      /\ rt.reply[x] = "ok" => handled[x] = 1
                      /\ rt.reply[x] \in Answers \ {"none", "ok", "action_dispatch_failed", "lost"}
                           => handled[x] = 0
                      /\ rt.reply[x] = "action_dispatch_failed" /\ faults = 0 => handled[x] = 0
    BY DEF AnswersHonest
  <2>1. /\ rt.reply[x] = "ok" => calls[x] = "resolved"
        /\ rt.reply[x] \in Refusals => calls[x] = "none"
        /\ rt.reply[x] = "action_dispatch_failed" => calls[x] \in {"none", "rejected"}
    BY <1>1 DEF Inv, Placed
  <2>2. /\ calls[x] \in {"none", "calling"} => handled[x] = 0
        /\ calls[x] = "resolved" => handled[x] = 1
        /\ handled[x] <= 1 /\ performed[x] <= handled[x]
        /\ faults = 0 => calls[x] # "rejected"
    BY <1>1 DEF Inv, Counted
  <2>3. Answers \ {"none", "ok", "action_dispatch_failed", "lost"} = Refusals
    BY DEF Answers, Refusals
  <2> QED BY <2>1, <2>2, <2>3
<1> QED BY Invariance, <1>1, PTL

\* A request that arrives less than KeyTtl after one with its key was answered ok by the
\* same worker never reaches the page.
THEOREM LateDuplicatesStopped == Spec => []NoLateDuplicate
<1>1. ASSUME Inv PROVE NoLateDuplicate
  <2> SUFFICES ASSUME NEW x \in late PROVE handled[x] = 0
    BY DEF NoLateDuplicate
  <2>1. x \in Executes /\ rt.reply[x] \in Refusals
    BY <1>1 DEF Inv, TypeInv, LateRefused, Refusals
  <2>2. calls[x] = "none"
    BY <1>1, <2>1 DEF Inv, Placed
  <2> QED BY <1>1, <2>1, <2>2 DEF Inv, Counted
<1> QED BY Invariance, <1>1, PTL

\* Nothing with a key whose cancellation is in force is handed to the page.
THEOREM CancellationsHold == Spec => CancelHolds
<1>1. ASSUME Inv, [Next]_vars
      PROVE  [\A x \in Executes :
                calls[x] = "none" /\ calls'[x] = "calling" =>
                  ~ \E k \in DOMAIN rt.cancelled : k = KeyOf[x] /\ rt.cancelled[k] > now]_vars
  <2>1. NothingCancelled
    BY <1>1, NextGood DEF Good
  <2> QED BY <2>1 DEF NothingCancelled, InForce
<1> QED BY Invariance, <1>1, PTL DEF Spec, CancelHolds

-----------------------------------------------------------------------------
(* The order in which the queue is served                                  *)

LEMMA CleanInTurn ==
  ASSUME NEW r \in Runtime, Processing(r), now \in Nat
  PROVE  InTurn(r.queue, r.sending, Clean(r))
<1> DEFINE d == Clean(r)
<1>1. /\ Kept(r.queue, d.queue) /\ d.sending = r.sending
      /\ \A x \in Requests : d.reply[x] =
           IF x \in Items(r.queue) \ Items(d.queue) THEN "action_dispatch_failed" ELSE r.reply[x]
  BY CleanMeans DEF Processing
<1>2. r.queue \in Seq(Item)
  BY DEF Runtime
<1> HIDE DEF d
<1>3. Items(r.queue) \subseteq Requests
  BY <1>2, ItemRequest DEF Requests
<1>4. InTurn(r.queue, r.sending, d)
  BY <1>1, <1>3 DEF InTurn, NotServed
<1> QED BY <1>4 DEF d

LEMMA KickInTurn ==
  ASSUME NEW r \in Runtime, Processing(r), now \in Nat
  PROVE  InTurn(r.queue, r.sending, Kick(r)) /\ Overstayed(r, Kick(r))
<1>1. CASE Kick(r) = r
  <2>1. r.queue \in Seq(Item) /\ Distinct(r.queue)
    BY DEF Runtime, Processing
  <2>2. Kept(r.queue, r.queue)
    BY <2>1, KeptItself
  <2> QED BY <1>1, <2>2 DEF InTurn, Overstayed
<1>2. CASE Advanced(r, Kick(r))
  BY <1>2 DEF Advanced, InTurn
<1> QED BY <1>1, <1>2, KickMeans DEF Processing

LEMMA UncancelledInTurn ==
  ASSUME NEW r \in Runtime, Processing(r), NEW key \in Keys, NEW time \in Nat, NEW d,
         d = Reply([r EXCEPT !.cancelled = Put(@, key, time), !.queue = Uncancelled(r.queue, key)],
                   Items(r.queue) \ Items(Uncancelled(r.queue, key)), "action_cancelled")
  PROVE  InTurn(r.queue, r.sending, d)
<1> DEFINE q == Uncancelled(r.queue, key)
           m == Put(r.cancelled, key, time)
           e == [r EXCEPT !.cancelled = m, !.queue = q]
           gone == Items(r.queue) \ Items(q)
           a == "action_cancelled"
<1>1. r.queue \in Seq(Item) /\ Distinct(r.queue) /\ r.cancelled \in Maps(Keys, Nat)
  BY DEF Runtime, Processing
<1>2. q \in Seq(Item) /\ Kept(r.queue, q)
  BY <1>1, FilterOrder, FilterMeans DEF Uncancelled
<1>3. m \in Maps(Keys, Nat)
  BY <1>1, PutMeans
<1>4. d = Reply(e, gone, a) /\ a \in Answers
  BY DEF Answers
<1> HIDE DEF q, m
<1>5. e \in Runtime /\ e.queue = q /\ e.sending = r.sending
  BY <1>2, <1>3 DEF Runtime
<1> HIDE DEF e
<1>6. /\ SameButReply(e, Reply(e, gone, a))
      /\ \A x \in Requests : Reply(e, gone, a).reply[x] = IF x \in gone THEN a ELSE e.reply[x]
  BY <1>4, <1>5, ReplyMeans
<1>7. d.queue = q /\ d.sending = r.sending
  BY <1>4, <1>5, <1>6 DEF SameButReply
<1>8. ASSUME NEW x \in Items(r.queue) \ Items(q) PROVE d.reply[x] = a
  <2>1. x \in Requests
    BY <1>1, ItemRequest DEF Requests
  <2> QED BY <1>4, <1>6, <1>8, <2>1
<1> QED BY <1>2, <1>7, <1>8 DEF InTurn, NotServed

\* One step that sends nothing after another is one step.
LEMMA InTurnTwice ==
  ASSUME NEW r \in Runtime, NEW c, NEW d, NEW s, InTurn(r.queue, s, c), c.sending = s,
         InTurn(c.queue, s, d), d.sending = s, Serves(c, s, d)
  PROVE  InTurn(r.queue, s, d)
<1>1. Kept(r.queue, d.queue)
  BY KeptTwice DEF InTurn
<1>2. ASSUME NEW x \in Items(r.queue) \ Items(d.queue)
      PROVE  x = d.sending \/ d.reply[x] \in NotServed
  <2>1. CASE x \in Items(c.queue)
    BY <1>2, <2>1 DEF InTurn
  <2>2. CASE x \notin Items(c.queue)
    <3>1. x \in Requests
      BY ItemRequest DEF Requests, Runtime
    <3> QED BY <1>2, <2>2, <3>1 DEF InTurn, Serves
  <2> QED BY <2>1, <2>2
<1> QED BY <1>1, <1>2 DEF InTurn

-----------------------------------------------------------------------------
(* The executor                                                            *)

Stages == {"new", "asked", "waiting", "sent", "ok", "refused", "failed", "lost"}

\* How far x has come, by a closure r and the places a of the requests.
StageAt(r, a, x) ==
  IF r.reply[x] # "none" THEN Verdict(r.reply[x])
  ELSE IF x = r.sending THEN "sent"
  ELSE IF x \in Items(r.queue) THEN "waiting"
  ELSE IF a[x] = "new" THEN "new" ELSE "asked"

LEMMA StageMeans ==
  ASSUME NEW r \in Runtime, NEW a, NEW c, Placed(r, r.sending, a, c), NEW x \in Executes
  PROVE  /\ StageAt(r, a, x) \in Stages
         /\ StageAt(r, a, x) = "waiting" <=> x \in Items(r.queue)
         /\ StageAt(r, a, x) = "sent" <=> x = r.sending
         /\ r.reply[x] # "none" =>
              /\ StageAt(r, a, x) = Verdict(r.reply[x])
              /\ x \notin Items(r.queue) /\ x # r.sending
         /\ r.reply[x] \in NotServed => StageAt(r, a, x) \in {"refused", "failed"}
         /\ StageAt(r, a, x) = "new" <=> a[x] = "new"
<1>1. /\ a[x] # "waiting" => r.reply[x] = "none" /\ x \notin Items(r.queue) /\ x # r.sending
      /\ x \in Items(r.queue) => r.reply[x] = "none" /\ x # r.sending
      /\ x = r.sending => r.reply[x] = "none"
  BY DEF Placed
<1>2. Verdict(r.reply[x]) \in {"ok", "lost", "failed", "refused"}
  BY DEF Verdict
<1>3. r.reply[x] \in NotServed => Verdict(r.reply[x]) \in {"refused", "failed"}
  BY DEF Verdict, NotServed
<1>4. "none" \notin NotServed
  BY DEF NotServed
<1>5. CASE r.reply[x] # "none"
  BY <1>1, <1>2, <1>3, <1>5 DEF StageAt, Stages
<1>6. CASE r.reply[x] = "none"
  BY <1>1, <1>4, <1>6 DEF StageAt, Stages
<1> QED BY <1>5, <1>6

\* The stages before and after a step.
Now == [x \in Executes |-> StageAt(rt, at, x)]
Then == [x \in Executes |-> StageAt(rt', at', x)]

LEMMA StagesNow == Now = [x \in Executes |-> StageOf(x)] /\ Then = [x \in Executes |-> StageOf(x)]'
<1>1. \A x : StageAt(rt, at, x) = StageOf(x)
  BY DEF StageAt, StageOf
<1>2. \A x \in Executes : StageAt(rt', at', x) = StageOf(x)'
  BY DEF StageAt, StageOf
<1> QED BY <1>1, <1>2 DEF Now, Then

\* What the parts of the executor's steps say of the queue and the closure.
LEMMA LineMovesIf ==
  ASSUME NEW new,
         LET line == Ahead(rt.queue) \cup ({x \in Executes : Now[x] = "waiting"} \X new)
             sent == {x \in Executes : Then[x] = "sent"}
         IN  /\ Ahead(rt'.queue) = {p \in line : Then[p[1]] = "waiting" /\ Then[p[2]] = "waiting"}
             /\ \A x, y \in sent : x = y
             /\ \A p \in line : p[2] \in sent => Then[p[1]] \in {"refused", "failed"}
             /\ {x \in Executes : calls'[x] = "calling"} =
                  {x \in Executes : calls[x] = "calling"} \cup (sent \ {x \in Executes : Now[x] = "sent"}),
         handled' = handled
  PROVE  Promise!LineMoves(new)
<1> USE StagesNow
<1> HIDE DEF Now, Then
<1> QED BY DEF Promise!LineMoves, Promise!In, Ahead

LEMMA OthersIf ==
  ASSUME NEW some, NEW out, Then \in [Executes -> Stages],
         \A y \in Executes \ some : Then[y] # Now[y] => Now[y] = "waiting" /\ Then[y] \in out
  PROVE  Promise!Others(some, out)
<1> USE StagesNow
<1> HIDE DEF Now, Then
<1> QED BY DEF Promise!Others, Stages

\* The queue q is served: its requests leave it in their turn, and but for some every request
\* is where it was.
Served(q, some) ==
  /\ Items(rt'.queue) \subseteq Items(q) /\ InTurn(q, rt.sending, rt')
  /\ rt'.sending \in {rt.sending, None} \cup Items(q)
  /\ \A y \in Executes \ some :
       /\ rt'.reply[y] = rt.reply[y] \/ y \in Items(q) \ Items(rt'.queue)
       /\ at'[y] = at[y]
       /\ y = rt.sending => y = rt'.sending

\* What StageMeans says of two states.
Stood ==
  \A x \in Executes :
    /\ Now[x] \in Stages /\ Now[x] = StageAt(rt, at, x)
    /\ Now[x] = "waiting" <=> x \in Items(rt.queue)
    /\ Now[x] = "sent" <=> x = rt.sending
    /\ rt.reply[x] # "none" =>
         Now[x] = Verdict(rt.reply[x]) /\ x \notin Items(rt.queue) /\ x # rt.sending
    /\ Now[x] = "new" <=> at[x] = "new"
Stand ==
  \A x \in Executes :
    /\ Then[x] \in Stages /\ Then[x] = StageAt(rt', at', x)
    /\ Then[x] = "waiting" <=> x \in Items(rt'.queue)
    /\ Then[x] = "sent" <=> x = rt'.sending
    /\ rt'.reply[x] # "none" =>
         Then[x] = Verdict(rt'.reply[x]) /\ x \notin Items(rt'.queue) /\ x # rt'.sending
    /\ rt'.reply[x] \in NotServed => Then[x] \in {"refused", "failed"}
    /\ Then[x] = "new" <=> at'[x] = "new"

LEMMA StandMeans ==
  ASSUME Inv, Inv'
  PROVE  Stood /\ Stand /\ Then \in [Executes -> Stages] /\ DOMAIN Now = Executes
<1>1. rt \in Runtime /\ Placed(rt, rt.sending, at, calls)
  BY DEF Inv, TypeInv
<1>2. rt' \in Runtime /\ Placed(rt', rt'.sending, at', calls')
  BY DEF Inv, TypeInv, Placed
<1>3. Stood
  <2> SUFFICES ASSUME NEW x \in Executes
               PROVE  /\ Now[x] \in Stages /\ Now[x] = StageAt(rt, at, x)
                      /\ Now[x] = "waiting" <=> x \in Items(rt.queue)
                      /\ Now[x] = "sent" <=> x = rt.sending
                      /\ rt.reply[x] # "none" =>
                           Now[x] = Verdict(rt.reply[x]) /\ x \notin Items(rt.queue) /\ x # rt.sending
                      /\ Now[x] = "new" <=> at[x] = "new"
    BY DEF Stood
  <2> DEFINE st == StageAt(rt, at, x)
  <2>1. /\ st \in Stages
        /\ st = "waiting" <=> x \in Items(rt.queue)
        /\ st = "sent" <=> x = rt.sending
        /\ rt.reply[x] # "none" =>
             st = Verdict(rt.reply[x]) /\ x \notin Items(rt.queue) /\ x # rt.sending
        /\ st = "new" <=> at[x] = "new"
    BY <1>1, StageMeans
  <2>2. Now[x] = st
    BY DEF Now
  <2> HIDE DEF st
  <2>3. st = StageAt(rt, at, x)
    BY DEF st
  <2> QED BY <2>1, <2>2, <2>3
<1>4. Stand
  <2> SUFFICES ASSUME NEW x \in Executes
               PROVE  /\ Then[x] \in Stages /\ Then[x] = StageAt(rt', at', x)
                      /\ Then[x] = "waiting" <=> x \in Items(rt'.queue)
                      /\ Then[x] = "sent" <=> x = rt'.sending
                      /\ rt'.reply[x] # "none" =>
                           Then[x] = Verdict(rt'.reply[x]) /\ x \notin Items(rt'.queue) /\ x # rt'.sending
                      /\ rt'.reply[x] \in NotServed => Then[x] \in {"refused", "failed"}
                      /\ Then[x] = "new" <=> at'[x] = "new"
    BY DEF Stand
  <2> DEFINE st == StageAt(rt', at', x)
  <2>1. /\ st \in Stages
        /\ st = "waiting" <=> x \in Items(rt'.queue)
        /\ st = "sent" <=> x = rt'.sending
        /\ rt'.reply[x] # "none" =>
             st = Verdict(rt'.reply[x]) /\ x \notin Items(rt'.queue) /\ x # rt'.sending
        /\ rt'.reply[x] \in NotServed => st \in {"refused", "failed"}
        /\ st = "new" <=> at'[x] = "new"
    BY <1>2, StageMeans
  <2>2. Then[x] = st
    BY DEF Then
  <2> HIDE DEF st
  <2>3. st = StageAt(rt', at', x)
    BY DEF st
  <2> QED BY <2>1, <2>2, <2>3
<1>5. Then \in [Executes -> Stages]
  <2>1. \A x \in Executes : Then[x] \in Stages
    BY <1>4 DEF Stand
  <2> QED BY <2>1 DEF Then
<1>6. DOMAIN Now = Executes
  BY DEF Now
<1> QED BY <1>3, <1>4, <1>5, <1>6

LEMMA OthersMove ==
  ASSUME Inv, Inv', NEW q, NEW some, NEW out, Served(q, some),
         Items(rt.queue) \subseteq Items(q), Items(q) \subseteq Items(rt.queue) \cup some,
         {"refused", "failed"} \subseteq out,
         rt'.sending \in {rt.sending, None} \cup some \/ "sent" \in out
  PROVE  Promise!Others(some, out)
<1>1. Stood /\ Stand /\ Then \in [Executes -> Stages]
  BY StandMeans
<1>2. ASSUME NEW y \in Executes \ some, Then[y] # Now[y] PROVE Now[y] = "waiting" /\ Then[y] \in out
  <2>1. /\ rt'.reply[y] = rt.reply[y] \/ y \in Items(q) \ Items(rt'.queue)
        /\ at'[y] = at[y] /\ (y = rt.sending => y = rt'.sending)
        /\ y \in Items(q) => y \in Items(rt.queue)
        /\ y \in Items(rt'.queue) => y \in Items(q)
        /\ rt'.sending \in {rt.sending, None} \cup Items(q)
    BY DEF Served
  <2>2. y \in Items(q) \ Items(rt'.queue) => y = rt'.sending \/ rt'.reply[y] \in NotServed
    BY DEF Served, InTurn
  <2>3. y # None
    BY DispatchAssumption DEF Requests
  <2>4. CASE y \in Items(rt.queue)
    <3>1. Now[y] = "waiting" /\ y # rt.sending /\ y \notin Items(rt'.queue)
      BY <1>1, <1>2, <2>4 DEF Stood, Stand
    <3>2. CASE y = rt'.sending
      <4>1. Then[y] = "sent"
        BY <1>1, <3>2 DEF Stand
      <4> QED BY <2>3, <3>1, <3>2, <4>1
    <3>3. CASE rt'.reply[y] \in NotServed
      <4>1. Then[y] \in {"refused", "failed"}
        BY <1>1, <3>3 DEF Stand
      <4> QED BY <3>1, <4>1
    <3> QED BY <2>2, <2>4, <3>1, <3>2, <3>3
  <2>5. CASE y \notin Items(rt.queue)
    <3>1. rt'.reply[y] = rt.reply[y] /\ y \notin Items(rt'.queue)
      BY <2>1, <2>5
    <3>2. CASE rt.reply[y] # "none"
      <4>1. Now[y] = Verdict(rt.reply[y]) /\ Then[y] = Verdict(rt'.reply[y])
        BY <1>1, <3>1, <3>2 DEF Stood, Stand
      <4> QED BY <1>2, <3>1, <4>1
    <3>3. CASE rt.reply[y] = "none" /\ y = rt.sending
      <4>1. Now[y] = "sent" /\ Then[y] = "sent"
        BY <1>1, <2>1, <3>3 DEF Stood, Stand
      <4> QED BY <1>2, <4>1
    <3>4. CASE rt.reply[y] = "none" /\ y # rt.sending
      <4>1. y # rt'.sending
        BY <2>1, <2>3, <2>5, <3>4
      <4>2. Now[y] = StageAt(rt, at, y) /\ Then[y] = StageAt(rt', at', y)
        BY <1>1 DEF Stood, Stand
      <4>3. Now[y] = Then[y]
        BY <2>1, <2>5, <3>1, <3>4, <4>1, <4>2 DEF StageAt
      <4> QED BY <1>2, <4>3
    <3> QED BY <3>2, <3>3, <3>4
  <2> QED BY <2>4, <2>5
<1> QED BY <1>1, <1>2, OthersIf

LEMMA LineMoves ==
  ASSUME Inv, Inv', NEW new, new \subseteq Executes, NEW q \in Seq(Item), Distinct(q), NEW some,
         Served(q, some), Items(q) = Items(rt.queue) \cup new,
         Ahead(q) = Ahead(rt.queue) \cup (Items(rt.queue) \X new),
         rt.sending \notin new, handled' = handled,
         \A x \in Executes : calls'[x] = "calling" <=>
           calls[x] = "calling" \/ (x = rt'.sending /\ x # rt.sending)
  PROVE  Promise!LineMoves(new)
<1> DEFINE waiting == {x \in Executes : Now[x] = "waiting"}
           line == Ahead(rt.queue) \cup (waiting \X new)
           sent == {x \in Executes : Then[x] = "sent"}
<1>1. Stood /\ Stand /\ rt.queue \in Seq(Item)
  BY StandMeans DEF Inv, TypeInv, Runtime
<1>2. waiting = Items(rt.queue)
  <2>1. Items(rt.queue) \subseteq Executes
    BY <1>1, ItemRequest
  <2> QED BY <1>1, <2>1 DEF Stood
<1>3. line = Ahead(q)
  BY <1>2
<1>4. \A x \in Executes : x \in sent <=> x = rt'.sending
  BY <1>1 DEF Stand
<1>5. \A p \in line : p[1] \in Executes /\ p[2] \in Executes /\ p[1] \in Items(q)
                      /\ p[2] \in Items(q) /\ p[1] # p[2]
  BY <1>3, AheadInside, ItemRequest
<1>6. \A x \in Executes : Then[x] = "waiting" <=> x \in Items(rt'.queue)
  BY <1>1 DEF Stand
<1>7. Ahead(rt'.queue) = {p \in line : Then[p[1]] = "waiting" /\ Then[p[2]] = "waiting"}
  <2>1. Ahead(rt'.queue) = Among(Ahead(q), Items(rt'.queue))
    BY DEF Served, InTurn, Kept
  <2> HIDE DEF line
  <2> QED BY <1>3, <1>5, <1>6, <2>1 DEF Among
<1>8. \A x, y \in sent : x = y
  BY <1>4
<1>9. ASSUME NEW p \in line, p[2] \in sent PROVE Then[p[1]] \in {"refused", "failed"}
  <2>1. p[2] = rt'.sending /\ p \in Ahead(q) /\ p[1] \in Executes
    BY <1>3, <1>4, <1>5, <1>9
  <2>2. rt'.sending # rt.sending
    <3>1. \A x \in Items(rt.queue) : x # rt.sending
      BY <1>1, ItemRequest DEF Stood
    <3> QED BY <1>5, <2>1, <3>1
  <2>3. rt'.sending # None
    BY <1>5, <2>1, DispatchAssumption DEF Requests
  <2>4. p[1] \in Items(q) \ Items(rt'.queue) /\ p[1] # rt'.sending
    BY <1>5, <2>1, <2>2, <2>3 DEF Served, InTurn
  <2>5. rt'.reply[p[1]] \in NotServed
    BY <2>4 DEF Served, InTurn
  <2> QED BY <1>1, <2>1, <2>5 DEF Stand
<1>10. {x \in Executes : calls'[x] = "calling"} =
         {x \in Executes : calls[x] = "calling"} \cup (sent \ {x \in Executes : Now[x] = "sent"})
  <2>1. \A x \in Executes : Now[x] = "sent" <=> x = rt.sending
    BY <1>1 DEF Stood
  <2>2. \A x \in Executes :
          x \in sent \ {y \in Executes : Now[y] = "sent"} <=> x = rt'.sending /\ x # rt.sending
    BY <1>4, <2>1
  <2>3. sent \subseteq Executes
    OBVIOUS
  <2> HIDE DEF sent
  <2> QED BY <2>2, <2>3
<1> HIDE DEF sent
<1>11. sent = {x \in Executes : Then[x] = "sent"}
  BY DEF sent
<1> QED BY <1>7, <1>8, <1>9, <1>10, <1>11, LineMovesIf

LEMMA StepsIf ==
  ASSUME NEW x \in Executes
  PROVE  /\ Now[x] = "new" /\ Then[x] \in {"asked", "refused"}
              /\ Promise!Others({x}, {"refused", "failed"}) /\ Promise!LineMoves({})
              => Promise!Ask(x)
         /\ Now[x] = "asked" /\ Then[x] \in {"waiting", "sent", "refused"}
              /\ Promise!Others({x}, {"sent", "refused", "failed"}) /\ Promise!LineMoves({x})
              => Promise!Accept(x)
         /\ Now[x] = "sent" /\ calls[x] # "calling"
              /\ (Then[x] = "failed" \/ (Then[x] = "ok" /\ handled[x] = 1))
              /\ Promise!Others({x}, {"sent", "refused", "failed"}) /\ Promise!LineMoves({})
              => Promise!Answer(x)
<1> USE StagesNow
<1> HIDE DEF Now, Then
<1>1. Now[x] = "new" /\ Then[x] \in {"asked", "refused"}
        /\ Promise!Others({x}, {"refused", "failed"}) /\ Promise!LineMoves({}) => Promise!Ask(x)
  BY DEF Promise!Ask
<1>2. Now[x] = "asked" /\ Then[x] \in {"waiting", "sent", "refused"}
        /\ Promise!Others({x}, {"sent", "refused", "failed"}) /\ Promise!LineMoves({x})
        => Promise!Accept(x)
  BY DEF Promise!Accept
<1>3. Now[x] = "sent" /\ calls[x] # "calling"
        /\ (Then[x] = "failed" \/ (Then[x] = "ok" /\ handled[x] = 1))
        /\ Promise!Others({x}, {"sent", "refused", "failed"}) /\ Promise!LineMoves({})
        => Promise!Answer(x)
  BY DEF Promise!Answer
<1> QED BY <1>1, <1>2, <1>3

\* The queue itself is the line, with nobody new.
LEMMA SameLine ==
  ASSUME Inv
  PROVE  /\ rt.queue \in Seq(Item) /\ Distinct(rt.queue) /\ Items(rt.queue) = Items(rt.queue) \cup {}
         /\ Ahead(rt.queue) = Ahead(rt.queue) \cup (Items(rt.queue) \X {})
<1>1. rt.queue \in Seq(Item) /\ Distinct(rt.queue)
  BY DEF Inv, TypeInv, Runtime, Processing
<1>2. Items(rt.queue) \X {} = {}
  OBVIOUS
<1> QED BY <1>1, <1>2

\* The same for a handler that does not resume the processor.
LEMMA QuietMoves ==
  ASSUME Inv, Inv', NEW some, some \cap Items(rt.queue) = {},
         rt'.sending = rt.sending, handled' = handled, InTurn(rt.queue, rt.sending, rt'),
         \A x \in Executes : calls'[x] = calls[x],
         \A y \in Executes \ some :
           /\ rt'.reply[y] = rt.reply[y] \/ y \in Items(rt.queue) \ Items(rt'.queue)
           /\ at'[y] = at[y]
  PROVE  Promise!Others(some, {"refused", "failed"}) /\ Promise!LineMoves({})
<1> DEFINE q == rt.queue
           out == {"refused", "failed"}
<1>1. Served(q, some)
  BY DEF Served, InTurn, Kept
<1>2. /\ q \in Seq(Item) /\ Distinct(q) /\ Items(q) = Items(rt.queue) \cup {}
      /\ Ahead(q) = Ahead(rt.queue) \cup (Items(rt.queue) \X {})
  BY SameLine
<1>3. \A x \in Executes : calls'[x] = "calling" <=>
        calls[x] = "calling" \/ (x = rt'.sending /\ x # rt.sending)
  OBVIOUS
<1>4. /\ Items(rt.queue) \subseteq Items(q) /\ Items(q) \subseteq Items(rt.queue) \cup some
      /\ {"refused", "failed"} \subseteq out /\ rt'.sending \in {rt.sending, None} \cup some
  OBVIOUS
<1> HIDE DEF q, out
<1>5. Promise!Others(some, out)
  BY <1>1, <1>4, OthersMove
<1>6. Promise!LineMoves({})
  <2> DEFINE new == {}
  <2>1. new \subseteq Executes /\ rt.sending \notin new
    OBVIOUS
  <2>2. Items(q) = Items(rt.queue) \cup new /\ Ahead(q) = Ahead(rt.queue) \cup (Items(rt.queue) \X new)
    BY <1>2
  <2> HIDE DEF new
  <2>3. Promise!LineMoves(new)
    BY <1>1, <1>2, <1>3, <2>1, <2>2, LineMoves
  <2> QED BY <2>3 DEF new
<1> QED BY <1>5, <1>6 DEF out

LEMMA ReceiveExecuteAsks ==
  ASSUME Inv, Inv', NEW x \in Executes, ReceiveExecute(x) PROVE Promise!Ask(x)
<1> DEFINE c == Clean(rt)
<1>1. /\ c \in Runtime /\ Processing(c) /\ c.sending = rt.sending /\ Serves(rt, rt.sending, c)
      /\ InTurn(rt.queue, rt.sending, c)
  BY CleanKeeps, CleanInTurn DEF Inv, TypeInv
<1>2. /\ at[x] = "new" /\ calls' = calls /\ handled' = handled
      /\ \/ /\ KeyOf[x] \in DOMAIN c.cancelled
            /\ rt' = Reply(c, {x}, "action_cancelled") /\ Waiting(x)
         \/ /\ KeyOf[x] \in DOMAIN c.executed \ DOMAIN c.cancelled
            /\ rt' = Reply(c, {x}, "duplicate") /\ Waiting(x)
         \/ /\ KeyOf[x] \notin DOMAIN c.cancelled \cup DOMAIN c.executed
            /\ rt' = c /\ at' = [at EXCEPT ![x] = "url"]
  BY DEF ReceiveExecute, page
<1> HIDE DEF c
<1>3. /\ x \in Requests /\ Executes \subseteq Requests /\ at \in [Requests -> RequestStates]
      /\ rt.queue \in Seq(Item)
  BY DEF Inv, TypeInv, Requests, Runtime
<1>4. rt.reply[x] = "none" /\ x \notin Items(rt.queue) /\ x # rt.sending
  BY <1>2 DEF Inv, Placed
<1>5. c.reply[x] = "none" /\ Items(c.queue) \subseteq Items(rt.queue)
  BY <1>1, <1>3, <1>4 DEF Serves
<1>6. \A y \in Executes : y # x => at'[y] = at[y]
  BY <1>2, <1>3 DEF Waiting
<1>7. /\ rt'.queue = c.queue /\ rt'.sending = rt.sending
      /\ \A y \in Executes : y # x => rt'.reply[y] = c.reply[y]
      /\ \/ rt'.reply[x] \in {"action_cancelled", "duplicate"}
         \/ rt'.reply[x] = "none" /\ at'[x] = "url"
  <2>1. ASSUME NEW answer \in {"action_cancelled", "duplicate"}, rt' = Reply(c, {x}, answer)
        PROVE  /\ rt'.queue = c.queue /\ rt'.sending = rt.sending /\ rt'.reply[x] = answer
               /\ \A y \in Executes : y # x => rt'.reply[y] = c.reply[y]
    <3>1. answer \in Answers
      BY DEF Answers
    <3>2. /\ SameButReply(c, rt')
          /\ \A y \in Requests : rt'.reply[y] = IF y \in {x} THEN answer ELSE c.reply[y]
      BY <1>1, <2>1, <3>1, ReplyMeans
    <3> QED BY <1>1, <1>3, <3>2 DEF SameButReply
  <2>2. ASSUME rt' = c, at' = [at EXCEPT ![x] = "url"]
        PROVE  rt'.queue = c.queue /\ rt'.sending = rt.sending /\ rt'.reply = c.reply
               /\ rt'.reply[x] = "none" /\ at'[x] = "url"
    BY <1>1, <1>3, <1>5, <2>2
  <2> QED BY <1>2, <2>1, <2>2
<1>8. InTurn(rt.queue, rt.sending, rt')
  <2>1. ASSUME NEW y \in Items(rt.queue) \ Items(c.queue)
        PROVE  y = rt'.sending \/ rt'.reply[y] \in NotServed
    <3>1. y # x /\ y \in Executes
      BY <1>3, <1>4, ItemRequest
    <3> QED BY <1>1, <1>7, <3>1 DEF InTurn
  <2> QED BY <1>1, <1>7, <2>1 DEF InTurn
<1>9. \A y \in Executes \ {x} :
        /\ rt'.reply[y] = rt.reply[y] \/ y \in Items(rt.queue) \ Items(rt'.queue)
        /\ at'[y] = at[y]
  BY <1>1, <1>3, <1>6, <1>7 DEF Serves
<1>10. Promise!Others({x}, {"refused", "failed"}) /\ Promise!LineMoves({})
  <2> DEFINE some == {x}
  <2>1. some \cap Items(rt.queue) = {}
    BY <1>4
  <2>2. \A y \in Executes \ some :
          /\ rt'.reply[y] = rt.reply[y] \/ y \in Items(rt.queue) \ Items(rt'.queue)
          /\ at'[y] = at[y]
    BY <1>9
  <2> HIDE DEF some
  <2>3. \A y \in Executes : calls'[y] = calls[y]
    BY <1>2
  <2>4. Promise!Others(some, {"refused", "failed"}) /\ Promise!LineMoves({})
    BY <1>2, <1>7, <1>8, <2>1, <2>2, <2>3, QuietMoves
  <2> QED BY <2>4 DEF some
<1>11. Stood /\ Stand
  BY StandMeans
<1>12. Now[x] = "new"
  BY <1>2, <1>11 DEF Stood
<1>13. Then[x] \in {"asked", "refused"}
  <2>1. CASE rt'.reply[x] \in {"action_cancelled", "duplicate"}
    <3>1. Then[x] = Verdict(rt'.reply[x])
      BY <1>11, <2>1 DEF Stand
    <3> QED BY <2>1, <3>1 DEF Verdict
  <2>2. CASE rt'.reply[x] = "none" /\ at'[x] = "url"
    <3>1. x # rt'.sending /\ x \notin Items(rt'.queue)
      BY <1>4, <1>5, <1>7
    <3>2. Then[x] = StageAt(rt', at', x)
      BY <1>11 DEF Stand
    <3> QED BY <2>2, <3>1, <3>2 DEF StageAt
  <2> QED BY <1>7, <2>1, <2>2
<1> QED BY <1>10, <1>12, <1>13, StepsIf

\* sendToActiveTab begins for the request that is sent from now on.
LEMMA CallingMeans ==
  ASSUME Inv, Inv', Calling
  PROVE  \A x \in Executes : calls'[x] = "calling" <=>
           calls[x] = "calling" \/ (x = rt'.sending /\ x # rt.sending)
<1> USE DispatchAssumption
<1>1. calls \in [Requests -> CallStates] /\ rt'.sending \in Executes \cup {None}
      /\ Executes \subseteq Requests /\ None \notin Executes
  BY DEF Inv, TypeInv, Runtime, Requests
<1>2. CASE rt'.sending \notin {None, rt.sending}
  <2>1. calls' = [calls EXCEPT ![rt'.sending] = "calling"]
    BY <1>2 DEF Calling
  <2> QED BY <1>1, <1>2, <2>1
<1>3. CASE rt'.sending \in {None, rt.sending}
  <2>1. calls' = calls
    BY <1>3 DEF Calling
  <2> QED BY <1>1, <1>3, <2>1
<1> QED BY <1>2, <1>3

LEMMA UrlKnownAccepts ==
  ASSUME Inv, Inv', NEW x \in Executes, UrlKnown(x) PROVE Promise!Accept(x)
<1> USE DispatchAssumption
<1> DEFINE item == [request |-> x, queuedAt |-> now]
           q == Append(rt.queue, item)
<1>1. /\ at[x] = "url" /\ Waiting(x) /\ Calling /\ handled' = handled
      /\ \/ rt' = Reply(rt, {x}, "refused")
         \/ rt' = Reply(rt, {x}, "action_queue_full")
         \/ rt' = Kick([rt EXCEPT !.queue = q])
  BY DEF UrlKnown, page
<1>2. /\ rt \in Runtime /\ Processing(rt) /\ now \in Nat /\ Executes \subseteq Requests
      /\ rt.queue \in Seq(Item) /\ Distinct(rt.queue) /\ at \in [Requests -> RequestStates]
      /\ None \notin Executes
  BY DEF Inv, TypeInv, Requests, Runtime, Processing
<1>3. rt.reply[x] = "none" /\ x \notin Items(rt.queue) /\ x # rt.sending
  BY <1>1 DEF Inv, Placed
<1>4. item \in Item /\ item.request = x /\ ~ Expired(item)
  <2>1. item \in Item /\ item.request = x /\ item.queuedAt = now
    BY <1>2 DEF Item
  <2> HIDE DEF item
  <2>2. ~ (now + RequestTtl <= now)
    BY <1>2
  <2> QED BY <2>1, <2>2 DEF Expired
<1>5. \A i \in DOMAIN q : q[i].request = x => q[i] = item
  <2>1. /\ q \in Seq(Item) /\ Len(q) = Len(rt.queue) + 1 /\ q[Len(rt.queue) + 1] = item
        /\ \A i \in 1 .. Len(rt.queue) : q[i] = rt.queue[i]
        /\ DOMAIN rt.queue = 1 .. Len(rt.queue) /\ Len(rt.queue) \in Nat
    BY <1>2, <1>4, AppendProperties, LenProperties
  <2> HIDE DEF q, item
  <2>2. DOMAIN q = 1 .. Len(q)
    BY <2>1, LenProperties
  <2>3. \A i \in 1 .. Len(rt.queue) : q[i].request # x
    BY <1>3, <2>1 DEF Items
  <2>4. \A i \in DOMAIN q : i \in 1 .. Len(rt.queue) \/ i = Len(rt.queue) + 1
    BY <2>1, <2>2
  <2> QED BY <2>1, <2>3, <2>4
<1> HIDE DEF item
<1>6. q \in Seq(Item) /\ Distinct(q) /\ Items(q) = Items(rt.queue) \cup {x}
  BY <1>2, <1>3, <1>4, AppendItem
<1>7. Ahead(q) = Ahead(rt.queue) \cup (Items(rt.queue) \X {x})
  BY <1>2, <1>3, <1>4, AppendOrder
<1> HIDE DEF q
<1>8. at'[x] = "waiting" /\ \A y \in Executes : y # x => at'[y] = at[y]
  BY <1>1, <1>2 DEF Waiting
<1>9. \A y \in Executes : calls'[y] = "calling" <=>
        calls[y] = "calling" \/ (y = rt'.sending /\ y # rt.sending)
  BY <1>1, CallingMeans
<1>10. Stood /\ Stand
  BY StandMeans
<1>11. Now[x] = "asked"
  <2>1. Now[x] = StageAt(rt, at, x)
    BY <1>10 DEF Stood
  <2> QED BY <1>1, <1>3, <2>1 DEF StageAt
<1>12. ASSUME Served(q, {x}), Then[x] \in {"waiting", "sent", "refused"}
       PROVE  Promise!Accept(x)
  <2> DEFINE new == {x}
             out == {"sent", "refused", "failed"}
  <2>1. /\ new \subseteq Executes /\ Items(q) = Items(rt.queue) \cup new
        /\ Ahead(q) = Ahead(rt.queue) \cup (Items(rt.queue) \X new) /\ rt.sending \notin new
        /\ Served(q, new)
    BY <1>3, <1>6, <1>7, <1>12
  <2>2. {"refused", "failed"} \subseteq out /\ "sent" \in out
    OBVIOUS
  <2> HIDE DEF new, out
  <2>3. Promise!LineMoves(new)
    BY <1>1, <1>6, <1>9, <2>1, LineMoves
  <2>4. Items(rt.queue) \subseteq Items(q) /\ Items(q) \subseteq Items(rt.queue) \cup new
    BY <2>1
  <2>5. Promise!Others(new, out)
    BY <2>1, <2>2, <2>4, OthersMove
  <2>6. Promise!LineMoves({x}) /\ Promise!Others({x}, {"sent", "refused", "failed"})
    BY <2>3, <2>5 DEF new, out
  <2> QED BY <1>11, <1>12, <2>6, StepsIf
<1>13. ASSUME NEW answer \in {"refused", "action_queue_full"}, rt' = Reply(rt, {x}, answer)
       PROVE  Promise!Accept(x)
  <2>1. answer \in Answers /\ answer \in NotServed /\ answer # "none"
    BY DEF Answers, NotServed
  <2>2. /\ SameButReply(rt, rt')
        /\ \A y \in Requests : rt'.reply[y] = IF y \in {x} THEN answer ELSE rt.reply[y]
    BY <1>2, <1>13, <2>1, ReplyMeans
  <2>3. /\ rt'.queue = rt.queue /\ rt'.sending = rt.sending /\ rt'.reply[x] = answer
        /\ \A y \in Executes : y # x => rt'.reply[y] = rt.reply[y]
    BY <1>2, <2>2 DEF SameButReply
  <2>4. Kept(q, rt.queue)
    <3>1. \A p \in Ahead(rt.queue) : p[1] \in Items(rt.queue) /\ p[2] \in Items(rt.queue)
      BY <1>2, AheadInside
    <3>2. \A p \in Items(rt.queue) \X {x} : p[2] \notin Items(rt.queue)
      BY <1>3
    <3> QED BY <1>6, <1>7, <3>1, <3>2 DEF Kept, Among
  <2>5. InTurn(q, rt.sending, rt')
    BY <1>6, <2>1, <2>3, <2>4 DEF InTurn
  <2>6. Served(q, {x})
    BY <1>6, <1>8, <2>3, <2>5 DEF Served
  <2>7. Then[x] = "refused"
    <3>1. Then[x] = Verdict(rt'.reply[x])
      BY <1>10, <2>1, <2>3 DEF Stand
    <3> QED BY <2>3, <3>1 DEF Verdict
  <2> QED BY <1>12, <2>6, <2>7
<1>14. ASSUME rt' = Kick([rt EXCEPT !.queue = q]) PROVE Promise!Accept(x)
  <2> DEFINE r == [rt EXCEPT !.queue = q]
  <2>1. /\ r \in Runtime /\ r.queue = q /\ r.sending = rt.sending /\ r.processing = rt.processing
        /\ r.reply = rt.reply
    BY <1>2, <1>6 DEF Runtime
  <2>2. rt' = Kick(r)
    BY <1>14
  <2> HIDE DEF r
  <2>3. Processing(r)
    BY <1>2, <1>6, <2>1 DEF Processing
  <2>4. Serves(r, rt.sending, rt')
    BY <1>2, <2>1, <2>2, <2>3, KickServes
  <2>5. InTurn(q, rt.sending, rt') /\ Overstayed(r, rt')
    BY <1>2, <2>1, <2>2, <2>3, KickInTurn
  <2>6. rt.sending # None => rt'.sending = rt.sending
    BY <2>1, <2>2, <2>3 DEF Kick, Processing
  <2>7. Served(q, {x})
    <3>1. /\ Items(rt'.queue) \subseteq Items(q)
          /\ rt'.sending \in {rt.sending, None} \cup Items(q)
      BY <2>1, <2>4 DEF Serves
    <3>2. ASSUME NEW y \in Executes \ {x}
          PROVE  /\ rt'.reply[y] = rt.reply[y] \/ y \in Items(q) \ Items(rt'.queue)
                 /\ at'[y] = at[y]
                 /\ y = rt.sending => y = rt'.sending
      BY <1>2, <1>8, <2>1, <2>4, <2>6 DEF Serves
    <3> QED BY <2>5, <3>1, <3>2 DEF Served
  <2>8. Then[x] \in {"waiting", "sent", "refused"}
    <3>1. CASE x \in Items(rt'.queue)
      BY <1>10, <3>1 DEF Stand
    <3>2. CASE x = rt'.sending
      BY <1>10, <3>2 DEF Stand
    <3>3. CASE x \notin Items(rt'.queue) /\ x # rt'.sending
      <4>1. rt'.reply[x] \in NotServed
        BY <1>6, <2>5, <3>3 DEF InTurn
      <4>2. rt'.reply[x] # "action_dispatch_failed"
        <5>1. rt'.reply[x] = "action_dispatch_failed" =>
                \E i \in DOMAIN q : q[i].request = x /\ Expired(q[i])
          BY <1>2, <1>3, <2>1, <2>5 DEF Overstayed
        <5> QED BY <1>4, <1>5, <5>1
      <4>3. rt'.reply[x] # "none" /\ rt'.reply[x] \notin {"ok", "lost"}
        BY <4>1 DEF NotServed
      <4>4. Then[x] = Verdict(rt'.reply[x])
        BY <1>10, <4>3 DEF Stand
      <4> QED BY <4>2, <4>3, <4>4 DEF Verdict
    <3> QED BY <3>1, <3>2, <3>3
  <2> QED BY <1>12, <2>7, <2>8
<1> QED BY <1>1, <1>13, <1>14

LEMMA LeaveIf == Promise!Others({}, {"refused", "failed"}) /\ Promise!LineMoves({}) => Promise!Leave
BY DEF Promise!Leave

\* A handler that only takes requests from the queue.
LEMMA QuietLeaves ==
  ASSUME Inv, Inv', rt'.sending = rt.sending, handled' = handled,
         InTurn(rt.queue, rt.sending, rt'),
         \A x \in Executes : calls'[x] = calls[x] /\ at'[x] = at[x],
         \A y \in Executes : rt'.reply[y] = rt.reply[y] \/ y \in Items(rt.queue) \ Items(rt'.queue)
  PROVE  Promise!Leave
<1> DEFINE some == {}
<1>1. some \cap Items(rt.queue) = {}
  OBVIOUS
<1>2. \A y \in Executes \ some :
        /\ rt'.reply[y] = rt.reply[y] \/ y \in Items(rt.queue) \ Items(rt'.queue)
        /\ at'[y] = at[y]
  OBVIOUS
<1> HIDE DEF some
<1>3. Promise!Others(some, {"refused", "failed"}) /\ Promise!LineMoves({})
  BY <1>1, <1>2, QuietMoves
<1> QED BY <1>3, LeaveIf DEF some

LEMMA ReceiveCancelLeaves ==
  ASSUME Inv, Inv', NEW x \in Cancels, ReceiveCancel(x) PROVE Promise!Leave
<1> USE DispatchAssumption
<1> DEFINE c == Clean(rt)
<1>1. /\ c \in Runtime /\ Processing(c) /\ c.sending = rt.sending /\ Serves(rt, rt.sending, c)
      /\ InTurn(rt.queue, rt.sending, c)
  BY CleanKeeps, CleanInTurn DEF Inv, TypeInv
<1>2. /\ Waiting(x) /\ calls' = [calls EXCEPT ![x] = "calling"] /\ handled' = handled
      /\ rt' = Reply([c EXCEPT !.cancelled = Put(@, KeyOf[x], now + KeyTtl),
                               !.queue = Uncancelled(c.queue, KeyOf[x])],
                     Items(c.queue) \ Items(Uncancelled(c.queue, KeyOf[x])), "action_cancelled")
  BY DEF ReceiveCancel, page
<1> HIDE DEF c
<1>3. /\ x \in Requests /\ x \notin Executes /\ Executes \subseteq Requests /\ rt \in Runtime
      /\ at \in [Requests -> RequestStates] /\ calls \in [Requests -> CallStates]
      /\ KeyOf[x] \in Keys /\ now + KeyTtl \in Nat
  BY DEF Inv, TypeInv, Requests
<1>4. /\ Serves(c, rt.sending, rt') /\ rt'.sending = rt.sending
      /\ InTurn(c.queue, rt.sending, rt')
  <2> DEFINE key == KeyOf[x]
             time == now + KeyTtl
             d == Reply([c EXCEPT !.cancelled = Put(@, key, time),
                                  !.queue = Uncancelled(c.queue, key)],
                        Items(c.queue) \ Items(Uncancelled(c.queue, key)), "action_cancelled")
  <2>1. key \in Keys /\ time \in Nat /\ rt' = d
    BY <1>2, <1>3
  <2> HIDE DEF key, time
  <2>2. Serves(c, c.sending, d) /\ d.sending = c.sending
    BY <1>1, <2>1, UncancelledServes
  <2>3. InTurn(c.queue, c.sending, d)
    BY <1>1, <2>1, UncancelledInTurn
  <2> HIDE DEF d
  <2> QED BY <1>1, <2>1, <2>2, <2>3
<1>5. InTurn(rt.queue, rt.sending, rt')
  BY <1>1, <1>3, <1>4, InTurnTwice
<1>6. \A y \in Executes : calls'[y] = calls[y] /\ at'[y] = at[y]
  BY <1>2, <1>3 DEF Waiting
<1>7. \A y \in Executes : rt'.reply[y] = rt.reply[y] \/ y \in Items(rt.queue) \ Items(rt'.queue)
  BY <1>1, <1>3, <1>4 DEF Serves
<1> QED BY <1>2, <1>4, <1>5, <1>6, <1>7, QuietLeaves

LEMMA ReceiveSnapshotLeaves ==
  ASSUME Inv, Inv', NEW x \in Snapshots, ReceiveSnapshot(x) PROVE Promise!Leave
<1> USE DispatchAssumption
<1>1. /\ Clean(rt).sending = rt.sending /\ Serves(rt, rt.sending, Clean(rt))
      /\ InTurn(rt.queue, rt.sending, Clean(rt))
  BY CleanKeeps, CleanInTurn DEF Inv, TypeInv
<1>2. /\ Waiting(x) /\ calls' = [calls EXCEPT ![x] = "calling"] /\ rt' = Clean(rt)
      /\ handled' = handled
  BY DEF ReceiveSnapshot, page
<1>3. /\ x \in Requests /\ x \notin Executes /\ Executes \subseteq Requests
      /\ at \in [Requests -> RequestStates] /\ calls \in [Requests -> CallStates]
  BY DEF Inv, TypeInv, Requests
<1>4. \A y \in Executes : calls'[y] = calls[y] /\ at'[y] = at[y]
  BY <1>2, <1>3 DEF Waiting
<1>5. \A y \in Executes : rt'.reply[y] = rt.reply[y] \/ y \in Items(rt.queue) \ Items(rt'.queue)
  BY <1>1, <1>2, <1>3 DEF Serves
<1> QED BY <1>1, <1>2, <1>4, <1>5, QuietLeaves

LEMMA ContentResultLeaves ==
  ASSUME Inv, Inv', NEW x \in Executes \cup Snapshots, ContentResult(x) PROVE Promise!Leave
<1> DEFINE c == Clean(rt)
           p == Without(c.pending, {x})
           f == Without(c.inFlight, {x})
<1>1. /\ c \in Runtime /\ c.sending = rt.sending /\ Serves(rt, rt.sending, c)
      /\ InTurn(rt.queue, rt.sending, c)
  BY CleanKeeps, CleanInTurn DEF Inv, TypeInv
<1>2. /\ rt' = [c EXCEPT !.pending = p, !.inFlight = f] \/ rt' = c
      /\ UNCHANGED <<at, calls, handled>>
  BY DEF ContentResult
<1> HIDE DEF c
<1>3. rt'.queue = c.queue /\ rt'.sending = c.sending /\ rt'.reply = c.reply
  <2> HIDE DEF p, f
  <2> QED BY <1>1, <1>2 DEF Runtime
<1>4. InTurn(rt.queue, rt.sending, rt')
  BY <1>1, <1>3 DEF InTurn
<1>5. \A y \in Executes : rt'.reply[y] = rt.reply[y] \/ y \in Items(rt.queue) \ Items(rt'.queue)
  BY <1>1, <1>3 DEF Serves, Requests
<1> QED BY <1>1, <1>2, <1>3, <1>4, <1>5, QuietLeaves

LEMMA ProcessorResumesAnswers ==
  ASSUME Inv, Inv', NEW x \in Executes, ProcessorResumes(x) PROVE Promise!Answer(x)
<1> USE DispatchAssumption
<1>1. /\ rt.sending = x /\ Calling /\ UNCHANGED <<at, handled>>
      /\ \/ calls[x] = "resolved" /\ rt' = AfterDispatch(rt, x)
         \/ calls[x] = "rejected" /\ rt' = AfterFailure(rt, x)
  BY DEF ProcessorResumes, page
<1>2. /\ rt \in Runtime /\ Processing(rt) /\ now \in Nat /\ Executes \subseteq Requests
      /\ None \notin Executes /\ rt.queue \in Seq(Item) /\ Distinct(rt.queue)
      /\ rt.executed \in Maps(Keys, Nat)
  BY DEF Inv, TypeInv, Requests, Runtime, Processing
<1>3. rt.reply[x] = "none" /\ x \notin Items(rt.queue)
  BY <1>1 DEF Inv, Placed
<1>4. calls[x] # "calling" /\ (calls[x] = "resolved" => handled[x] = 1)
  BY <1>1 DEF Inv, Counted
<1>5. ASSUME NEW r \in Runtime, rt' = TakeNext(r), r.queue = rt.queue,
             \A y \in Executes : y # x => r.reply[y] = rt.reply[y],
             r.reply[x] = "action_dispatch_failed" \/ (r.reply[x] = "ok" /\ calls[x] = "resolved")
      PROVE  Promise!Answer(x)
  <2>1. Advanced(r, rt')
    BY <1>2, <1>5, TakeNextMeans
  <2>2. /\ InTurn(rt.queue, None, rt') /\ Items(rt'.queue) \subseteq Items(rt.queue)
        /\ rt'.sending \in {None} \cup Items(rt.queue)
        /\ \A y \in Requests : rt'.reply[y] = r.reply[y] \/ y \in Items(rt.queue) \ Items(rt'.queue)
    BY <1>5, <2>1 DEF Advanced
  <2>3. rt'.reply[x] = r.reply[x] /\ rt'.reply[x] # "none"
    BY <1>2, <1>3, <1>5, <2>2
  <2> DEFINE some == {x}
             out == {"sent", "refused", "failed"}
  <2>4. Served(rt.queue, some)
    <3>1. InTurn(rt.queue, rt.sending, rt')
      BY <2>2 DEF InTurn
    <3>2. ASSUME NEW y \in Executes \ some
          PROVE  /\ rt'.reply[y] = rt.reply[y] \/ y \in Items(rt.queue) \ Items(rt'.queue)
                 /\ at'[y] = at[y]
                 /\ y = rt.sending => y = rt'.sending
      BY <1>1, <1>2, <1>5, <2>2
    <3> HIDE DEF some
    <3> QED BY <2>2, <3>1, <3>2 DEF Served
  <2>5. Promise!Others({x}, {"sent", "refused", "failed"})
    <3>1. /\ Items(rt.queue) \subseteq Items(rt.queue) \cup some
          /\ {"refused", "failed"} \subseteq out /\ "sent" \in out
      OBVIOUS
    <3> HIDE DEF some, out
    <3>2. Promise!Others(some, out)
      BY <2>4, <3>1, OthersMove
    <3> QED BY <3>2 DEF some, out
  <2>6. Promise!LineMoves({})
    <3> DEFINE new == {}
    <3>1. new \subseteq Executes /\ rt.sending \notin new
      OBVIOUS
    <3>2. /\ Items(rt.queue) = Items(rt.queue) \cup new
          /\ Ahead(rt.queue) = Ahead(rt.queue) \cup (Items(rt.queue) \X new)
      BY SameLine
    <3>3. \A y \in Executes : calls'[y] = "calling" <=>
            calls[y] = "calling" \/ (y = rt'.sending /\ y # rt.sending)
      BY <1>1, CallingMeans
    <3> HIDE DEF new, some
    <3>4. handled' = handled
      BY <1>1
    <3>5. Promise!LineMoves(new)
      BY <1>2, <2>4, <3>1, <3>2, <3>3, <3>4, LineMoves
    <3> QED BY <3>5 DEF new
  <2>7. Stood /\ Stand
    BY StandMeans
  <2>8. Now[x] = "sent"
    BY <1>1, <2>7 DEF Stood
  <2>9. Then[x] = Verdict(r.reply[x])
    BY <2>3, <2>7 DEF Stand
  <2>10. Then[x] = "failed" \/ (Then[x] = "ok" /\ handled[x] = 1)
    BY <1>4, <1>5, <2>9 DEF Verdict
  <2> QED BY <1>4, <2>5, <2>6, <2>8, <2>10, StepsIf
<1>6. ASSUME calls[x] = "resolved", rt' = AfterDispatch(rt, x) PROVE Promise!Answer(x)
  <2> DEFINE m == Put(rt.executed, KeyOf[x], now + KeyTtl)
             r1 == [rt EXCEPT !.executed = m]
             r2 == Expect(r1, x)
             r == Reply(r2, {x}, "ok")
  <2>1. KeyOf[x] \in Keys /\ now + KeyTtl \in Nat /\ "ok" \in Answers
    BY <1>2 DEF Answers
  <2>2. m \in Maps(Keys, Nat)
    <3> DEFINE key == KeyOf[x]
               time == now + KeyTtl
               old == rt.executed
    <3>1. key \in Keys /\ time \in Nat /\ old \in Maps(Keys, Nat)
      BY <1>2, <2>1
    <3> HIDE DEF key, time, old
    <3>2. Put(old, key, time) \in Maps(Keys, Nat)
      BY Zenon, <3>1, PutMeans
    <3> QED BY <3>2 DEF key, time, old
  <2>3. rt' = TakeNext(r)
    BY <1>6 DEF AfterDispatch
  <2> HIDE DEF m
  <2>4. r1 \in Runtime /\ r1.queue = rt.queue /\ r1.reply = rt.reply
    BY <1>2, <2>2 DEF Runtime
  <2> HIDE DEF r1
  <2>5. r2 \in Runtime /\ r2.queue = rt.queue /\ r2.reply = rt.reply
    BY <1>2, <2>4, ExpectMeans
  <2> HIDE DEF r2
  <2>6. /\ r \in Runtime /\ SameButReply(r2, r)
        /\ \A y \in Requests : r.reply[y] = IF y \in {x} THEN "ok" ELSE r2.reply[y]
    BY <2>1, <2>5, ReplyMeans
  <2> HIDE DEF r
  <2>7. /\ r.queue = rt.queue /\ r.reply[x] = "ok"
        /\ \A y \in Executes : y # x => r.reply[y] = rt.reply[y]
    BY <1>2, <2>5, <2>6 DEF SameButReply
  <2> QED BY <1>5, <1>6, <2>3, <2>6, <2>7
<1>7. ASSUME calls[x] = "rejected", rt' = AfterFailure(rt, x) PROVE Promise!Answer(x)
  <2> DEFINE failed == "action_dispatch_failed"
             r == Reply(rt, {x}, failed)
  <2>1. failed \in Answers
    BY DEF Answers
  <2>2. rt' = TakeNext(r)
    BY <1>7 DEF AfterFailure
  <2>3. /\ r \in Runtime /\ SameButReply(rt, r)
        /\ \A y \in Requests : r.reply[y] = IF y \in {x} THEN failed ELSE rt.reply[y]
    BY <1>2, <2>1, ReplyMeans
  <2> HIDE DEF r
  <2>4. /\ r.queue = rt.queue /\ r.reply[x] = failed
        /\ \A y \in Executes : y # x => r.reply[y] = rt.reply[y]
    BY <1>2, <2>3 DEF SameButReply
  <2> QED BY <1>5, <2>2, <2>3, <2>4
<1> QED BY <1>1, <1>6, <1>7

\* Steps that the executor does not see.
LEMMA SameStages ==
  ASSUME rt'.queue = rt.queue, rt'.sending = rt.sending,
         \A x \in Executes : rt'.reply[x] = rt.reply[x] /\ (at'[x] = "new" <=> at[x] = "new")
  PROVE  Then = Now
<1>1. \A x \in Executes : StageAt(rt', at', x) = StageAt(rt, at, x)
  BY DEF StageAt
<1> QED BY <1>1 DEF Now, Then

LEMMA UnseenIf ==
  ASSUME Then = Now, rt'.queue = rt.queue,
         \A x \in Executes : (calls'[x] = "calling" <=> calls[x] = "calling") /\ handled'[x] = handled[x]
  PROVE  UNCHANGED Promise!vars
<1>1. [x \in Executes |-> StageOf(x)]' = [x \in Executes |-> StageOf(x)]
  BY StagesNow
<1>2. Ahead(rt.queue)' = Ahead(rt.queue)
  BY DEF Ahead
<1>3. {x \in Executes : calls[x] = "calling"}' = {x \in Executes : calls[x] = "calling"}
  OBVIOUS
<1>4. [x \in Executes |-> handled[x]]' = [x \in Executes |-> handled[x]]
  OBVIOUS
<1> QED BY <1>1, <1>2, <1>3, <1>4 DEF Promise!vars

\* What becomes of a message on its way.
LEMMA ArrivesIf ==
  ASSUME Then = Now, rt'.queue = rt.queue, NEW x \in Executes, calls[x] = "calling",
         \A y \in Executes : calls'[y] = "calling" <=> calls[y] = "calling" /\ y # x
  PROVE  /\ (\A y \in Executes : handled'[y] = IF y = x THEN handled[x] + 1 ELSE handled[y])
              => Promise!Reach(x)
         /\ (\A y \in Executes : handled'[y] = handled[y]) => Promise!Lose(x)
<1>1. [y \in Executes |-> StageOf(y)]' = [y \in Executes |-> StageOf(y)]
  BY StagesNow
<1>2. Ahead(rt.queue)' = Ahead(rt.queue)
  BY DEF Ahead
<1>3. {y \in Executes : calls[y] = "calling"}' = {y \in Executes : calls[y] = "calling"} \ {x}
  OBVIOUS
<1>4. ASSUME \A y \in Executes : handled'[y] = IF y = x THEN handled[x] + 1 ELSE handled[y]
      PROVE  [y \in Executes |-> handled[y]]' =
               [[y \in Executes |-> handled[y]] EXCEPT ![x] = @ + 1]
  BY <1>4
<1>5. ASSUME \A y \in Executes : handled'[y] = handled[y]
      PROVE  [y \in Executes |-> handled[y]]' = [y \in Executes |-> handled[y]]
  BY <1>5
<1>6. (\A y \in Executes : handled'[y] = IF y = x THEN handled[x] + 1 ELSE handled[y])
        => Promise!Reach(x)
  BY <1>1, <1>2, <1>3, <1>4 DEF Promise!Reach
<1>7. (\A y \in Executes : handled'[y] = handled[y]) => Promise!Lose(x)
  BY <1>1, <1>2, <1>3, <1>5 DEF Promise!Lose
<1> QED BY <1>6, <1>7

LEMMA PageHandlesReaches ==
  ASSUME Inv, NEW x \in Requests, PageHandles(x)
  PROVE  IF x \in Executes THEN Promise!Reach(x) ELSE UNCHANGED Promise!vars
<1>1. /\ calls[x] = "calling" /\ rt' = rt /\ at' = at
      /\ handled' = [handled EXCEPT ![x] = @ + 1]
      /\ calls' = [calls EXCEPT ![x] = "resolved"] \/ calls' = [calls EXCEPT ![x] = "rejected"]
  BY DEF PageHandles, Settle
<1>2. /\ calls \in [Requests -> CallStates] /\ handled \in [Requests -> Nat]
      /\ Executes \subseteq Requests
  BY DEF Inv, TypeInv, Requests
<1>3. Then = Now
  BY <1>1, SameStages
<1>4. \A y \in Executes : /\ calls'[y] = "calling" <=> calls[y] = "calling" /\ y # x
                          /\ handled'[y] = IF y = x THEN handled[x] + 1 ELSE handled[y]
  BY <1>1, <1>2
<1>5. CASE x \in Executes
  BY <1>1, <1>3, <1>4, <1>5, ArrivesIf
<1>6. CASE x \notin Executes
  <2>1. \A y \in Executes : (calls'[y] = "calling" <=> calls[y] = "calling") /\ handled'[y] = handled[y]
    BY <1>4, <1>6
  <2> QED BY <1>1, <1>3, <1>6, <2>1, UnseenIf
<1> QED BY <1>5, <1>6

LEMMA PageUnreachableLoses ==
  ASSUME Inv, NEW x \in Requests, PageUnreachable(x)
  PROVE  IF x \in Executes THEN Promise!Lose(x) ELSE UNCHANGED Promise!vars
<1>1. /\ calls[x] = "calling" /\ rt' = rt /\ at' = at /\ handled' = handled
      /\ calls' = [calls EXCEPT ![x] = "rejected"]
  BY DEF PageUnreachable, Settle, page
<1>2. calls \in [Requests -> CallStates] /\ Executes \subseteq Requests
  BY DEF Inv, TypeInv, Requests
<1>3. Then = Now
  BY <1>1, SameStages
<1>4. \A y \in Executes : /\ calls'[y] = "calling" <=> calls[y] = "calling" /\ y # x
                          /\ handled'[y] = handled[y]
  BY <1>1, <1>2
<1>5. CASE x \in Executes
  BY <1>1, <1>3, <1>4, <1>5, ArrivesIf
<1>6. CASE x \notin Executes
  <2>1. \A y \in Executes : (calls'[y] = "calling" <=> calls[y] = "calling") /\ handled'[y] = handled[y]
    BY <1>4, <1>6
  <2> QED BY <1>1, <1>3, <1>6, <2>1, UnseenIf
<1> QED BY <1>5, <1>6

LEMMA HandlerResumesUnseen ==
  ASSUME Inv, NEW x \in Requests, HandlerResumes(x) PROVE UNCHANGED Promise!vars
<1> USE DispatchAssumption
<1>1. /\ x \notin Executes /\ calls' = calls /\ handled' = handled
      /\ \/ /\ rt' = Reply(IF AwaitsResult(x) THEN Expect(rt, x) ELSE rt, {x}, "ok") /\ at' = at
         \/ rt' = rt /\ at' = [at EXCEPT ![x] = "thrown"]
  BY DEF HandlerResumes, page
<1>2. /\ rt \in Runtime /\ now \in Nat /\ Executes \subseteq Requests
      /\ at \in [Requests -> RequestStates]
  BY DEF Inv, TypeInv, Requests
<1>3. \A y \in Executes : at'[y] = at[y]
  BY <1>1, <1>2
<1>4. rt'.queue = rt.queue /\ rt'.sending = rt.sending /\ \A y \in Executes : rt'.reply[y] = rt.reply[y]
  <2>1. CASE rt' = rt
    BY <2>1
  <2>2. CASE rt' # rt
    <3> DEFINE r == IF AwaitsResult(x) THEN Expect(rt, x) ELSE rt
    <3>1. r \in Runtime /\ r.queue = rt.queue /\ r.sending = rt.sending /\ r.reply = rt.reply
      <4>1. CASE AwaitsResult(x)
        <5>1. x \in Executes \cup Snapshots
          BY <4>1 DEF AwaitsResult
        <5> QED BY <1>2, <4>1, <5>1, ExpectMeans
      <4>2. CASE ~ AwaitsResult(x)
        BY <1>2, <4>2
      <4> QED BY <4>1, <4>2
    <3>2. rt' = Reply(r, {x}, "ok") /\ "ok" \in Answers
      BY <1>1, <2>2 DEF Answers
    <3> HIDE DEF r
    <3>3. /\ SameButReply(r, rt')
          /\ \A y \in Requests : rt'.reply[y] = IF y \in {x} THEN "ok" ELSE r.reply[y]
      BY <3>1, <3>2, ReplyMeans
    <3> QED BY <1>1, <1>2, <3>1, <3>3 DEF SameButReply
  <2> QED BY <2>1, <2>2
<1>5. Then = Now
  BY <1>3, <1>4, SameStages
<1> QED BY <1>1, <1>4, <1>5, UnseenIf

LEMMA OthersUnseen ==
  ASSUME Inv, (\E x \in Executes : UrlUnknown(x)) \/ PageChanges \/ Tick \/ UNCHANGED vars
  PROVE  UNCHANGED Promise!vars
<1>1. /\ rt' = rt /\ calls' = calls /\ handled' = handled
      /\ at' = at \/ \E x \in Executes : at[x] = "url" /\ at' = [at EXCEPT ![x] = "thrown"]
  BY DEF UrlUnknown, PageChanges, Tick, vars, page
<1>2. at \in [Requests -> RequestStates] /\ Executes \subseteq Requests
  BY DEF Inv, TypeInv, Requests
<1>3. \A y \in Executes : at'[y] = "new" <=> at[y] = "new"
  BY <1>1, <1>2
<1>4. Then = Now
  BY <1>1, <1>3, SameStages
<1> QED BY <1>1, <1>4, UnseenIf

LEMMA RestartRestarts ==
  ASSUME Inv, Inv', Restart PROVE Promise!Restart
<1> USE DispatchAssumption
<1> DEFINE replies == [x \in Requests |-> Unanswered(x)]
<1>1. rt' = FreshRuntime(replies) /\ handled' = handled
      /\ at' = [x \in Requests |-> IF at[x] = "new" THEN "new" ELSE "waiting"]
  BY DEF Restart, page
<1>2. PICK unsent \in SUBSET {x \in Requests : calls[x] = "calling"} :
        calls' = [x \in Requests |-> IF x \in unsent THEN "rejected" ELSE calls[x]]
  BY DEF Restart
<1>3. Executes \subseteq Requests /\ None \notin Executes
  BY DEF Requests
<1>4. rt'.queue = <<>> /\ rt'.sending = None /\ rt'.reply = replies
  BY <1>1 DEF FreshRuntime
<1>5. Stood /\ Stand /\ DOMAIN Now = Executes
  BY StandMeans
<1>6. ASSUME NEW x \in Executes
      PROVE  Then[x] = IF Now[x] \in {"asked", "waiting", "sent"} THEN "lost" ELSE Now[x]
  <2>1. /\ rt'.reply[x] = IF at[x] # "new" /\ rt.reply[x] = "none" THEN "lost" ELSE rt.reply[x]
        /\ at'[x] = IF at[x] = "new" THEN "new" ELSE "waiting"
    BY <1>1, <1>3, <1>4 DEF Unanswered
  <2>2. CASE rt.reply[x] # "none"
    <3>1. Now[x] = Verdict(rt.reply[x]) /\ Then[x] = Verdict(rt.reply[x])
      BY <1>5, <2>1, <2>2 DEF Stood, Stand
    <3>2. Verdict(rt.reply[x]) \in {"ok", "lost", "failed", "refused"}
      BY DEF Verdict
    <3> QED BY <3>1, <3>2
  <2>3. CASE rt.reply[x] = "none" /\ at[x] = "new"
    <3>1. Now[x] = "new" /\ Then[x] = "new"
      BY <1>5, <2>1, <2>3 DEF Stood, Stand
    <3> QED BY <3>1
  <2>4. CASE rt.reply[x] = "none" /\ at[x] # "new"
    <3>1. Then[x] = Verdict("lost")
      BY <1>5, <2>1, <2>4 DEF Stand
    <3>2. Then[x] = "lost"
      BY <3>1 DEF Verdict
    <3>3. Now[x] \in {"asked", "waiting", "sent"}
      <4>1. Now[x] = StageAt(rt, at, x)
        BY <1>5 DEF Stood
      <4> QED BY <2>4, <4>1 DEF StageAt
    <3> QED BY <3>2, <3>3
  <2> QED BY <2>2, <2>3, <2>4
<1>7. Then = [x \in Executes |-> IF Now[x] \in {"asked", "waiting", "sent"} THEN "lost" ELSE Now[x]]
  BY <1>6 DEF Then
<1>8. Ahead(rt.queue)' = {}
  BY <1>4 DEF Ahead
<1>9. {x \in Executes : calls[x] = "calling"}' \subseteq {x \in Executes : calls[x] = "calling"}
  <2>1. \A x \in Executes : calls'[x] = "calling" => calls[x] = "calling"
    BY <1>2, <1>3
  <2> QED BY <2>1
<1>10. [x \in Executes |-> handled[x]]' = [x \in Executes |-> handled[x]]
  BY <1>1
<1>11. [x \in Executes |-> StageOf(x)]' =
         [x \in Executes |-> IF [y \in Executes |-> StageOf(y)][x] \in {"asked", "waiting", "sent"}
                             THEN "lost" ELSE [y \in Executes |-> StageOf(y)][x]]
  <2> HIDE DEF Now, Then
  <2> QED BY <1>7, StagesNow
<1> QED BY <1>8, <1>9, <1>10, <1>11 DEF Promise!Restart

LEMMA InitPromise == Init => Promise!Init
<1> USE DispatchAssumption
<1> SUFFICES ASSUME Init PROVE Promise!Init
  OBVIOUS
<1>1. /\ rt = FreshRuntime([x \in Requests |-> "none"])
      /\ at = [x \in Requests |-> "new"] /\ calls = [x \in Requests |-> "none"]
      /\ handled = [x \in Requests |-> 0]
  BY DEF Init
<1>2. rt.queue = <<>> /\ rt.sending = None /\ rt.reply = [x \in Requests |-> "none"]
  BY <1>1 DEF FreshRuntime
<1>3. Executes \subseteq Requests /\ None \notin Executes
  BY DEF Requests
<1>4. \A x \in Executes : StageOf(x) = "new"
  <2>1. Items(rt.queue) = {}
    BY <1>2 DEF Items
  <2> QED BY <1>1, <1>2, <1>3, <2>1 DEF StageOf
<1>5. Ahead(rt.queue) = {}
  BY <1>2 DEF Ahead
<1>6. {x \in Executes : calls[x] = "calling"} = {}
  BY <1>1, <1>3
<1>7. [x \in Executes |-> handled[x]] = [x \in Executes |-> 0]
  BY <1>1, <1>3
<1>8. [x \in Executes |-> StageOf(x)] = [x \in Executes |-> "new"]
  BY <1>4
<1> QED BY <1>5, <1>6, <1>7, <1>8 DEF Promise!Init

LEMMA NextPromise == ASSUME Inv, Inv', [Next]_vars PROVE [Promise!Next]_Promise!vars
<1>1. CASE Progress
  <2>1. ASSUME NEW x \in Requests, PageUnreachable(x) \/ PageHandles(x) \/ HandlerResumes(x)
        PROVE  [Promise!Next]_Promise!vars
    BY <2>1, PageUnreachableLoses, PageHandlesReaches, HandlerResumesUnseen DEF Promise!Next
  <2>2. ASSUME NEW x \in Executes, UrlUnknown(x) \/ UrlKnown(x) \/ ProcessorResumes(x)
        PROVE  [Promise!Next]_Promise!vars
    BY <2>2, OthersUnseen, UrlKnownAccepts, ProcessorResumesAnswers DEF Promise!Next
  <2>3. ASSUME NEW x \in Executes \cup Snapshots, ContentResult(x)
        PROVE  [Promise!Next]_Promise!vars
    BY <2>3, ContentResultLeaves DEF Promise!Next
  <2> QED BY <1>1, <2>1, <2>2, <2>3 DEF Progress
<1>2. CASE Arrive
  <2>1. ASSUME NEW x \in Executes, ReceiveExecute(x) PROVE [Promise!Next]_Promise!vars
    BY <2>1, ReceiveExecuteAsks DEF Promise!Next
  <2>2. ASSUME NEW x \in Cancels, ReceiveCancel(x) PROVE [Promise!Next]_Promise!vars
    BY <2>2, ReceiveCancelLeaves DEF Promise!Next
  <2>3. ASSUME NEW x \in Snapshots, ReceiveSnapshot(x) PROVE [Promise!Next]_Promise!vars
    BY <2>3, ReceiveSnapshotLeaves DEF Promise!Next
  <2> QED BY <1>2, <2>1, <2>2, <2>3 DEF Arrive
<1>3. CASE PageChanges \/ Tick \/ UNCHANGED vars
  BY <1>3, OthersUnseen
<1>4. CASE Restart
  BY <1>4, RestartRestarts DEF Promise!Next
<1> QED BY <1>1, <1>2, <1>3, <1>4 DEF Next

\* The queue and its processor serve the actions in the order in which they were accepted,
\* one at a time, each once, whatever the limits, the cancellations, the time-outs, the
\* pages, the failures and the restarts.
THEOREM Implements == Spec => ServesInOrder
<1>1. Inv /\ [Next]_vars => Inv'
  BY NextGood DEF Good
<1>2. Inv /\ Inv' /\ [Next]_vars => [Promise!Next]_Promise!vars
  BY NextPromise
<1> QED BY Invariance, InitPromise, <1>1, <1>2, PTL DEF Spec, ServesInOrder, Promise!Spec

=============================================================================
