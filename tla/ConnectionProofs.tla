--------------------------- MODULE ConnectionProofs ---------------------------
(***************************************************************************)
(* Proofs about Connection, for every number of starts, sockets, events,   *)
(* timers and failures: its types, the progress the popup shows, that a    *)
(* stop which finds nothing under way is final, and that events are sent   *)
(* or kept exactly once.                                                   *)
(***************************************************************************)
EXTENDS Connection, FiniteSetTheorems, TLAPS
LOCAL INSTANCE SequenceTheorems

-----------------------------------------------------------------------------
(* The invariant                                                           *)

\* Calls that read and write the buffer are a handler's.
TypedCall == {c \in StorageCall : c.op \in {"get", "set"} => c.who \in Events}

TypeInv ==
  /\ bg \in Background
  /\ socks \in [Sockets -> SocketStates]
  /\ queue \in Seq(TypedCall)
  /\ buffer \in Seq(Events)
  /\ handler \in [Events -> {"new", "busy", "done", "dropped", "lost"}]
  /\ accepted \in [Events -> 0 .. 2]
  /\ torn \in BOOLEAN /\ faults \in Nat

\* ProgressIsReal, of the closures b.
At(b, where) == \E s \in Starts : b.start[s].at = where
Progress(b) ==
  /\ b.conn = "fetchingToken" => At(b, "token")
  /\ b.conn = "connecting" => At(b, "connect")
  /\ b.conn = "setupPending" => At(b, "storage")

\* The calls in q that start() awaits are made by starts at that point, one by each.
Awaited(c) == c.op \in {"load", "clear"}
LoadsOK(q, start) ==
  /\ \A i \in DOMAIN q : Awaited(q[i]) => q[i].who \in Starts /\ start[q[i].who].at = "storage"
  /\ \A i, j \in DOMAIN q : Awaited(q[i]) /\ Awaited(q[j]) /\ i # j => q[i].who # q[j].who

\* A start waits for every handshake.
HandshakesOK(ss, start) ==
  \A i \in Sockets : ss[i] \in {"opening", "open"} =>
    \E s \in Starts : start[s].at = "connect" /\ start[s].on = i

Inv == TypeInv /\ Progress(bg) /\ LoadsOK(queue, bg.start) /\ HandshakesOK(socks, bg.start)

-----------------------------------------------------------------------------
(* The queue of storage calls                                              *)

LEMMA Concat ==
  ASSUME NEW S, NEW q \in Seq(S), NEW t \in Seq(S)
  PROVE  /\ q \o t \in Seq(S)
         /\ Len(q) \in Nat /\ Len(t) \in Nat
         /\ DOMAIN q = 1 .. Len(q) /\ DOMAIN t = 1 .. Len(t)
         /\ DOMAIN (q \o t) = 1 .. Len(q) + Len(t)
         /\ \A i \in 1 .. Len(q) : (q \o t)[i] = q[i]
         /\ \A i \in Len(q) + 1 .. Len(q) + Len(t) : (q \o t)[i] = t[i - Len(q)]
<1>1. /\ q \o t \in Seq(S)
      /\ Len(q \o t) = Len(q) + Len(t)
      /\ \A i \in 1 .. Len(q) + Len(t) : (q \o t)[i] = IF i <= Len(q) THEN q[i] ELSE t[i - Len(q)]
  BY ConcatProperties
<1>2. Len(q) \in Nat /\ Len(t) \in Nat /\ DOMAIN q = 1 .. Len(q) /\ DOMAIN t = 1 .. Len(t)
  BY LenProperties
<1>3. DOMAIN (q \o t) = 1 .. Len(q \o t)
  BY <1>1, LenProperties
<1> QED BY <1>1, <1>2, <1>3

\* Each element of q \o t is one of q or one of t.
LEMMA Parts ==
  ASSUME NEW S, NEW q \in Seq(S), NEW t \in Seq(S), NEW i \in DOMAIN (q \o t)
  PROVE  \/ i \in DOMAIN q /\ (q \o t)[i] = q[i]
         \/ i \notin DOMAIN q /\ i - Len(q) \in DOMAIN t /\ (q \o t)[i] = t[i - Len(q)]
            /\ i \in Nat /\ Len(q) \in Nat
BY Concat

\* Calls may be added by starts that come to the point where they await them.
LEMMA AddCalls ==
  ASSUME NEW q \in Seq(TypedCall), NEW t \in Seq(TypedCall),
         NEW start \in [Starts -> StartState], NEW start2 \in [Starts -> StartState],
         LoadsOK(q, start), LoadsOK(t, start2),
         \A s \in Starts : start[s].at = "storage" => start2[s].at = "storage",
         \A i \in DOMAIN t : Awaited(t[i]) => start[t[i].who].at # "storage"
  PROVE  q \o t \in Seq(TypedCall) /\ LoadsOK(q \o t, start2)
<1>1. q \o t \in Seq(TypedCall)
  BY Concat
<1>2. ASSUME NEW i \in DOMAIN (q \o t), Awaited((q \o t)[i])
      PROVE  (q \o t)[i].who \in Starts /\ start2[(q \o t)[i].who].at = "storage"
  BY <1>2, Parts DEF LoadsOK
<1>3. ASSUME NEW i \in DOMAIN (q \o t), NEW j \in DOMAIN (q \o t), i # j,
             Awaited((q \o t)[i]), Awaited((q \o t)[j])
      PROVE  (q \o t)[i].who # (q \o t)[j].who
  <2>1. CASE i \in DOMAIN q /\ j \in DOMAIN q
    BY <1>3, <2>1, Parts DEF LoadsOK
  <2>2. ASSUME NEW k \in DOMAIN q, NEW l \in DOMAIN t, Awaited(q[k]), Awaited(t[l])
        PROVE  q[k].who # t[l].who
    <3>1. start[q[k].who].at = "storage"
      BY <2>2 DEF LoadsOK
    <3>2. start[t[l].who].at # "storage"
      BY <2>2
    <3> QED BY <3>1, <3>2
  <2>3. CASE i \in DOMAIN q /\ j \notin DOMAIN q
    <3>1. (q \o t)[i] = q[i] /\ j - Len(q) \in DOMAIN t /\ (q \o t)[j] = t[j - Len(q)]
      BY <2>3, Parts
    <3> QED BY <1>3, <2>2, <2>3, <3>1
  <2>5. CASE i \notin DOMAIN q /\ j \in DOMAIN q
    <3>1. (q \o t)[j] = q[j] /\ i - Len(q) \in DOMAIN t /\ (q \o t)[i] = t[i - Len(q)]
      BY <2>5, Parts
    <3> QED BY <1>3, <2>2, <2>5, <3>1
  <2>4. CASE i \notin DOMAIN q /\ j \notin DOMAIN q
    <3>1. /\ i - Len(q) \in DOMAIN t /\ (q \o t)[i] = t[i - Len(q)]
          /\ j - Len(q) \in DOMAIN t /\ (q \o t)[j] = t[j - Len(q)]
          /\ i \in Nat /\ j \in Nat /\ Len(q) \in Nat
      BY <2>4, Parts
    <3>2. i - Len(q) # j - Len(q)
      BY <1>3, <3>1
    <3> QED BY <1>3, <3>1, <3>2 DEF LoadsOK
  <2> QED BY <2>1, <2>3, <2>4, <2>5
<1> QED BY <1>1, <1>2, <1>3 DEF LoadsOK

LEMMA TailMeans ==
  ASSUME NEW S, NEW q \in Seq(S), q # <<>>
  PROVE  /\ Head(q) = q[1] /\ Head(q) \in S /\ 1 \in DOMAIN q
         /\ Tail(q) \in Seq(S)
         /\ DOMAIN q = 1 .. Len(q) /\ Len(q) \in Nat \ {0}
         /\ DOMAIN Tail(q) = 1 .. Len(q) - 1
         /\ \A i \in 1 .. Len(q) - 1 : Tail(q)[i] = q[i + 1]
BY HeadTailProperties, LenProperties

\* The oldest call is answered: nobody else awaits it, and its start may move on.
LEMMA TailCalls ==
  ASSUME NEW q \in Seq(TypedCall), q # <<>>, NEW start, NEW start2, LoadsOK(q, start),
         \A s \in Starts : start2[s] = start[s] \/ (Awaited(Head(q)) /\ s = Head(q).who)
  PROVE  /\ Tail(q) \in Seq(TypedCall) /\ LoadsOK(Tail(q), start2)
         /\ \A i \in DOMAIN Tail(q) :
              Awaited(Head(q)) /\ Awaited(Tail(q)[i]) => Tail(q)[i].who # Head(q).who
<1> DEFINE t == Tail(q)
<1>1. /\ Head(q) = q[1] /\ 1 \in DOMAIN q /\ t \in Seq(TypedCall)
      /\ DOMAIN q = 1 .. Len(q) /\ Len(q) \in Nat \ {0}
      /\ DOMAIN t = 1 .. Len(q) - 1
      /\ \A i \in 1 .. Len(q) - 1 : t[i] = q[i + 1]
  BY TailMeans
<1> HIDE DEF t
<1>2. ASSUME NEW i \in DOMAIN t
      PROVE  i + 1 \in DOMAIN q /\ i + 1 # 1 /\ t[i] = q[i + 1] /\ i \in Nat
  BY <1>1
<1>3. ASSUME NEW i \in DOMAIN t, Awaited(Head(q)), Awaited(t[i]) PROVE t[i].who # Head(q).who
  BY <1>1, <1>2, <1>3 DEF LoadsOK
<1>4. ASSUME NEW i \in DOMAIN t, Awaited(t[i])
      PROVE  t[i].who \in Starts /\ start2[t[i].who].at = "storage"
  <2>1. t[i].who \in Starts /\ start[t[i].who].at = "storage"
    BY <1>2, <1>4 DEF LoadsOK
  <2>2. start2[t[i].who] = start[t[i].who]
    BY <1>3, <1>4, <2>1
  <2> QED BY <2>1, <2>2
<1>5. ASSUME NEW i \in DOMAIN t, NEW j \in DOMAIN t, Awaited(t[i]), Awaited(t[j]), i # j
      PROVE  t[i].who # t[j].who
  <2>1. i + 1 # j + 1
    BY <1>2, <1>5
  <2> QED BY <1>2, <1>5, <2>1 DEF LoadsOK
<1>6. LoadsOK(t, start2)
  BY <1>4, <1>5 DEF LoadsOK
<1> QED BY <1>1, <1>3, <1>6 DEF t

LEMMA Singleton ==
  ASSUME NEW S, NEW x \in S
  PROVE  <<x>> \in Seq(S) /\ DOMAIN <<x>> = {1} /\ <<x>>[1] = x
OBVIOUS

\* What starts that go on add to the queue.
LEMMA ConnectedCallsMean ==
  ASSUME NEW n \in Nat, NEW S \in SUBSET Starts, IsFiniteSet(S), NEW order \in SetToSeqs(S),
         NEW start \in [Starts -> StartState], \A s \in S : start[s].at = "storage"
  PROVE  /\ ConnectedCalls(n, order) \in Seq(TypedCall)
         /\ LoadsOK(ConnectedCalls(n, order), start)
         /\ \A i \in DOMAIN ConnectedCalls(n, order) :
              Awaited(ConnectedCalls(n, order)[i]) => ConnectedCalls(n, order)[i].who \in S
<1> DEFINE p == Persists(n)
           l == Loads(order)
           t == p \o l
<1>1. /\ Cardinality(S) \in Nat /\ order \in [1 .. Cardinality(S) -> S]
      /\ \A i, j \in 1 .. Cardinality(S) : i # j => order[i] # order[j]
  BY FS_CardinalityType DEF SetToSeqs
<1>2. Call("persist", None, <<>>, FALSE) \in TypedCall
      /\ ~Awaited(Call("persist", None, <<>>, FALSE))
  BY DEF Call, TypedCall, StorageCall, Awaited
<1>3. p \in [1 .. n -> TypedCall] /\ \A i \in 1 .. n : ~Awaited(p[i])
  BY <1>2 DEF Persists
<1>4. p \in Seq(TypedCall) /\ DOMAIN p = 1 .. n /\ Len(p) = n
  BY <1>3
<1>5. ASSUME NEW s \in Starts
      PROVE  Call("load", s, <<>>, FALSE) \in TypedCall /\ Call("load", s, <<>>, FALSE).who = s
  BY DEF Call, TypedCall, StorageCall
<1>6. /\ l \in [1 .. Cardinality(S) -> TypedCall]
      /\ \A i \in 1 .. Cardinality(S) : l[i].who = order[i]
  BY <1>1, <1>5 DEF Loads
<1>7. l \in Seq(TypedCall) /\ DOMAIN l = 1 .. Cardinality(S)
  BY <1>1, <1>6
<1>8. ConnectedCalls(n, order) = t
  BY DEF ConnectedCalls
<1> HIDE DEF p, l
<1>9. LoadsOK(p, start)
  BY <1>3, <1>4 DEF LoadsOK
<1>10. LoadsOK(l, start) /\ \A i \in DOMAIN l : l[i].who \in S
  BY <1>1, <1>6, <1>7 DEF LoadsOK
<1>11. t \in Seq(TypedCall)
  BY <1>4, <1>7, Concat
<1>12. ASSUME NEW i \in DOMAIN t, Awaited(t[i])
       PROVE  i \notin DOMAIN p /\ i - Len(p) \in DOMAIN l /\ t[i] = l[i - Len(p)]
              /\ i \in Nat /\ Len(p) \in Nat
  BY <1>3, <1>4, <1>7, <1>12, Parts
<1>13. \A i \in DOMAIN t : Awaited(t[i]) => t[i].who \in S
  BY <1>10, <1>12
<1>14. ASSUME NEW i \in DOMAIN t, NEW j \in DOMAIN t, Awaited(t[i]), Awaited(t[j]), i # j
       PROVE  t[i].who # t[j].who
  <2>1. i - Len(p) # j - Len(p)
    BY <1>12, <1>14
  <2> QED BY <1>10, <1>12, <1>14, <2>1 DEF LoadsOK
<1>15. LoadsOK(t, start)
  BY <1>13, <1>14 DEF LoadsOK
<1> QED BY <1>8, <1>11, <1>13, <1>15

\* One start goes on at once.
LEMMA OneOrder ==
  ASSUME NEW s \in Starts
  PROVE  <<s>> \in SetToSeqs({s}) /\ IsFiniteSet({s}) /\ Len(<<s>>) = 1
<1>1. Cardinality({s}) = 1 /\ IsFiniteSet({s})
  BY FS_Singleton
<1>2. <<s>> \in [1 .. 1 -> {s}]
  OBVIOUS
<1> QED BY <1>1, <1>2 DEF SetToSeqs

LEMMA OrderLength ==
  ASSUME NEW S, IsFiniteSet(S), NEW order \in SetToSeqs(S)
  PROVE  Len(order) \in Nat
<1>1. Cardinality(S) \in Nat /\ order \in [1 .. Cardinality(S) -> S]
  BY FS_CardinalityType DEF SetToSeqs
<1>2. order \in Seq(S)
  BY <1>1
<1> QED BY <1>2, LenProperties

\* Nobody awaits a call that reads or writes for a handler, or boots.
LEMMA AddOther ==
  ASSUME NEW q \in Seq(TypedCall), NEW c \in TypedCall, NEW start \in [Starts -> StartState],
         LoadsOK(q, start), ~Awaited(c)
  PROVE  Append(q, c) \in Seq(TypedCall) /\ LoadsOK(Append(q, c), start)
<1>1. <<c>> \in Seq(TypedCall) /\ LoadsOK(<<c>>, start)
  BY Singleton DEF LoadsOK
<1>2. Append(q, c) = q \o <<c>>
  OBVIOUS
<1>3. \A i \in DOMAIN <<c>> : ~Awaited(<<c>>[i])
  BY Singleton
<1> QED BY <1>1, <1>2, <1>3, AddCalls

-----------------------------------------------------------------------------
(* The closures                                                            *)

SameStarts(b, b2) == b2.start = b.start /\ b2.manualStop = b.manualStop

LEMMA StartType ==
  ASSUME NEW b \in Background, NEW s \in Starts
  PROVE  b.start[s] \in StartState
BY DEF Background

LEMMA SetErrorMeans ==
  ASSUME NEW b \in Background
  PROVE  SetError(b) \in Background /\ Progress(SetError(b)) /\ SameStarts(b, SetError(b))
         /\ Timers(SetError(b)) = Timers(b)
BY DEF SetError, Background, Progress, ConnectionStates, SameStarts, Timers

LEMMA OnDisconnectedMeans ==
  ASSUME NEW b \in Background, Progress(b)
  PROVE  /\ OnDisconnected(b) \in Background /\ Progress(OnDisconnected(b))
         /\ SameStarts(b, OnDisconnected(b))
         /\ b.manualStop => OnDisconnected(b) = b
<1>1. Timers(b) \in Nat
  BY DEF Timers, Background
<1>2. CASE b.conn = "stopped" \/ b.manualStop
  BY <1>2 DEF OnDisconnected, SameStarts
<1>3. CASE ~(b.conn = "stopped" \/ b.manualStop)
  <2> DEFINE d == [b EXCEPT !.conn = "reconnecting", !.timer = TRUE, !.leaked = Timers(b)]
  <2>1. d \in Background /\ d.conn = "reconnecting" /\ SameStarts(b, d)
    BY <1>1 DEF Background, ConnectionStates, SameStarts
  <2>2. OnDisconnected(b) = d
    BY <1>3 DEF OnDisconnected
  <2> HIDE DEF d
  <2>3. Progress(d)
    BY <2>1 DEF Progress
  <2> QED BY <1>3, <2>1, <2>2, <2>3
<1> QED BY <1>2, <1>3

LEMMA OnCloseMeans ==
  ASSUME NEW b \in Background, Progress(b)
  PROVE  /\ OnClose(b) \in Background /\ Progress(OnClose(b)) /\ SameStarts(b, OnClose(b))
         /\ b.manualStop => Timers(OnClose(b)) = Timers(b)
<1> DEFINE d == [b EXCEPT !.setup = FALSE]
<1>1. d \in Background /\ SameStarts(b, d) /\ d.conn = b.conn /\ Timers(d) = Timers(b)
  BY DEF Background, SameStarts, Timers
<1>2. OnClose(b) = OnDisconnected(d)
  BY DEF OnClose
<1> HIDE DEF d
<1>3. Progress(d)
  BY <1>1 DEF Progress, At, SameStarts
<1> QED BY <1>1, <1>2, <1>3, OnDisconnectedMeans DEF SameStarts

\* The starts in S go on, the others stay where they are.
LEMMA ConnectedMeans ==
  ASSUME NEW b \in Background, NEW S \in SUBSET Starts, NEW transport \in {"gemini", "stub"},
         Progress(b) \/ S # {}
  PROVE  /\ Connected(b, S, transport) \in Background
         /\ Progress(Connected(b, S, transport))
         /\ Connected(b, S, transport).manualStop = b.manualStop
         /\ Timers(Connected(b, S, transport)) = Timers(b)
         /\ \A s \in S : Connected(b, S, transport).start[s].at = "storage"
         /\ \A s \in Starts \ S : Connected(b, S, transport).start[s] = b.start[s]
<1> DEFINE d == Connected(b, S, transport)
<1>1. CASE S = {}
  <2>1. d = b
    BY <1>1 DEF Connected
  <2> QED BY <1>1, <2>1
<1>2. CASE S # {}
  <2> DEFINE go == [s \in Starts |-> IF s \in S THEN [at |-> "storage", on |-> None] ELSE b.start[s]]
  <2>1. go \in [Starts -> StartState]
    BY StartType DEF StartState
  <2>2. d = [b EXCEPT !.active = transport, !.conn = "setupPending", !.start = go]
    BY <1>2 DEF Connected, Background
  <2> HIDE DEF go
  <2>3. /\ d \in Background /\ d.conn = "setupPending" /\ d.start = go
        /\ d.manualStop = b.manualStop /\ Timers(d) = Timers(b)
    BY ZenonT(30), <2>1, <2>2 DEF Background, ConnectionStates, Timers
  <2>4. At(d, "storage")
    BY <1>2, <2>3 DEF At, go
  <2>5. Progress(d)
    BY <2>3, <2>4 DEF Progress
  <2> QED BY <2>3, <2>5 DEF go
<1> QED BY <1>1, <1>2

LEMMA BeginMeans ==
  ASSUME NEW b \in Background, NEW s \in Starts
  PROVE  LET d == Begin(b, s)
         IN  /\ d \in Background /\ Progress(d)
             /\ d.start = [b.start EXCEPT ![s] = [at |-> "token", on |-> None]]
<1> DEFINE d == Begin(b, s)
           go == [b.start EXCEPT ![s] = [at |-> "token", on |-> None]]
           conn == IF b.conn = "idle" THEN "fetchingToken" ELSE "reconnecting"
<1>1. go \in [Starts -> StartState] /\ go[s].at = "token"
  BY DEF Background, StartState
<1>2. d = [b EXCEPT !.manualStop = FALSE, !.timer = FALSE, !.conn = conn, !.start = go]
  BY DEF Begin, Background
<1> HIDE DEF go
<1>3. d \in Background /\ d.start = go /\ d.conn \in {"fetchingToken", "reconnecting"}
  BY <1>1, <1>2 DEF Background, ConnectionStates
<1> HIDE DEF d
<1>4. Progress(d)
  BY <1>1, <1>3 DEF Progress, At
<1> QED BY <1>3, <1>4 DEF d, go

\* A start ends.
LEMMA FinishedMeans ==
  ASSUME NEW b \in Background, NEW s \in Starts, b.conn \in {"error", "ready"}
  PROVE  LET d == Finished(b, s)
         IN  /\ d \in Background /\ Progress(d) /\ d.start = [b.start EXCEPT ![s] = Idle]
<1> DEFINE d == Finished(b, s)
           go == [b.start EXCEPT ![s] = Idle]
<1>1. go \in [Starts -> StartState]
  BY DEF Background, StartState, Idle
<1>2. d = [b EXCEPT !.start = go]
  BY DEF Finished, Background
<1> HIDE DEF go
<1>3. d \in Background /\ d.start = go /\ d.conn = b.conn
  BY <1>1, <1>2 DEF Background
<1> HIDE DEF d
<1>4. Progress(d)
  BY <1>3 DEF Progress
<1> QED BY <1>3, <1>4 DEF d, go

\* A handler ends.
LEMMA MicDoneMeans ==
  ASSUME NEW b \in Background, Progress(b), NEW e
  PROVE  LET d == MicDone(b, e)
         IN  /\ d \in Background /\ Progress(d) /\ SameStarts(b, d) /\ Timers(d) = Timers(b)
<1> DEFINE d == MicDone(b, e)
           mic == IF b.mic = 0 THEN 0 ELSE b.mic - 1
<1>1. mic \in Nat
  BY DEF Background
<1>2. d = b \/ d = [b EXCEPT !.mic = mic]
  BY DEF MicDone, Background
<1> HIDE DEF mic
<1>3. d \in Background /\ SameStarts(b, d) /\ d.conn = b.conn /\ Timers(d) = Timers(b)
  BY <1>1, <1>2 DEF Background, SameStarts, Timers
<1> HIDE DEF d
<1>4. Progress(d)
  BY <1>3 DEF Progress, At, SameStarts
<1> QED BY <1>3, <1>4 DEF d

LEMMA FreshMeans == Fresh \in Background /\ Progress(Fresh)
BY DEF Fresh, Background, Progress, ConnectionStates, StartState, Idle

-----------------------------------------------------------------------------
(* start() and stop()                                                      *)

\* What a step outside the storage has to show.
LEMMA SessionStep ==
  ASSUME Inv, UNCHANGED outbound, bg' \in Background, Progress(bg'),
         socks' \in [Sockets -> SocketStates], queue' \in Seq(TypedCall),
         LoadsOK(queue', bg'.start), HandshakesOK(socks', bg'.start)
  PROVE  Inv'
BY DEF Inv, TypeInv, outbound

\* A start moves on that the queue has no call of, and that waits for no socket.
LEMMA MovesOn ==
  ASSUME Inv, NEW s \in Starts, bg.start[s].at \notin {"storage", "connect"}, NEW place,
         NEW start, start = [bg.start EXCEPT ![s] = place]
  PROVE  LoadsOK(queue, start) /\ HandshakesOK(socks, start)
<1>1. bg.start \in [Starts -> StartState]
  BY DEF Inv, TypeInv, Background
<1>2. \A t \in Starts : t # s => start[t] = bg.start[t]
  BY <1>1
<1>3. LoadsOK(queue, start)
  BY <1>2 DEF Inv, LoadsOK
<1>4. HandshakesOK(socks, start)
  <2>1. \A t \in Starts : bg.start[t].at = "connect" => start[t] = bg.start[t]
    BY <1>2
  <2> QED BY <2>1 DEF Inv, HandshakesOK
<1> QED BY <1>3, <1>4

LEMMA SameFrame ==
  ASSUME Inv, NEW b, b.start = bg.start
  PROVE  LoadsOK(queue, b.start) /\ HandshakesOK(socks, b.start)
BY DEF Inv

LEMMA UserStartHolds == ASSUME Inv, NEW s \in Starts, UserStart(s) PROVE Inv'
<1>1. bg \in Background /\ bg.start[s].at = "idle" /\ bg' = Begin(bg, s)
  BY DEF Inv, TypeInv, UserStart, Idle
<1>2. /\ bg' \in Background /\ Progress(bg')
      /\ bg'.start = [bg.start EXCEPT ![s] = [at |-> "token", on |-> None]]
  BY <1>1, BeginMeans
<1>3. LoadsOK(queue, bg'.start) /\ HandshakesOK(socks, bg'.start)
  BY <1>1, <1>2, MovesOn
<1> QED BY <1>2, <1>3, SessionStep DEF UserStart, Inv, TypeInv

LEMMA TimerFiresHolds == ASSUME Inv, TimerFires PROVE Inv'
<1> DEFINE b == [bg EXCEPT !.timer = FALSE, !.leaked = Timers(bg) - 1]
<1>1. bg \in Background /\ Progress(bg) /\ Timers(bg) - 1 \in Nat
  BY DEF Inv, TypeInv, TimerFires, Timers, Background
<1>2. b \in Background /\ b.conn = bg.conn /\ b.start = bg.start
  BY <1>1 DEF Background
<1>3. UNCHANGED <<socks, queue, outbound>>
  BY DEF TimerFires
<1>4. CASE bg' = b
  <2> HIDE DEF b
  <2>1. Progress(b)
    BY <1>1, <1>2 DEF Progress, At
  <2> QED BY <1>2, <1>3, <1>4, <2>1, SameFrame, SessionStep DEF Inv, TypeInv
<1>5. CASE \E s \in Starts : b.start[s] = Idle /\ bg' = Begin(b, s)
  <2>1. PICK s \in Starts : b.start[s] = Idle /\ bg' = Begin(b, s)
    BY <1>5
  <2> HIDE DEF b
  <2>2. /\ bg' \in Background /\ Progress(bg')
        /\ bg'.start = [bg.start EXCEPT ![s] = [at |-> "token", on |-> None]]
    BY <1>2, <2>1, BeginMeans
  <2>3. bg.start[s].at = "idle"
    BY <1>2, <2>1 DEF Idle
  <2>4. LoadsOK(queue, bg'.start) /\ HandshakesOK(socks, bg'.start)
    BY <2>2, <2>3, MovesOn
  <2> QED BY <1>3, <2>2, <2>4, SessionStep DEF Inv, TypeInv
<1> QED BY <1>4, <1>5 DEF TimerFires

LEMMA TokenFailsHolds == ASSUME Inv, NEW s \in Starts, TokenFails(s) PROVE Inv'
<1>1. bg \in Background /\ bg.start[s].at = "token" /\ bg' = Finished(SetError(bg), s)
  BY DEF Inv, TypeInv, TokenFails, Finished
<1>2. SetError(bg) \in Background /\ SetError(bg).conn = "error" /\ SetError(bg).start = bg.start
  BY <1>1, SetErrorMeans DEF SetError, Background, SameStarts
<1>3. bg' \in Background /\ Progress(bg') /\ bg'.start = [bg.start EXCEPT ![s] = Idle]
  BY <1>1, <1>2, FinishedMeans
<1>4. LoadsOK(queue, bg'.start) /\ HandshakesOK(socks, bg'.start)
  BY <1>1, <1>3, MovesOn
<1> QED BY <1>3, <1>4, SessionStep DEF TokenFails, Inv, TypeInv

\* One start falls back to the stub.
LEMMA OneFallsBack ==
  ASSUME Inv, UNCHANGED <<socks, outbound>>, NEW s \in Starts, bg.start[s].at = "token",
         NEW b \in Background, b.start = bg.start,
         bg' = Fallback(b, {s}), queue' = queue \o FallbackCalls(<<s>>)
  PROVE  Inv'
<1>1. /\ bg' \in Background /\ Progress(bg')
      /\ \A u \in {s} : bg'.start[u].at = "storage"
      /\ \A u \in Starts \ {s} : bg'.start[u] = bg.start[u]
  <2>1. {s} \in SUBSET Starts /\ {s} # {} /\ "stub" \in {"gemini", "stub"}
    OBVIOUS
  <2> DEFINE d == Connected(b, {s}, "stub")
  <2>2. /\ d \in Background /\ Progress(d)
        /\ \A u \in {s} : d.start[u].at = "storage"
        /\ \A u \in Starts \ {s} : d.start[u] = b.start[u]
    BY <2>1, ConnectedMeans
  <2>3. bg' = d
    BY DEF Fallback
  <2> HIDE DEF d
  <2> QED BY <2>2, <2>3
<1>2. <<s>> \in SetToSeqs({s}) /\ IsFiniteSet({s}) /\ Len(<<s>>) = 1
  BY OneOrder
<1> DEFINE t == ConnectedCalls(1, <<s>>)
<1>3. /\ t \in Seq(TypedCall) /\ LoadsOK(t, bg'.start)
      /\ \A i \in DOMAIN t : Awaited(t[i]) => t[i].who \in {s}
  <2>1. {s} \in SUBSET Starts /\ 1 \in Nat /\ bg'.start \in [Starts -> StartState]
    BY <1>1 DEF Background
  <2> QED BY <1>1, <1>2, <2>1, ConnectedCallsMean
<1>4. queue' = queue \o t
  BY <1>2 DEF FallbackCalls
<1> HIDE DEF t
<1>5. queue' \in Seq(TypedCall) /\ LoadsOK(queue', bg'.start)
  <2>1. queue \in Seq(TypedCall) /\ LoadsOK(queue, bg.start)
    BY DEF Inv, TypeInv
  <2>2. \A u \in Starts : bg.start[u].at = "storage" => bg'.start[u].at = "storage"
    BY <1>1
  <2>3. \A i \in DOMAIN t : Awaited(t[i]) => bg.start[t[i].who].at # "storage"
    BY <1>3
  <2>4. bg.start \in [Starts -> StartState] /\ bg'.start \in [Starts -> StartState]
    BY <1>1 DEF Inv, TypeInv, Background
  <2>5. queue \o t \in Seq(TypedCall) /\ LoadsOK(queue \o t, bg'.start)
    BY <1>3, <2>1, <2>2, <2>3, <2>4, AddCalls
  <2> QED BY <1>4, <2>5
<1>6. HandshakesOK(socks, bg'.start)
  <2>1. \A u \in Starts : bg.start[u].at = "connect" => bg'.start[u] = bg.start[u]
    BY <1>1
  <2>2. ASSUME NEW i \in Sockets, socks[i] \in {"opening", "open"}
        PROVE  \E u \in Starts : bg'.start[u].at = "connect" /\ bg'.start[u].on = i
    <3>1. PICK u \in Starts : bg.start[u].at = "connect" /\ bg.start[u].on = i
      BY <2>2 DEF Inv, HandshakesOK
    <3> QED BY <2>1, <3>1
  <2> QED BY <2>2 DEF HandshakesOK
<1> QED BY <1>1, <1>5, <1>6, SessionStep DEF Inv, TypeInv

\* A start waits for socket i.
LEMMA OneWaits ==
  ASSUME NEW b \in Background, NEW s \in Starts, NEW i \in Sockets, b.conn = "connecting"
  PROVE  LET d == [b EXCEPT !.start[s] = [at |-> "connect", on |-> i]]
         IN  /\ d \in Background /\ Progress(d)
             /\ d.start = [b.start EXCEPT ![s] = [at |-> "connect", on |-> i]]
<1> DEFINE d == [b EXCEPT !.start[s] = [at |-> "connect", on |-> i]]
           go == [b.start EXCEPT ![s] = [at |-> "connect", on |-> i]]
<1>1. go \in [Starts -> StartState] /\ go[s].at = "connect"
  BY DEF Background, StartState
<1>2. d = [b EXCEPT !.start = go]
  BY DEF Background
<1> HIDE DEF go
<1>3. d \in Background /\ d.start = go /\ d.conn = "connecting"
  BY <1>1, <1>2 DEF Background
<1> HIDE DEF d
<1>4. Progress(d)
  BY <1>1, <1>3 DEF Progress, At
<1> QED BY <1>3, <1>4 DEF d, go

LEMMA TokenArrivesHolds == ASSUME Inv, NEW s \in Starts, TokenArrives(s) PROVE Inv'
<1> DEFINE b == [bg EXCEPT !.conn = "connecting"]
<1>1. /\ b \in Background /\ b.conn = "connecting" /\ b.start = bg.start
      /\ b.promise = bg.promise
  BY DEF Inv, TypeInv, Background, ConnectionStates
<1>2. UNCHANGED outbound /\ bg.start[s].at = "token"
  BY DEF TokenArrives
<1>3. \/ /\ bg' = Fallback(b, {s}) /\ queue' = queue \o FallbackCalls(<<s>>)
         /\ UNCHANGED socks
      \/ \E valid \in BOOLEAN : GeminiConnect(b, s, valid)
  BY DEF TokenArrives
<1> HIDE DEF b
<1>4. CASE /\ bg' = Fallback(b, {s}) /\ queue' = queue \o FallbackCalls(<<s>>)
           /\ UNCHANGED socks
  BY <1>1, <1>2, <1>4, OneFallsBack
<1>5. ASSUME NEW valid \in BOOLEAN, GeminiConnect(b, s, valid) PROVE Inv'
  <2>1. CASE /\ b.promise \in Sockets
             /\ bg' = [b EXCEPT !.start[s] = [at |-> "connect", on |-> b.promise]]
             /\ UNCHANGED <<socks, queue>>
    <3>1. /\ bg' \in Background /\ Progress(bg')
          /\ bg'.start = [bg.start EXCEPT ![s] = [at |-> "connect", on |-> b.promise]]
      BY <1>1, <2>1, OneWaits
    <3>2. LoadsOK(queue, bg'.start) /\ HandshakesOK(socks, bg'.start)
      BY <1>2, <3>1, MovesOn
    <3> QED BY <1>2, <2>1, <3>1, <3>2, SessionStep DEF Inv, TypeInv
  <2>2. CASE /\ b.promise = None /\ valid
             /\ \E i \in Sockets :
                  /\ Unused(i)
                  /\ socks' = [socks EXCEPT ![i] = "opening"]
                  /\ bg' = [b EXCEPT !.setup = FALSE, !.socket = i, !.promise = i,
                                     !.start[s] = [at |-> "connect", on |-> i]]
             /\ UNCHANGED queue
    <3>1. PICK i \in Sockets :
            /\ socks' = [socks EXCEPT ![i] = "opening"]
            /\ bg' = [b EXCEPT !.setup = FALSE, !.socket = i, !.promise = i,
                               !.start[s] = [at |-> "connect", on |-> i]]
      BY <2>2
    <3> DEFINE d == [b EXCEPT !.setup = FALSE, !.socket = i, !.promise = i]
    <3>2. d \in Background /\ d.conn = "connecting" /\ d.start = bg.start
      BY <1>1 DEF Background
    <3>3. bg' = [d EXCEPT !.start[s] = [at |-> "connect", on |-> i]]
      BY <1>1, <3>1 DEF Background
    <3> HIDE DEF d
    <3>4. /\ bg' \in Background /\ Progress(bg')
          /\ bg'.start = [bg.start EXCEPT ![s] = [at |-> "connect", on |-> i]]
      BY <3>2, <3>3, OneWaits
    <3>5. LoadsOK(queue, bg'.start) /\ HandshakesOK(socks, bg'.start)
      BY <1>2, <3>4, MovesOn
    <3>6. socks' \in [Sockets -> SocketStates] /\ \A j \in Sockets : j # i => socks'[j] = socks[j]
      BY <3>1 DEF Inv, TypeInv, SocketStates
    <3>7. bg'.start[s] = [at |-> "connect", on |-> i]
      BY <3>4 DEF Inv, TypeInv, Background
    <3>8. HandshakesOK(socks', bg'.start)
      BY <3>5, <3>6, <3>7 DEF HandshakesOK
    <3> QED BY <1>2, <2>2, <3>4, <3>5, <3>6, <3>8, SessionStep DEF Inv, TypeInv
  <2>3. CASE /\ b.promise = Rejected \/ (b.promise = None /\ ~valid)
             /\ bg' = Fallback([b EXCEPT !.setup = @ /\ b.promise # None, !.promise = Rejected], {s})
             /\ queue' = queue \o FallbackCalls(<<s>>)
             /\ UNCHANGED socks
    <3> DEFINE d == [b EXCEPT !.setup = @ /\ b.promise # None, !.promise = Rejected]
    <3>1. d \in Background /\ d.start = bg.start
      BY <1>1 DEF Background
    <3>2. bg' = Fallback(d, {s})
      BY <2>3
    <3> HIDE DEF d
    <3> QED BY <1>2, <2>3, <3>1, <3>2, OneFallsBack
  <2> QED BY ZenonT(30), <1>5, <2>1, <2>2, <2>3 DEF GeminiConnect
<1> QED BY <1>3, <1>4, <1>5

LEMMA UserStopHolds == ASSUME Inv, UserStop PROVE Inv'
<1> DEFINE b == [bg EXCEPT !.manualStop = TRUE, !.timer = FALSE, !.conn = "stopped",
                           !.active = "none"]
<1>1. b \in Background /\ b.conn = "stopped" /\ b.start = bg.start
  BY DEF Inv, TypeInv, Background, ConnectionStates
<1>2. UNCHANGED <<queue, outbound>>
  BY DEF UserStop
<1>3. CASE /\ Close(bg.socket) /\ bg.socket # None
           /\ bg' = [b EXCEPT !.socket = None, !.setup = FALSE]
  <2> HIDE DEF b
  <2>1. bg' \in Background /\ bg'.conn = "stopped" /\ bg'.start = bg.start
    BY <1>1, <1>3 DEF Background
  <2>2. Progress(bg')
    BY <2>1 DEF Progress
  <2>3. bg.socket \in Sockets
    BY <1>3 DEF Inv, TypeInv, Background
  <2>4. /\ socks' \in [Sockets -> SocketStates]
        /\ \A i \in Sockets : socks'[i] \in {"opening", "open"} => socks'[i] = socks[i]
    BY <1>3, <2>3 DEF Close, Inv, TypeInv, SocketStates, IsOpen
  <2>5. HandshakesOK(socks', bg'.start)
    BY <2>1, <2>4 DEF Inv, HandshakesOK
  <2>6. LoadsOK(queue', bg'.start)
    BY <1>2, <2>1 DEF Inv
  <2> QED BY <1>2, <2>1, <2>2, <2>4, <2>5, <2>6, SessionStep DEF Inv, TypeInv
<1>4. CASE bg' = b /\ UNCHANGED socks
  <2> HIDE DEF b
  <2>1. Progress(b)
    BY <1>1 DEF Progress
  <2> QED BY <1>1, <1>2, <1>4, <2>1, SameFrame, SessionStep DEF Inv, TypeInv
<1> QED BY <1>3, <1>4 DEF UserStop

-----------------------------------------------------------------------------
(* The websocket                                                           *)

LEMMA WaitersMean ==
  ASSUME NEW i \in Sockets, bg \in Background
  PROVE  /\ Waiters(i) \in SUBSET Starts /\ IsFiniteSet(Waiters(i))
         /\ \A s \in Waiters(i) : bg.start[s].at = "connect" /\ bg.start[s].on = i
         /\ \A s \in Starts : bg.start[s].at = "connect" /\ bg.start[s].on = i => s \in Waiters(i)
<1>1. Waiters(i) \in SUBSET Starts
  BY DEF Waiters
<1>2. IsFiniteSet(Waiters(i))
  BY <1>1, ConnectionAssumption, FS_Subset
<1>3. ASSUME NEW s \in Starts
      PROVE  bg.start[s] = [at |-> "connect", on |-> i]
               <=> bg.start[s].at = "connect" /\ bg.start[s].on = i
  BY StartType DEF StartState
<1> QED BY <1>1, <1>2, <1>3 DEF Waiters

\* A socket changes, and is no handshake from now on unless it was one.
LEMMA SocketChanges ==
  ASSUME Inv, NEW i \in Sockets, NEW to \in SocketStates, socks' = [socks EXCEPT ![i] = to],
         to \in {"opening", "open"} => socks[i] \in {"opening", "open"},
         UNCHANGED <<queue, outbound>>, bg' \in Background, Progress(bg'), bg'.start = bg.start
  PROVE  Inv'
<1>1. /\ socks' \in [Sockets -> SocketStates]
      /\ \A j \in Sockets : socks'[j] \in {"opening", "open"} => socks[j] \in {"opening", "open"}
  BY DEF Inv, TypeInv
<1>2. HandshakesOK(socks', bg'.start)
  BY <1>1 DEF Inv, HandshakesOK
<1>3. queue' \in Seq(TypedCall) /\ LoadsOK(queue', bg'.start)
  BY DEF Inv, TypeInv
<1> QED BY <1>1, <1>2, <1>3, SessionStep

LEMMA SocketOpensHolds == ASSUME Inv, NEW i \in Sockets, SocketOpens(i) PROVE Inv'
BY SocketChanges DEF SocketOpens, Inv, TypeInv, SocketStates

LEMMA GoAwayHolds == ASSUME Inv, NEW i \in Sockets, GoAway(i) PROVE Inv'
<1>1. bg' \in Background /\ Progress(bg') /\ bg'.start = bg.start
  BY OnDisconnectedMeans DEF Inv, TypeInv, GoAway, SameStarts
<1> QED BY <1>1, SocketChanges DEF GoAway, SocketStates

LEMMA SocketClosesHolds == ASSUME Inv, NEW i \in Sockets, SocketCloses(i) PROVE Inv'
<1>1. bg' \in Background /\ Progress(bg') /\ bg'.start = bg.start
  BY OnCloseMeans DEF Inv, TypeInv, SocketCloses, SameStarts
<1> QED BY <1>1, SocketChanges DEF SocketCloses, Gone, SocketStates

\* The starts that wait for socket i go on, and the socket leaves the handshake.
LEMMA StartsGoOn ==
  ASSUME Inv, UNCHANGED outbound, NEW i \in Sockets,
         NEW to \in SocketStates \ {"opening", "open"}, socks' = [socks EXCEPT ![i] = to],
         bg' \in Background, Progress(bg'),
         \A s \in Waiters(i) : bg'.start[s].at = "storage",
         \A s \in Starts \ Waiters(i) : bg'.start[s] = bg.start[s],
         NEW n \in Nat, NEW order \in SetToSeqs(Waiters(i)),
         queue' = queue \o ConnectedCalls(n, order)
  PROVE  Inv'
<1>1. /\ Waiters(i) \in SUBSET Starts /\ IsFiniteSet(Waiters(i))
      /\ \A s \in Waiters(i) : bg.start[s].at = "connect" /\ bg.start[s].on = i
  BY WaitersMean DEF Inv, TypeInv
<1> DEFINE t == ConnectedCalls(n, order)
<1>2. /\ t \in Seq(TypedCall) /\ LoadsOK(t, bg'.start)
      /\ \A k \in DOMAIN t : Awaited(t[k]) => t[k].who \in Waiters(i)
  <2>1. bg'.start \in [Starts -> StartState]
    BY DEF Background
  <2> QED BY <1>1, <2>1, ConnectedCallsMean
<1> HIDE DEF t
<1>3. queue' \in Seq(TypedCall) /\ LoadsOK(queue', bg'.start)
  <2>1. queue \in Seq(TypedCall) /\ LoadsOK(queue, bg.start)
    BY DEF Inv, TypeInv
  <2>2. \A u \in Starts : bg.start[u].at = "storage" => bg'.start[u].at = "storage"
    <3> SUFFICES ASSUME NEW u \in Starts, bg.start[u].at = "storage"
                 PROVE  bg'.start[u].at = "storage"
      OBVIOUS
    <3>1. u \notin Waiters(i)
      BY <1>1
    <3> QED BY <3>1
  <2>3. \A k \in DOMAIN t : Awaited(t[k]) => bg.start[t[k].who].at # "storage"
    BY <1>1, <1>2
  <2>4. bg.start \in [Starts -> StartState] /\ bg'.start \in [Starts -> StartState]
    BY DEF Inv, TypeInv, Background
  <2>5. queue \o t \in Seq(TypedCall) /\ LoadsOK(queue \o t, bg'.start)
    BY <1>2, <2>1, <2>2, <2>3, <2>4, AddCalls
  <2> QED BY <2>5 DEF t
<1>4. socks' \in [Sockets -> SocketStates]
  BY DEF Inv, TypeInv
<1>5. HandshakesOK(socks', bg'.start)
  <2>1. ASSUME NEW j \in Sockets, socks'[j] \in {"opening", "open"}
        PROVE  \E u \in Starts : bg'.start[u].at = "connect" /\ bg'.start[u].on = j
    <3>1. j # i /\ socks[j] \in {"opening", "open"}
      BY <2>1 DEF Inv, TypeInv
    <3>2. PICK u \in Starts : bg.start[u].at = "connect" /\ bg.start[u].on = j
      BY <3>1 DEF Inv, HandshakesOK
    <3>3. u \notin Waiters(i)
      BY <1>1, <3>1, <3>2
    <3> QED BY <3>2, <3>3
  <2> QED BY <2>1 DEF HandshakesOK
<1> QED BY <1>3, <1>4, <1>5, SessionStep

LEMMA SetupCompletesHolds == ASSUME Inv, NEW i \in Sockets, SetupCompletes(i) PROVE Inv'
<1> DEFINE b == [bg EXCEPT !.setup = TRUE, !.promise = None]
           S == Waiters(i)
           d == Connected(b, S, "gemini")
<1>1. b \in Background /\ b.start = bg.start /\ b.conn = bg.conn
  BY DEF Inv, TypeInv, Background
<1>2. bg' = d /\ UNCHANGED outbound
      /\ \E order \in SetToSeqs(S) : queue' = queue \o ConnectedCalls(1, order)
      /\ socks' = [socks EXCEPT ![i] = "live"]
  BY DEF SetupCompletes
<1> HIDE DEF b
<1>3. Progress(b)
  BY <1>1 DEF Inv, Progress, At
<1>4. S \in SUBSET Starts
  BY DEF Waiters
<1> HIDE DEF S
<1>5. /\ d \in Background /\ Progress(d)
      /\ \A s \in S : d.start[s].at = "storage"
      /\ \A s \in Starts \ S : d.start[s] = b.start[s]
  BY <1>1, <1>3, <1>4, ConnectedMeans
<1> HIDE DEF d
<1>6. PICK order \in SetToSeqs(S) : queue' = queue \o ConnectedCalls(1, order)
  BY <1>2
<1>7. "live" \in SocketStates \ {"opening", "open"} /\ 1 \in Nat
  BY DEF SocketStates
<1>8. /\ \A s \in Waiters(i) : bg'.start[s].at = "storage"
      /\ \A s \in Starts \ Waiters(i) : bg'.start[s] = bg.start[s]
      /\ order \in SetToSeqs(Waiters(i))
      /\ bg' \in Background /\ Progress(bg')
  BY <1>1, <1>2, <1>5, <1>6 DEF S
<1> QED BY <1>2, <1>6, <1>7, <1>8, StartsGoOn

LEMMA SocketFailsHolds == ASSUME Inv, NEW i \in Sockets, SocketFails(i) PROVE Inv'
<1>1. bg \in Background /\ Progress(bg)
  BY DEF Inv, TypeInv
<1>2. socks' = [socks EXCEPT ![i] = "none"] /\ UNCHANGED outbound
      /\ "none" \in SocketStates \ {"opening", "open"}
  BY DEF SocketFails, Gone, SocketStates
<1>3. CASE /\ bg' = OnClose(Fallback([bg EXCEPT !.promise = None], Waiters(i)))
           /\ \E order \in SetToSeqs(Waiters(i)) : queue' = queue \o FallbackCalls(order)
  <2> DEFINE b == [bg EXCEPT !.promise = None]
             S == Waiters(i)
             d == Connected(b, S, "stub")
  <2>1. b \in Background /\ b.start = bg.start /\ b.conn = bg.conn
    BY <1>1 DEF Background
  <2>2. bg' = OnClose(d)
    BY <1>3 DEF Fallback
  <2> HIDE DEF b
  <2>3. Progress(b)
    BY <1>1, <2>1 DEF Progress, At
  <2>4. S \in SUBSET Starts /\ IsFiniteSet(S)
    BY <1>1, WaitersMean
  <2> HIDE DEF S
  <2>5. /\ d \in Background /\ Progress(d)
        /\ \A s \in S : d.start[s].at = "storage"
        /\ \A s \in Starts \ S : d.start[s] = b.start[s]
    BY <2>1, <2>3, <2>4, ConnectedMeans
  <2> HIDE DEF d
  <2>6. bg' \in Background /\ Progress(bg') /\ bg'.start = d.start
    BY <2>2, <2>5, OnCloseMeans DEF SameStarts
  <2>7. PICK order \in SetToSeqs(Waiters(i)) : queue' = queue \o FallbackCalls(order)
    BY <1>3
  <2>8. Len(order) \in Nat /\ queue' = queue \o ConnectedCalls(Len(order), order)
    BY <2>4, <2>7, OrderLength DEF FallbackCalls, S
  <2>9. /\ \A s \in Waiters(i) : bg'.start[s].at = "storage"
        /\ \A s \in Starts \ Waiters(i) : bg'.start[s] = bg.start[s]
    BY <2>1, <2>5, <2>6 DEF S
  <2> QED BY <1>2, <2>6, <2>7, <2>8, <2>9, StartsGoOn
<1>4. CASE bg' = OnClose(SetError(bg)) /\ UNCHANGED queue
  <2> DEFINE d == SetError(bg)
  <2>1. d \in Background /\ Progress(d) /\ d.start = bg.start
    BY <1>1, SetErrorMeans DEF SameStarts
  <2>2. bg' = OnClose(d)
    BY <1>4
  <2> HIDE DEF d
  <2>3. bg' \in Background /\ Progress(bg') /\ bg'.start = bg.start
    BY <2>1, <2>2, OnCloseMeans DEF SameStarts
  <2> QED BY <1>2, <1>4, <2>3, SocketChanges
<1> QED BY <1>3, <1>4 DEF SocketFails

-----------------------------------------------------------------------------
(* Events and the storage                                                  *)

\* What a step outside the sockets has to show.
LEMMA StorageStep ==
  ASSUME Inv, UNCHANGED socks, bg' \in Background, Progress(bg'),
         queue' \in Seq(TypedCall), LoadsOK(queue', bg'.start),
         \A s \in Starts : bg.start[s].at = "connect" => bg'.start[s] = bg.start[s],
         buffer' \in Seq(Events),
         handler' \in [Events -> {"new", "busy", "done", "dropped", "lost"}],
         accepted' \in [Events -> 0 .. 2], torn' \in BOOLEAN, faults' \in Nat
  PROVE  Inv'
<1>1. ASSUME NEW j \in Sockets, socks'[j] \in {"opening", "open"}
      PROVE  \E u \in Starts : bg'.start[u].at = "connect" /\ bg'.start[u].on = j
  <2>1. PICK u \in Starts : bg.start[u].at = "connect" /\ bg.start[u].on = j
    BY <1>1 DEF Inv, HandshakesOK
  <2> QED BY <2>1
<1>2. HandshakesOK(socks', bg'.start)
  BY <1>1 DEF HandshakesOK
<1>3. TypeInv'
  BY DEF Inv, TypeInv
<1> QED BY <1>2, <1>3 DEF Inv

LEMMA AcceptMeans ==
  ASSUME accepted \in [Events -> 0 .. 2], NEW S, Accept(S)
  PROVE  accepted' \in [Events -> 0 .. 2]
<1>1. \A e \in Events : Count(accepted[e]) \in 0 .. 2
  BY DEF Count
<1> QED BY <1>1 DEF Accept

LEMMA HandleEventHolds == ASSUME Inv, NEW e \in Events, HandleEvent(e) PROVE Inv'
<1>1. /\ bg \in Background /\ Progress(bg) /\ queue \in Seq(TypedCall)
      /\ LoadsOK(queue, bg.start) /\ buffer \in Seq(Events)
      /\ accepted \in [Events -> 0 .. 2] /\ torn \in BOOLEAN /\ faults \in Nat
      /\ bg.start \in [Starts -> StartState]
  BY DEF Inv, TypeInv, Background
<1>2. handler' \in [Events -> {"new", "busy", "done", "dropped", "lost"}]
      /\ UNCHANGED <<socks, buffer, torn, faults>>
  BY DEF Inv, TypeInv, HandleEvent
<1>3. CASE UNCHANGED <<bg, queue>>
  <2>1. accepted' \in [Events -> 0 .. 2]
    BY <1>1, AcceptMeans DEF HandleEvent
  <2> QED BY <1>1, <1>2, <1>3, <2>1, StorageStep
<1>4. CASE /\ queue' = Append(queue, Call("get", e, <<>>, bg.conn = "ready"))
           /\ bg' = IF e \in Chunks THEN [bg EXCEPT !.mic = @ + 1] ELSE bg
           /\ UNCHANGED accepted
  <2>1. bg' \in Background /\ bg'.start = bg.start /\ bg'.conn = bg.conn
    <3> DEFINE mic == bg.mic + 1
               d == [bg EXCEPT !.mic = mic]
    <3>1. mic \in Nat
      BY <1>1 DEF Background
    <3>2. bg' = d \/ bg' = bg
      BY <1>4
    <3> HIDE DEF mic
    <3>3. /\ d \in Background /\ d.start = bg.start /\ d.conn = bg.conn
          /\ d.manualStop = bg.manualStop /\ Timers(d) = Timers(bg)
      BY <1>1, <3>1 DEF Background, Timers
    <3> HIDE DEF d
    <3> QED BY <1>1, <3>2, <3>3
  <2>2. Progress(bg')
    BY <1>1, <2>1 DEF Progress, At
  <2> DEFINE c == Call("get", e, <<>>, bg.conn = "ready")
  <2>3. c \in TypedCall /\ ~Awaited(c)
    BY DEF Call, TypedCall, StorageCall, Awaited
  <2> HIDE DEF c
  <2>4. Append(queue, c) \in Seq(TypedCall) /\ LoadsOK(Append(queue, c), bg.start)
    BY <1>1, <2>3, AddOther
  <2>5. queue' = Append(queue, c)
    BY <1>4 DEF c
  <2> QED BY <1>1, <1>2, <1>4, <2>1, <2>2, <2>4, <2>5, StorageStep
<1> QED BY <1>3, <1>4 DEF HandleEvent

LEMMA WrittenMeans ==
  ASSUME NEW c \in TypedCall, buffer \in Seq(Events)
  PROVE  Written(c) \in Seq(Events)
<1>1. CASE c.op = "set"
  <2> DEFINE q == Append(c.seen, c.who)
  <2>1. q \in Seq(Events)
    BY <1>1, AppendProperties DEF TypedCall, StorageCall
  <2> HIDE DEF q
  <2>2. Newest(q) \in Seq(Events)
    <3>1. Len(q) \in Nat /\ ReplayLimit \in Nat
      BY <2>1, LenProperties, ConnectionAssumption
    <3>2. CASE Len(q) > ReplayLimit
      <4>1. Len(q) - ReplayLimit + 1 \in 1 .. Len(q) + 1
        BY <3>1, <3>2
      <4>2. SubSeq(q, Len(q) - ReplayLimit + 1, Len(q)) \in Seq(Events)
        BY <2>1, <3>1, <4>1, SubSeqProperties
      <4> QED BY <3>2, <4>2 DEF Newest
    <3>3. CASE ~(Len(q) > ReplayLimit)
      BY <2>1, <3>3 DEF Newest
    <3> QED BY <3>2, <3>3
  <2> QED BY <1>1, <2>2 DEF Written, q
<1>2. CASE c.op # "set"
  BY <1>2 DEF Written
<1> QED BY <1>1, <1>2

\* The oldest call, c, is answered or rejected, and its start ends if it awaited it.
LEMMA Dequeues ==
  ASSUME Inv, queue # <<>>, UNCHANGED socks, queue' = Tail(queue),
         bg' \in Background, Progress(bg'),
         \/ bg'.start = bg.start
         \/ Awaited(Head(queue)) /\ bg'.start = [bg.start EXCEPT ![Head(queue).who] = Idle],
         buffer' \in Seq(Events),
         handler' \in [Events -> {"new", "busy", "done", "dropped", "lost"}],
         accepted' \in [Events -> 0 .. 2], torn' \in BOOLEAN, faults' \in Nat
  PROVE  Inv'
<1>1. /\ bg \in Background /\ queue \in Seq(TypedCall) /\ LoadsOK(queue, bg.start)
      /\ bg.start \in [Starts -> StartState] /\ bg'.start \in [Starts -> StartState]
  BY DEF Inv, TypeInv, Background
<1>2. \A s \in Starts :
        bg'.start[s] = bg.start[s] \/ (Awaited(Head(queue)) /\ s = Head(queue).who)
  BY <1>1
<1>3. queue' \in Seq(TypedCall) /\ LoadsOK(queue', bg'.start)
  BY <1>1, <1>2, TailCalls
<1>4. Awaited(Head(queue)) => bg.start[Head(queue).who].at = "storage"
  <2>1. Head(queue) = queue[1] /\ 1 \in DOMAIN queue
    BY <1>1, TailMeans
  <2> QED BY <1>1, <2>1 DEF LoadsOK
<1>5. \A s \in Starts : bg.start[s].at = "connect" => bg'.start[s] = bg.start[s]
  BY <1>2, <1>4
<1> QED BY <1>3, <1>5, StorageStep

\* What is known of the oldest call.
LEMMA OldestMeans ==
  ASSUME Inv, queue # <<>>
  PROVE  /\ Head(queue) \in TypedCall
         /\ Awaited(Head(queue)) => Head(queue).who \in Starts
                                    /\ bg.start[Head(queue).who].at = "storage"
         /\ buffer \in Seq(Events) /\ Written(Head(queue)) \in Seq(Events)
         /\ bg \in Background /\ Progress(bg)
         /\ handler \in [Events -> {"new", "busy", "done", "dropped", "lost"}]
         /\ accepted \in [Events -> 0 .. 2] /\ torn \in BOOLEAN /\ faults \in Nat
<1>1. queue \in Seq(TypedCall) /\ LoadsOK(queue, bg.start)
  BY DEF Inv, TypeInv
<1>2. Head(queue) = queue[1] /\ 1 \in DOMAIN queue /\ Head(queue) \in TypedCall
  BY <1>1, TailMeans
<1>3. Awaited(Head(queue)) => Head(queue).who \in Starts
                              /\ bg.start[Head(queue).who].at = "storage"
  BY <1>1, <1>2 DEF LoadsOK
<1>4. Written(Head(queue)) \in Seq(Events)
  BY <1>2, WrittenMeans DEF Inv, TypeInv
<1> QED BY <1>2, <1>3, <1>4 DEF Inv, TypeInv

\* A start that awaited the oldest call ends, well or with an error.
LEMMA StartEnds ==
  ASSUME NEW b \in Background, NEW conn \in {"error", "ready"}, NEW s \in Starts
  PROVE  LET d == Finished([b EXCEPT !.conn = conn], s)
         IN  d \in Background /\ Progress(d) /\ d.start = [b.start EXCEPT ![s] = Idle]
<1> DEFINE e == [b EXCEPT !.conn = conn]
<1>1. e \in Background /\ e.conn = conn /\ e.start = b.start
  BY DEF Background, ConnectionStates
<1> HIDE DEF e
<1>2. LET d == Finished(e, s)
      IN  d \in Background /\ Progress(d) /\ d.start = [b.start EXCEPT ![s] = Idle]
  BY <1>1, FinishedMeans
<1> QED BY <1>2 DEF e

\* The call to save what was loaded takes the place of the one that loaded it.
LEMMA ReplaysHolds ==
  ASSUME Inv, queue # <<>>, Head(queue).op = "load", UNCHANGED <<socks, bg>>,
         queue' = Append(Tail(queue), Call("clear", Head(queue).who, buffer, FALSE)),
         buffer' \in Seq(Events),
         handler' \in [Events -> {"new", "busy", "done", "dropped", "lost"}],
         accepted' \in [Events -> 0 .. 2], torn' \in BOOLEAN, faults' \in Nat
  PROVE  Inv'
<1> DEFINE d == Call("clear", Head(queue).who, buffer, FALSE)
           t == Tail(queue)
<1>1. /\ bg \in Background /\ queue \in Seq(TypedCall) /\ LoadsOK(queue, bg.start)
      /\ bg.start \in [Starts -> StartState] /\ Progress(bg)
  BY DEF Inv, TypeInv, Background
<1>2. /\ Awaited(Head(queue)) /\ Head(queue).who \in Starts
      /\ bg.start[Head(queue).who].at = "storage" /\ buffer \in Seq(Events)
  BY OldestMeans DEF Awaited
<1>3. d \in TypedCall /\ Awaited(d) /\ d.who = Head(queue).who
  BY <1>2 DEF Call, TypedCall, StorageCall, Awaited
<1>4. /\ t \in Seq(TypedCall) /\ LoadsOK(t, bg.start)
      /\ \A i \in DOMAIN t : Awaited(t[i]) => t[i].who # d.who
  BY <1>1, <1>2, <1>3, TailCalls
<1>5. queue' = Append(t, d)
  OBVIOUS
<1> HIDE DEF d, t
<1>6. <<d>> \in Seq(TypedCall) /\ DOMAIN <<d>> = {1} /\ <<d>>[1] = d
  <2>1. DOMAIN <<d>> = {1} /\ <<d>>[1] = d
    OBVIOUS
  <2> QED BY <1>3, <2>1
<1>7. queue' = t \o <<d>>
  <2>1. Append(t, d) = t \o <<d>>
    BY <1>3, <1>4, AppendIsConcat
  <2> QED BY <1>5, <2>1
<1>8. t \o <<d>> \in Seq(TypedCall)
  BY <1>4, <1>6, Concat
<1>9. ASSUME NEW i \in DOMAIN (t \o <<d>>)
      PROVE  \/ i \in DOMAIN t /\ (t \o <<d>>)[i] = t[i]
             \/ i = Len(t) + 1 /\ i \notin DOMAIN t /\ (t \o <<d>>)[i] = d
  <2>1. \/ i \in DOMAIN t /\ (t \o <<d>>)[i] = t[i]
        \/ i \notin DOMAIN t /\ i - Len(t) \in DOMAIN <<d>>
           /\ (t \o <<d>>)[i] = <<d>>[i - Len(t)] /\ i \in Nat /\ Len(t) \in Nat
    BY <1>4, <1>6, Parts
  <2> QED BY <1>6, <2>1
<1>10. LoadsOK(t \o <<d>>, bg.start)
  <2>1. ASSUME NEW i \in DOMAIN (t \o <<d>>), Awaited((t \o <<d>>)[i])
        PROVE  (t \o <<d>>)[i].who \in Starts /\ bg.start[(t \o <<d>>)[i].who].at = "storage"
    BY <1>2, <1>3, <1>4, <1>9, <2>1 DEF LoadsOK
  <2>2. ASSUME NEW i \in DOMAIN (t \o <<d>>), NEW j \in DOMAIN (t \o <<d>>), i # j,
               Awaited((t \o <<d>>)[i]), Awaited((t \o <<d>>)[j])
        PROVE  (t \o <<d>>)[i].who # (t \o <<d>>)[j].who
    <3>1. CASE i \in DOMAIN t /\ j \in DOMAIN t
      BY <1>4, <1>9, <2>2, <3>1 DEF LoadsOK
    <3>2. CASE i \in DOMAIN t /\ j \notin DOMAIN t
      BY <1>4, <1>9, <2>2, <3>2
    <3>3. CASE i \notin DOMAIN t /\ j \in DOMAIN t
      BY <1>4, <1>9, <2>2, <3>3
    <3>4. CASE i \notin DOMAIN t /\ j \notin DOMAIN t
      BY <1>9, <2>2, <3>4
    <3> QED BY <3>1, <3>2, <3>3, <3>4
  <2> QED BY <2>1, <2>2 DEF LoadsOK
<1> QED BY <1>1, <1>7, <1>8, <1>10, StorageStep

\* A handler goes on from reading the buffer to writing it.
LEMMA ReadsHolds ==
  ASSUME Inv, queue # <<>>, Head(queue).op = "get", UNCHANGED <<socks, bg, handler, accepted, faults>>,
         queue' = Append(Tail(queue), Call("set", Head(queue).who, buffer, Head(queue).down)),
         buffer' \in Seq(Events), torn' \in BOOLEAN
  PROVE  Inv'
<1> DEFINE d == Call("set", Head(queue).who, buffer, Head(queue).down)
           t == Tail(queue)
<1>1. /\ bg \in Background /\ queue \in Seq(TypedCall) /\ LoadsOK(queue, bg.start)
      /\ bg.start \in [Starts -> StartState] /\ Progress(bg)
      /\ handler \in [Events -> {"new", "busy", "done", "dropped", "lost"}]
      /\ accepted \in [Events -> 0 .. 2] /\ faults \in Nat
  BY DEF Inv, TypeInv, Background
<1>2. Head(queue) \in TypedCall /\ buffer \in Seq(Events)
  BY OldestMeans
<1>3. d \in TypedCall /\ ~Awaited(d)
  BY <1>2 DEF Call, TypedCall, StorageCall, Awaited
<1>4. t \in Seq(TypedCall) /\ LoadsOK(t, bg.start)
  BY <1>1, TailCalls
<1>5. queue' = Append(t, d)
  OBVIOUS
<1> HIDE DEF d, t
<1>6. Append(t, d) \in Seq(TypedCall) /\ LoadsOK(Append(t, d), bg.start)
  BY <1>1, <1>3, <1>4, AddOther
<1> QED BY <1>1, <1>5, <1>6, StorageStep

LEMMA StorageRepliesHolds == ASSUME Inv, StorageReplies PROVE Inv'
<1> DEFINE c == Head(queue)
<1>1. queue # <<>> /\ UNCHANGED <<socks, faults>>
      /\ buffer' = Written(c) /\ torn' = (torn \/ Tears(c))
  BY DEF StorageReplies
<1>2. /\ c \in TypedCall /\ buffer \in Seq(Events) /\ buffer' \in Seq(Events)
      /\ Awaited(c) => c.who \in Starts /\ bg.start[c.who].at = "storage"
      /\ bg \in Background /\ Progress(bg)
      /\ handler \in [Events -> {"new", "busy", "done", "dropped", "lost"}]
      /\ accepted \in [Events -> 0 .. 2] /\ torn' \in BOOLEAN /\ faults' \in Nat
  BY <1>1, OldestMeans
<1>3. ASSUME NEW conn \in {"idle", "ready"}, bg' = [bg EXCEPT !.conn = conn],
             queue' = Tail(queue), UNCHANGED <<handler, accepted>>
      PROVE  Inv'
  <2>1. bg' \in Background /\ bg'.start = bg.start /\ bg'.conn = conn
    BY <1>2, <1>3 DEF Background, ConnectionStates
  <2>2. Progress(bg')
    BY <2>1 DEF Progress
  <2> QED BY <1>1, <1>2, <1>3, <2>1, <2>2, Dequeues
<1>4. CASE c.op = "load"
  <2>1. Replay(c) /\ UNCHANGED handler
    BY <1>4 DEF StorageReplies
  <2>2. CASE /\ Accept(Among(buffer)) /\ UNCHANGED bg
             /\ queue' = Append(Tail(queue), Call("clear", c.who, buffer, FALSE))
    <3>1. accepted' \in [Events -> 0 .. 2]
      BY <1>2, <2>2, AcceptMeans
    <3> QED BY <1>1, <1>2, <1>4, <2>1, <2>2, <3>1, ReplaysHolds
  <2>3. CASE /\ bg' = Finished(SetError(bg), c.who) /\ queue' = Tail(queue) /\ UNCHANGED accepted
    <3>1. Awaited(c)
      BY <1>4 DEF Awaited
    <3>2. bg' \in Background /\ Progress(bg') /\ bg'.start = [bg.start EXCEPT ![c.who] = Idle]
      BY <1>2, <2>3, <3>1, StartEnds DEF SetError
    <3> QED BY <1>1, <1>2, <2>1, <2>3, <3>1, <3>2, Dequeues
  <2> QED BY <2>1, <2>2, <2>3 DEF Replay
<1>5. CASE c.op = "clear"
  <2>1. /\ bg' = Finished([bg EXCEPT !.conn = "ready"], c.who)
        /\ queue' = Tail(queue) /\ UNCHANGED <<handler, accepted>>
    BY <1>5 DEF StorageReplies
  <2>2. Awaited(c)
    BY <1>5 DEF Awaited
  <2>3. bg' \in Background /\ Progress(bg') /\ bg'.start = [bg.start EXCEPT ![c.who] = Idle]
    BY <1>2, <2>1, <2>2, StartEnds
  <2> QED BY <1>1, <1>2, <2>1, <2>2, <2>3, Dequeues
<1>6. CASE c.op = "get"
  <2>1. /\ queue' = Append(Tail(queue), Call("set", c.who, buffer, c.down))
        /\ UNCHANGED <<bg, handler, accepted>>
    BY <1>6 DEF StorageReplies
  <2> QED BY <1>1, <1>2, <1>6, <2>1, ReadsHolds
<1>7. CASE c.op = "set"
  <2> DEFINE b == IF c.down THEN [bg EXCEPT !.conn = "reconnecting"] ELSE bg
  <2>1. /\ bg' = MicDone(b, c.who) /\ handler' = [handler EXCEPT ![c.who] = "done"]
        /\ queue' = Tail(queue) /\ UNCHANGED accepted
    BY <1>7 DEF StorageReplies
  <2>2. b \in Background /\ b.start = bg.start /\ Progress(b)
    <3> DEFINE d == [bg EXCEPT !.conn = "reconnecting"]
    <3>1. d \in Background /\ d.start = bg.start /\ d.conn = "reconnecting"
      BY <1>2 DEF Background, ConnectionStates
    <3> HIDE DEF d
    <3>2. Progress(d)
      BY <3>1 DEF Progress
    <3>3. b = d \/ b = bg
      BY DEF d
    <3> QED BY <1>2, <3>1, <3>2, <3>3
  <2> HIDE DEF b
  <2>3. bg' \in Background /\ Progress(bg') /\ bg'.start = bg.start
    BY <2>1, <2>2, MicDoneMeans DEF SameStarts
  <2>4. handler' \in [Events -> {"new", "busy", "done", "dropped", "lost"}]
    BY <1>2, <2>1
  <2> QED BY <1>1, <1>2, <2>1, <2>3, <2>4, Dequeues
<1>8. CASE c.op = "boot" \/ c.op = "persist"
  BY <1>3, <1>8 DEF StorageReplies
<1>9. c.op \in {"boot", "persist", "load", "clear", "get", "set"}
  BY <1>2 DEF TypedCall, StorageCall
<1> QED BY <1>4, <1>5, <1>6, <1>7, <1>8, <1>9

LEMMA StorageFailsHolds == ASSUME Inv, StorageFails PROVE Inv'
<1> DEFINE c == Head(queue)
<1>1. queue # <<>> /\ UNCHANGED <<socks, buffer, accepted>> /\ queue' = Tail(queue)
      /\ faults' = faults + 1 /\ torn' = (torn \/ (c.op = "clear" /\ c.seen # <<>>))
  BY DEF StorageFails
<1>2. /\ c \in TypedCall /\ buffer' \in Seq(Events)
      /\ Awaited(c) => c.who \in Starts
      /\ bg \in Background /\ Progress(bg)
      /\ handler \in [Events -> {"new", "busy", "done", "dropped", "lost"}]
      /\ accepted' \in [Events -> 0 .. 2] /\ torn' \in BOOLEAN /\ faults' \in Nat
  BY <1>1, OldestMeans
<1>3. CASE c.op \in {"boot", "persist"} /\ UNCHANGED <<bg, handler>>
  BY <1>1, <1>2, <1>3, Dequeues
<1>4. CASE c.op \in {"load", "clear"} /\ bg' = Finished(SetError(bg), c.who) /\ UNCHANGED handler
  <2>1. Awaited(c)
    BY <1>4 DEF Awaited
  <2>2. bg' \in Background /\ Progress(bg') /\ bg'.start = [bg.start EXCEPT ![c.who] = Idle]
    BY <1>2, <1>4, <2>1, StartEnds DEF SetError
  <2> QED BY <1>1, <1>2, <1>4, <2>1, <2>2, Dequeues
<1>5. CASE /\ c.op \in {"get", "set"} /\ bg' = MicDone(bg, c.who)
           /\ handler' = [handler EXCEPT ![c.who] = "lost"]
  <2>1. bg' \in Background /\ Progress(bg') /\ bg'.start = bg.start
    BY <1>2, <1>5, MicDoneMeans DEF SameStarts
  <2>2. handler' \in [Events -> {"new", "busy", "done", "dropped", "lost"}]
    BY <1>2, <1>5
  <2> QED BY <1>1, <1>2, <2>1, <2>2, Dequeues
<1> QED BY <1>3, <1>4, <1>5 DEF StorageFails

\* The worker that has just been started.
LEMMA FreshHolds ==
  ASSUME bg' = Fresh, socks' = [i \in Sockets |-> "none"],
         queue' = <<Call("boot", None, <<>>, FALSE)>>, buffer' \in Seq(Events),
         handler' \in [Events -> {"new", "busy", "done", "dropped", "lost"}],
         accepted' \in [Events -> 0 .. 2], torn' \in BOOLEAN, faults' \in Nat
  PROVE  Inv'
<1> DEFINE c == Call("boot", None, <<>>, FALSE)
<1>1. c \in TypedCall /\ ~Awaited(c)
  BY DEF Call, TypedCall, StorageCall, Awaited
<1>2. queue' = <<c>>
  OBVIOUS
<1> HIDE DEF c
<1>3. queue' \in Seq(TypedCall) /\ LoadsOK(queue', bg'.start)
  <2>1. DOMAIN <<c>> = {1} /\ <<c>>[1] = c
    OBVIOUS
  <2>2. <<c>> \in Seq(TypedCall)
    BY <1>1
  <2>3. LoadsOK(<<c>>, bg'.start)
    BY <1>1, <2>1 DEF LoadsOK
  <2> QED BY <1>2, <2>2, <2>3
<1>4. bg' \in Background /\ Progress(bg')
  BY FreshMeans
<1>5. socks' \in [Sockets -> SocketStates] /\ HandshakesOK(socks', bg'.start)
  BY DEF SocketStates, HandshakesOK
<1> QED BY <1>3, <1>4, <1>5 DEF Inv, TypeInv

LEMMA RestartHolds == ASSUME Inv, Restart PROVE Inv'
<1> DEFINE writes == {c \in Among(queue) : c.op \in {"set", "clear"}}
<1>1. /\ queue \in Seq(TypedCall) /\ buffer \in Seq(Events) /\ torn \in BOOLEAN
      /\ handler \in [Events -> {"new", "busy", "done", "dropped", "lost"}]
      /\ accepted \in [Events -> 0 .. 2] /\ faults \in Nat
  BY DEF Inv, TypeInv
<1>2. /\ bg' = Fresh /\ socks' = [i \in Sockets |-> "none"]
      /\ queue' = <<Call("boot", None, <<>>, FALSE)>>
      /\ buffer' \in {buffer} \cup {Written(c) : c \in writes}
      /\ torn' = (torn \/ writes # {}) /\ UNCHANGED <<accepted, faults>>
      /\ handler' = [e \in Events |-> IF handler[e] = "busy" THEN "lost" ELSE handler[e]]
  BY DEF Restart
<1>3. writes \subseteq TypedCall
  BY <1>1 DEF Among
<1> HIDE DEF writes
<1>4. buffer' \in Seq(Events)
  BY <1>1, <1>2, <1>3, WrittenMeans
<1>5. /\ torn' \in BOOLEAN
      /\ handler' \in [Events -> {"new", "busy", "done", "dropped", "lost"}]
  BY <1>1, <1>2
<1> QED BY <1>1, <1>2, <1>4, <1>5, FreshHolds

-----------------------------------------------------------------------------
(* The theorems                                                            *)

LEMMA InitHolds == Init => Inv
<1> SUFFICES ASSUME Init PROVE Inv
  OBVIOUS
<1> DEFINE c == Call("boot", None, <<>>, FALSE)
<1>1. c \in TypedCall /\ ~Awaited(c)
  BY DEF Call, TypedCall, StorageCall, Awaited
<1>2. queue = <<c>>
  BY DEF Init
<1> HIDE DEF c
<1>3. queue \in Seq(TypedCall) /\ LoadsOK(queue, bg.start)
  <2>1. DOMAIN <<c>> = {1} /\ <<c>>[1] = c
    OBVIOUS
  <2>2. <<c>> \in Seq(TypedCall)
    BY <1>1
  <2>3. LoadsOK(<<c>>, bg.start)
    BY <1>1, <2>1 DEF LoadsOK
  <2> QED BY <1>2, <2>2, <2>3
<1>4. bg \in Background /\ Progress(bg)
  BY FreshMeans DEF Init
<1>5. socks \in [Sockets -> SocketStates] /\ HandshakesOK(socks, bg.start)
  BY DEF Init, SocketStates, HandshakesOK
<1>6. /\ buffer \in Seq(Events) /\ accepted \in [Events -> 0 .. 2]
      /\ handler \in [Events -> {"new", "busy", "done", "dropped", "lost"}]
      /\ torn \in BOOLEAN /\ faults \in Nat
  <2>1. /\ buffer \in Seq(Events) /\ torn \in BOOLEAN
        /\ faults \in Nat
    <3>1. buffer = <<>> /\ torn = FALSE /\ faults = 0
      BY DEF Init
    <3>2. <<>> \in Seq(Events) /\ FALSE \in BOOLEAN /\ 0 \in Nat
      OBVIOUS
    <3> QED BY <3>1, <3>2
  <2>2. accepted \in [Events -> 0 .. 2]
    BY DEF Init
  <2>3. handler \in [Events -> {"new", "busy", "done", "dropped", "lost"}]
    BY DEF Init
  <2> QED BY <2>1, <2>2, <2>3, Zenon
<1> QED BY <1>3, <1>4, <1>5, <1>6 DEF Inv, TypeInv

LEMMA StepHolds == Inv /\ [Next]_vars => Inv'
<1> SUFFICES ASSUME Inv, [Next]_vars PROVE Inv'
  OBVIOUS
<1>1. ASSUME NEW s \in Starts, UserStart(s) \/ TokenFails(s) \/ TokenArrives(s) PROVE Inv'
  BY <1>1, UserStartHolds, TokenFailsHolds, TokenArrivesHolds
<1>2. ASSUME NEW i \in Sockets, \/ SocketOpens(i) \/ SetupCompletes(i) \/ GoAway(i)
                                \/ SocketCloses(i) \/ SocketFails(i)
      PROVE  Inv'
  BY <1>2, SocketOpensHolds, SetupCompletesHolds, GoAwayHolds, SocketClosesHolds, SocketFailsHolds
<1>3. ASSUME NEW e \in Events, HandleEvent(e) PROVE Inv'
  BY <1>3, HandleEventHolds
<1>4. CASE TimerFires \/ UserStop
  BY <1>4, TimerFiresHolds, UserStopHolds
<1>5. CASE StorageReplies \/ StorageFails \/ Restart
  BY <1>5, StorageRepliesHolds, StorageFailsHolds, RestartHolds
<1>6. CASE UNCHANGED vars
  BY <1>6 DEF vars, Inv, TypeInv, Progress, At, LoadsOK, HandshakesOK
<1> QED BY <1>1, <1>2, <1>3, <1>4, <1>5, <1>6 DEF Next

LEMMA InvHolds == Spec => []Inv
BY InitHolds, StepHolds, PTL DEF Spec

LEMMA InvTypes == Inv => TypeOK
<1>1. TypedCall \subseteq StorageCall
  BY DEF TypedCall
<1>2. Seq(TypedCall) \subseteq Seq(StorageCall)
  BY <1>1
<1> QED BY <1>2 DEF Inv, TypeInv, TypeOK

\* The types of the worker's closures, of the sockets and of the storage's queue hold
\* through every interleaving of storage, sockets, timers and the user.
THEOREM TypeCorrect == Spec => []TypeOK
BY InvHolds, InvTypes, PTL

LEMMA InvProgress == Inv => ProgressIsReal
BY DEF Inv, Progress, At, ProgressIsReal

\* While the popup shows "fetchingToken", "connecting" or "setupPending", a start() is
\* at that point: no failure, restart or second start leaves the state behind.
THEOREM ProgressHolds == Spec => []ProgressIsReal
BY InvHolds, InvProgress, PTL

-----------------------------------------------------------------------------
(* A stop that finds nothing under way                                     *)

Handlers(q) == \A i \in DOMAIN q : q[i].op \in {"get", "set"}

LEMMA AppendsHandler ==
  ASSUME NEW q \in Seq(TypedCall), NEW c \in TypedCall, Handlers(q), c.op \in {"get", "set"}
  PROVE  Handlers(Append(q, c))
<1>1. /\ Len(q) \in Nat /\ DOMAIN q = 1 .. Len(q) /\ DOMAIN Append(q, c) = 1 .. Len(q) + 1
      /\ \A i \in 1 .. Len(q) : Append(q, c)[i] = q[i]
      /\ Append(q, c)[Len(q) + 1] = c
  BY AppendProperties, LenProperties
<1> QED BY <1>1 DEF Handlers

LEMMA TailsHandlers ==
  ASSUME NEW q \in Seq(TypedCall), q # <<>>, Handlers(q)
  PROVE  Head(q).op \in {"get", "set"} /\ Tail(q) \in Seq(TypedCall) /\ Handlers(Tail(q))
BY TailMeans DEF Handlers

\* What keeps the session quiet.
LEMMA StaysQuiet ==
  ASSUME Quiet, NEW b, b = bg', b.start = bg.start, b.manualStop = bg.manualStop,
         Timers(b) = Timers(bg), Handlers(queue')
  PROVE  Quiet'
BY DEF Quiet, Handlers, Timers

LEMMA QuietCloses ==
  ASSUME Inv, Quiet, NEW b \in Background, Progress(b), SameStarts(bg, b), Timers(b) = Timers(bg),
         bg' = OnClose(b), Handlers(queue')
  PROVE  Quiet'
<1> DEFINE d == OnClose(b)
<1>1. SameStarts(b, d) /\ Timers(d) = Timers(b)
  BY OnCloseMeans DEF SameStarts, Quiet
<1>2. bg' = d
  OBVIOUS
<1> HIDE DEF d
<1> QED BY <1>1, <1>2, StaysQuiet DEF SameStarts

LEMMA QuietUserStop ==
  ASSUME Inv, Quiet, UserStop
  PROVE  Quiet'
<1>1. bg \in Background
  BY DEF Inv, TypeInv
<1>2. /\ bg'.start = bg.start /\ bg'.manualStop = TRUE /\ bg'.timer = FALSE
      /\ bg'.leaked = bg.leaked /\ UNCHANGED queue
  BY ZenonT(30), <1>1 DEF UserStop, Background
<1>3. bg.timer \in BOOLEAN /\ bg.leaked \in Nat /\ Timers(bg) = 0
  BY <1>1 DEF Background, Quiet
<1>4. bg.leaked = 0 /\ bg.timer = FALSE
  BY <1>3 DEF Timers
<1> QED BY <1>2, <1>4 DEF Quiet, Timers

LEMMA QuietSocketFails ==
  ASSUME Inv, Quiet, NEW i \in Sockets, SocketFails(i)
  PROVE  Quiet'
<1>1. bg \in Background /\ Progress(bg) /\ queue \in Seq(TypedCall)
  BY DEF Inv, TypeInv
<1>2. Waiters(i) = {}
  BY DEF Quiet, Waiters, Idle
<1>3. CASE /\ bg' = OnClose(Fallback([bg EXCEPT !.promise = None], Waiters(i)))
           /\ \E order \in SetToSeqs(Waiters(i)) : queue' = queue \o FallbackCalls(order)
  <2> DEFINE b == [bg EXCEPT !.promise = None]
  <2>1. b \in Background /\ b.start = bg.start /\ b.conn = bg.conn
        /\ b.manualStop = bg.manualStop /\ Timers(b) = Timers(bg)
    BY <1>1 DEF Background, Timers
  <2>2. bg' = OnClose(b)
    BY <1>2, <1>3 DEF Fallback, Connected
  <2> HIDE DEF b
  <2>3. Progress(b)
    BY <1>1, <2>1 DEF Progress, At
  <2>4. PICK order \in SetToSeqs({}) : queue' = queue \o FallbackCalls(order)
    BY <1>2, <1>3
  <2>5. order \in [1 .. 0 -> {}]
    BY <2>4, FS_EmptySet DEF SetToSeqs
  <2>6. DOMAIN order = {} /\ Len(order) = 0
    <3>1. order \in Seq({})
      BY <2>5
    <3> QED BY <2>5, <3>1, LenProperties
  <2> DEFINE p == Persists(0)
             l == Loads(order)
  <2>7. p \in [1 .. 0 -> TypedCall] /\ l \in [1 .. 0 -> TypedCall]
    BY <2>5, <2>6 DEF Persists, Loads
  <2>8. FallbackCalls(order) = p \o l
    BY <2>6 DEF FallbackCalls, ConnectedCalls
  <2> HIDE DEF p, l
  <2>9. p = <<>> /\ l = <<>>
    BY <2>7
  <2>10. queue' = queue
    BY <1>1, <2>4, <2>8, <2>9
  <2>11. Handlers(queue')
    BY <2>10 DEF Quiet, Handlers
  <2> QED BY <2>1, <2>2, <2>3, <2>11, QuietCloses DEF SameStarts
<1>4. CASE bg' = OnClose(SetError(bg)) /\ UNCHANGED queue
  <2> DEFINE d == SetError(bg)
  <2>1. d \in Background /\ Progress(d) /\ SameStarts(bg, d) /\ Timers(d) = Timers(bg)
    BY <1>1, SetErrorMeans
  <2>2. bg' = OnClose(d)
    BY <1>4
  <2> HIDE DEF d
  <2>3. Handlers(queue')
    BY <1>4 DEF Quiet, Handlers
  <2> QED BY <2>1, <2>2, <2>3, QuietCloses
<1> QED BY <1>3, <1>4 DEF SocketFails

LEMMA QuietHandleEvent ==
  ASSUME Inv, Quiet, NEW e \in Events, HandleEvent(e)
  PROVE  Quiet'
<1>1. bg \in Background /\ queue \in Seq(TypedCall)
  BY DEF Inv, TypeInv
<1>2. CASE UNCHANGED <<bg, queue>>
  BY <1>2 DEF Quiet, Timers
<1>3. CASE /\ queue' = Append(queue, Call("get", e, <<>>, bg.conn = "ready"))
           /\ bg' = IF e \in Chunks THEN [bg EXCEPT !.mic = @ + 1] ELSE bg
  <2>1. bg'.start = bg.start /\ bg'.manualStop = bg.manualStop /\ Timers(bg') = Timers(bg)
    <3> DEFINE mic == bg.mic + 1
               d == [bg EXCEPT !.mic = mic]
    <3>1. bg' = d \/ bg' = bg
      BY <1>3
    <3> HIDE DEF mic
    <3>2. d.start = bg.start /\ d.manualStop = bg.manualStop /\ Timers(d) = Timers(bg)
      BY <1>1 DEF Background, Timers
    <3> HIDE DEF d
    <3> QED BY <3>1, <3>2
  <2> DEFINE c == Call("get", e, <<>>, bg.conn = "ready")
  <2>2. c \in TypedCall /\ c.op = "get"
    BY DEF Call, TypedCall, StorageCall
  <2>3. queue' = Append(queue, c)
    BY <1>3
  <2> HIDE DEF c
  <2>4. Handlers(queue')
    BY <1>1, <2>2, <2>3, AppendsHandler DEF Quiet, Handlers
  <2> QED BY <2>1, <2>4, StaysQuiet
<1> QED BY <1>2, <1>3 DEF HandleEvent

LEMMA QuietStorageReplies ==
  ASSUME Inv, Quiet, StorageReplies
  PROVE  Quiet'
<1> DEFINE c == Head(queue)
<1>1. queue # <<>> /\ queue \in Seq(TypedCall) /\ bg \in Background /\ Progress(bg)
  BY DEF Inv, TypeInv, StorageReplies
<1>2. c.op \in {"get", "set"} /\ c \in TypedCall /\ Tail(queue) \in Seq(TypedCall)
      /\ Handlers(Tail(queue)) /\ buffer \in Seq(Events)
  BY <1>1, TailsHandlers, OldestMeans DEF Quiet, Handlers
<1>3. CASE c.op = "get"
  <2> DEFINE d == Call("set", c.who, buffer, c.down)
             t == Tail(queue)
  <2>1. queue' = Append(t, d) /\ UNCHANGED bg
    BY <1>3 DEF StorageReplies
  <2>2. d \in TypedCall /\ d.op = "set"
    BY <1>2 DEF Call, TypedCall, StorageCall
  <2> HIDE DEF d, t
  <2>3. Handlers(queue')
    BY <1>2, <2>1, <2>2, AppendsHandler DEF t
  <2> QED BY <2>1, <2>3, StaysQuiet
<1>4. CASE c.op = "set"
  <2> DEFINE b == IF c.down THEN [bg EXCEPT !.conn = "reconnecting"] ELSE bg
  <2>1. bg' = MicDone(b, c.who) /\ queue' = Tail(queue)
    BY <1>4 DEF StorageReplies
  <2>2. b \in Background /\ SameStarts(bg, b) /\ Progress(b) /\ Timers(b) = Timers(bg)
    <3> DEFINE d == [bg EXCEPT !.conn = "reconnecting"]
    <3>1. d \in Background /\ SameStarts(bg, d) /\ d.conn = "reconnecting" /\ Timers(d) = Timers(bg)
      BY <1>1 DEF Background, ConnectionStates, SameStarts, Timers
    <3> HIDE DEF d
    <3>2. Progress(d)
      BY <3>1 DEF Progress
    <3>3. b = d \/ b = bg
      BY DEF d
    <3> QED BY <1>1, <3>1, <3>2, <3>3 DEF SameStarts
  <2> HIDE DEF b
  <2>3. SameStarts(b, bg') /\ Timers(bg') = Timers(b)
    BY <2>1, <2>2, MicDoneMeans
  <2> QED BY <1>2, <2>1, <2>2, <2>3, StaysQuiet DEF SameStarts
<1> QED BY <1>2, <1>3, <1>4

LEMMA QuietStorageFails ==
  ASSUME Inv, Quiet, StorageFails
  PROVE  Quiet'
<1> DEFINE c == Head(queue)
<1>1. queue # <<>> /\ queue \in Seq(TypedCall) /\ bg \in Background /\ Progress(bg)
      /\ queue' = Tail(queue)
  BY DEF Inv, TypeInv, StorageFails
<1>2. c.op \in {"get", "set"} /\ Handlers(Tail(queue))
  BY <1>1, TailsHandlers DEF Quiet, Handlers
<1>3. bg' = MicDone(bg, c.who)
  BY <1>2 DEF StorageFails
<1>4. SameStarts(bg, bg') /\ Timers(bg') = Timers(bg)
  BY <1>1, <1>3, MicDoneMeans
<1> QED BY <1>1, <1>2, <1>4, StaysQuiet DEF SameStarts

LEMMA QuietStep ==
  ASSUME Inv, Quiet, [Next]_vars
  PROVE  Quiet' \/ Restart \/ \E s \in Starts : UserStart(s)
<1>1. bg \in Background /\ Progress(bg) /\ Timers(bg) = 0 /\ bg.manualStop /\ Handlers(queue)
      /\ \A s \in Starts : bg.start[s].at = "idle"
  BY DEF Inv, TypeInv, Quiet, Handlers, Idle
<1>2. ASSUME NEW s \in Starts, TokenFails(s) \/ TokenArrives(s) PROVE FALSE
  BY <1>1, <1>2 DEF TokenFails, TokenArrives
<1>3. ASSUME TimerFires PROVE FALSE
  BY <1>1, <1>3 DEF TimerFires
<1>4. ASSUME NEW i \in Sockets, SocketOpens(i) PROVE Quiet'
  BY <1>4 DEF SocketOpens, Quiet, Timers
<1>5. ASSUME NEW i \in Sockets, SetupCompletes(i) PROVE FALSE
  <2>1. PICK s \in Starts : bg.start[s].at = "connect"
    BY <1>5 DEF SetupCompletes, Inv, HandshakesOK
  <2> QED BY <1>1, <2>1
<1>6. ASSUME NEW i \in Sockets, GoAway(i) PROVE Quiet'
  <2>1. bg' = bg
    BY <1>1, <1>6, OnDisconnectedMeans DEF GoAway
  <2> QED BY <1>6, <2>1 DEF GoAway, Quiet, Timers
<1>7. ASSUME NEW i \in Sockets, SocketCloses(i) PROVE Quiet'
  <2>1. bg' = OnClose(bg) /\ UNCHANGED queue
    BY <1>7 DEF SocketCloses
  <2> QED BY <1>1, <2>1, QuietCloses DEF SameStarts
<1>8. CASE UNCHANGED vars
  BY <1>8 DEF vars, Quiet, Timers
<1> QED BY <1>2, <1>3, <1>4, <1>5, <1>6, <1>7, <1>8, QuietUserStop, QuietSocketFails,
           QuietHandleEvent, QuietStorageReplies, QuietStorageFails DEF Next

\* A stop that finds no start, timer or storage call of a session under way is final: no
\* socket event or handler, in whatever order they come, begins a session again.
THEOREM StopHolds == Spec => QuietStop
<1>1. Inv /\ [Next]_vars =>
        [Quiet => Quiet' \/ Restart \/ \E s \in Starts : UserStart(s)]_vars
  BY QuietStep
<1> QED BY <1>1, InvHolds, PTL DEF Spec, QuietStop

-----------------------------------------------------------------------------
(* Exactly once                                                            *)

\* A handler that reads or writes the buffer is busy, and no two calls are one handler's.
Holds(c) == c.op \in {"get", "set"}
HandlersOK(q, h) ==
  /\ \A i \in DOMAIN q : Holds(q[i]) => h[q[i].who] = "busy"
  /\ \A i, j \in DOMAIN q : Holds(q[i]) /\ Holds(q[j]) /\ i # j => q[i].who # q[j].who

\* What a replay is about to clear the transport has taken.
SentOK(q, taken) ==
  \A i \in DOMAIN q : q[i].op = "clear" => \A e \in Among(q[i].seen) : taken[e] # 0

\* e is in a replay that is about to clear it; e is in the buffer b once.
Owed(q, e) == \E i \in DOMAIN q : q[i].op = "clear" /\ e \in Among(q[i].seen)
Once(b, e) == \E k \in DOMAIN b : \A j \in DOMAIN b : b[j] = e <=> j = k

\* ExactlyOnce, and that an event whose handler is not done is neither sent nor stored.
EventsOK(q, b, h, taken) ==
  \A e \in Events :
    /\ h[e] # "done" => taken[e] = 0 /\ e \notin Among(b)
    /\ h[e] = "done" => \/ taken[e] = 1 /\ (e \in Among(b) => Owed(q, e))
                        \/ taken[e] = 0 /\ Once(b, e)

OnceInv ==
  /\ HandlersOK(queue, handler)
  /\ Len(buffer) <= ReplayLimit
  /\ ~torn => SentOK(queue, accepted) /\ EventsOK(queue, buffer, handler, accepted)

\* The oldest call is served.
LEMMA TailKeeps ==
  ASSUME NEW q \in Seq(TypedCall), q # <<>>, NEW h, HandlersOK(q, h)
  PROVE  /\ HandlersOK(Tail(q), h)
         /\ \A i \in DOMAIN Tail(q) :
              Holds(Head(q)) /\ Holds(Tail(q)[i]) => Tail(q)[i].who # Head(q).who
         /\ \A taken : SentOK(q, taken) => SentOK(Tail(q), taken)
         /\ \A e : Owed(q, e) =>
              Owed(Tail(q), e) \/ (Head(q).op = "clear" /\ e \in Among(Head(q).seen))
<1> DEFINE t == Tail(q)
<1>1. /\ Head(q) = q[1] /\ 1 \in DOMAIN q /\ t \in Seq(TypedCall)
      /\ DOMAIN q = 1 .. Len(q) /\ Len(q) \in Nat \ {0}
      /\ DOMAIN t = 1 .. Len(q) - 1
      /\ \A i \in 1 .. Len(q) - 1 : t[i] = q[i + 1]
  BY TailMeans
<1> HIDE DEF t
<1>2. ASSUME NEW i \in DOMAIN t
      PROVE  i + 1 \in DOMAIN q /\ i + 1 # 1 /\ t[i] = q[i + 1] /\ i \in Nat
  BY <1>1
<1>3. ASSUME NEW i \in DOMAIN q, i # 1
      PROVE  i - 1 \in DOMAIN t /\ t[i - 1] = q[i]
  <2>1. i - 1 \in 1 .. Len(q) - 1 /\ (i - 1) + 1 = i
    BY <1>1, <1>3
  <2> QED BY <1>1, <2>1
<1>4. HandlersOK(t, h)
  <2>1. ASSUME NEW i \in DOMAIN t, NEW j \in DOMAIN t, i # j PROVE i + 1 # j + 1
    BY <1>2, <2>1
  <2> QED BY <1>2, <2>1 DEF HandlersOK
<1>5. ASSUME NEW i \in DOMAIN t, Holds(Head(q)), Holds(t[i]) PROVE t[i].who # Head(q).who
  BY SMTT(30), <1>1, <1>2, <1>5 DEF HandlersOK
<1>6. ASSUME NEW taken, SentOK(q, taken) PROVE SentOK(t, taken)
  BY <1>2, <1>6 DEF SentOK
<1>7. ASSUME NEW e, Owed(q, e) PROVE Owed(t, e) \/ (Head(q).op = "clear" /\ e \in Among(Head(q).seen))
  <2>1. PICK i \in DOMAIN q : q[i].op = "clear" /\ e \in Among(q[i].seen)
    BY <1>7 DEF Owed
  <2> QED BY <1>1, <1>3, <2>1 DEF Owed
<1> QED BY <1>4, <1>5, <1>6, <1>7 DEF t

\* Calls are added.
LEMMA ConcatKeeps ==
  ASSUME NEW q \in Seq(TypedCall), NEW t \in Seq(TypedCall)
  PROVE  /\ q \o t \in Seq(TypedCall)
         /\ \A i \in DOMAIN (q \o t) :
              (i \in DOMAIN q /\ (q \o t)[i] = q[i]) \/ (\E k \in DOMAIN t : (q \o t)[i] = t[k])
         /\ \A e : Owed(q, e) \/ Owed(t, e) => Owed(q \o t, e)
<1>1. /\ q \o t \in Seq(TypedCall)
      /\ Len(q) \in Nat /\ Len(t) \in Nat
      /\ DOMAIN q = 1 .. Len(q) /\ DOMAIN t = 1 .. Len(t)
      /\ DOMAIN (q \o t) = 1 .. Len(q) + Len(t)
      /\ \A i \in 1 .. Len(q) : (q \o t)[i] = q[i]
      /\ \A i \in Len(q) + 1 .. Len(q) + Len(t) : (q \o t)[i] = t[i - Len(q)]
  BY Concat
<1>2. \A i \in DOMAIN (q \o t) :
        (i \in DOMAIN q /\ (q \o t)[i] = q[i]) \/ (\E k \in DOMAIN t : (q \o t)[i] = t[k])
  BY Parts
<1>3. \A e : Owed(q, e) => Owed(q \o t, e)
  <2>1. \A i \in DOMAIN q : i \in DOMAIN (q \o t) /\ (q \o t)[i] = q[i]
    BY <1>1
  <2> QED BY <2>1 DEF Owed
<1>4. \A e : Owed(t, e) => Owed(q \o t, e)
  <2>1. ASSUME NEW k \in DOMAIN t
        PROVE  Len(q) + k \in DOMAIN (q \o t) /\ (q \o t)[Len(q) + k] = t[k]
    <3>1. Len(q) + k \in Len(q) + 1 .. Len(q) + Len(t) /\ (Len(q) + k) - Len(q) = k
      BY <1>1
    <3>2. Len(q) + k \in 1 .. Len(q) + Len(t)
      BY <1>1, <3>1
    <3> QED BY <1>1, <3>1, <3>2
  <2> QED BY <2>1 DEF Owed
<1> QED BY <1>1, <1>2, <1>3, <1>4

\* A session's calls are neither a handler's nor the end of a replay.
Plain(t) == \A i \in DOMAIN t : t[i].op \in {"persist", "load"}
LEMMA PlainKeeps ==
  ASSUME Inv, OnceInv, UNCHANGED outbound,
         NEW t \in Seq(TypedCall), Plain(t), queue' = queue \o t
  PROVE  OnceInv'
<1>1. queue \in Seq(TypedCall)
  BY DEF Inv, TypeInv
<1>2. /\ \A i \in DOMAIN queue' :
           (i \in DOMAIN queue /\ queue'[i] = queue[i]) \/ queue'[i].op \in {"persist", "load"}
      /\ \A e : Owed(queue, e) => Owed(queue', e)
  BY <1>1, ConcatKeeps DEF Plain
<1>3. HandlersOK(queue', handler)
  <2>1. ASSUME NEW i \in DOMAIN queue', Holds(queue'[i])
        PROVE  i \in DOMAIN queue /\ queue'[i] = queue[i]
    BY <1>2, <2>1 DEF Holds
  <2>2. /\ \A i \in DOMAIN queue : Holds(queue[i]) => handler[queue[i].who] = "busy"
        /\ \A i, j \in DOMAIN queue :
             Holds(queue[i]) /\ Holds(queue[j]) /\ i # j => queue[i].who # queue[j].who
    BY DEF OnceInv, HandlersOK
  <2>3. \A i \in DOMAIN queue' : Holds(queue'[i]) => handler[queue'[i].who] = "busy"
    BY <2>1, <2>2
  <2>4. ASSUME NEW i \in DOMAIN queue', NEW j \in DOMAIN queue', Holds(queue'[i]),
               Holds(queue'[j]), i # j
        PROVE  queue'[i].who # queue'[j].who
    BY <2>1, <2>2, <2>4
  <2> QED BY <2>3, <2>4 DEF HandlersOK
<1>4. SentOK(queue, accepted) => SentOK(queue', accepted)
  BY <1>2 DEF SentOK
<1>5. EventsOK(queue, buffer, handler, accepted) => EventsOK(queue', buffer, handler, accepted)
  BY <1>2 DEF EventsOK
<1> QED BY <1>3, <1>4, <1>5 DEF OnceInv, outbound

LEMMA SessionCallsPlain ==
  ASSUME NEW n \in Nat, NEW S \in SUBSET Starts, IsFiniteSet(S), NEW order \in SetToSeqs(S)
  PROVE  ConnectedCalls(n, order) \in Seq(TypedCall) /\ Plain(ConnectedCalls(n, order))
<1> DEFINE p == Persists(n)
           l == Loads(order)
<1>1. Cardinality(S) \in Nat /\ order \in [1 .. Cardinality(S) -> S]
  BY FS_CardinalityType DEF SetToSeqs
<1>2. /\ Call("persist", None, <<>>, FALSE) \in TypedCall
      /\ Call("persist", None, <<>>, FALSE).op = "persist"
  BY DEF Call, TypedCall, StorageCall
<1>3. p \in [1 .. n -> TypedCall] /\ \A i \in 1 .. n : p[i].op = "persist"
  BY <1>2 DEF Persists
<1>4. p \in Seq(TypedCall) /\ DOMAIN p = 1 .. n
  BY <1>3
<1>5. ASSUME NEW s \in Starts
      PROVE  Call("load", s, <<>>, FALSE) \in TypedCall /\ Call("load", s, <<>>, FALSE).op = "load"
  BY DEF Call, TypedCall, StorageCall
<1>6. /\ l \in [1 .. Cardinality(S) -> TypedCall]
      /\ \A i \in 1 .. Cardinality(S) : l[i].op = "load"
  BY <1>1, <1>5 DEF Loads
<1>7. l \in Seq(TypedCall) /\ DOMAIN l = 1 .. Cardinality(S)
  BY <1>1, <1>6
<1>8. ConnectedCalls(n, order) = p \o l
  BY DEF ConnectedCalls
<1> HIDE DEF p, l
<1>9. p \o l \in Seq(TypedCall) /\ Plain(p \o l)
  <2>1. /\ p \o l \in Seq(TypedCall)
        /\ \A i \in DOMAIN (p \o l) :
             (i \in DOMAIN p /\ (p \o l)[i] = p[i]) \/ (\E k \in DOMAIN l : (p \o l)[i] = l[k])
    BY <1>4, <1>7, ConcatKeeps
  <2> QED BY <1>3, <1>4, <1>6, <1>7, <2>1 DEF Plain
<1> QED BY <1>8, <1>9

LEMMA SameCallsKeep == ASSUME OnceInv, UNCHANGED <<queue, outbound>> PROVE OnceInv'
BY DEF OnceInv, outbound

LEMMA SessionKeepsOnce ==
  ASSUME Inv, OnceInv, NEW s \in Starts, UserStart(s) \/ TokenFails(s) \/ TokenArrives(s)
  PROVE  OnceInv'
<1>1. CASE UserStart(s) \/ TokenFails(s)
  BY <1>1, SameCallsKeep DEF UserStart, TokenFails
<1>2. CASE TokenArrives(s)
  <2>1. UNCHANGED outbound /\ (queue' = queue \o FallbackCalls(<<s>>) \/ UNCHANGED queue)
    BY ZenonT(30), <1>2 DEF TokenArrives, GeminiConnect
  <2>2. {s} \in SUBSET Starts /\ <<s>> \in SetToSeqs({s}) /\ IsFiniteSet({s}) /\ Len(<<s>>) = 1
    BY OneOrder
  <2>3. ConnectedCalls(1, <<s>>) \in Seq(TypedCall) /\ Plain(ConnectedCalls(1, <<s>>))
    BY <2>2, SessionCallsPlain
  <2>4. FallbackCalls(<<s>>) = ConnectedCalls(1, <<s>>)
    BY <2>2 DEF FallbackCalls
  <2> QED BY <2>1, <2>3, <2>4, PlainKeeps, SameCallsKeep
<1> QED BY <1>1, <1>2

LEMMA SocketsKeepOnce ==
  ASSUME Inv, OnceInv, NEW i \in Sockets,
         \/ SocketOpens(i) \/ SetupCompletes(i) \/ GoAway(i)
         \/ SocketCloses(i) \/ SocketFails(i)
  PROVE  OnceInv'
<1>1. CASE SocketOpens(i) \/ GoAway(i) \/ SocketCloses(i)
  BY <1>1, SameCallsKeep DEF SocketOpens, GoAway, SocketCloses
<1>2. Waiters(i) \in SUBSET Starts /\ IsFiniteSet(Waiters(i))
  BY WaitersMean DEF Inv, TypeInv
<1>3. CASE SetupCompletes(i)
  <2>1. PICK order \in SetToSeqs(Waiters(i)) : queue' = queue \o ConnectedCalls(1, order)
    BY <1>3 DEF SetupCompletes
  <2>2. UNCHANGED outbound /\ 1 \in Nat
    BY <1>3 DEF SetupCompletes
  <2>3. ConnectedCalls(1, order) \in Seq(TypedCall) /\ Plain(ConnectedCalls(1, order))
    BY <1>2, <2>2, SessionCallsPlain
  <2> QED BY <2>1, <2>2, <2>3, PlainKeeps
<1>4. CASE SocketFails(i)
  <2>1. UNCHANGED outbound
    BY <1>4 DEF SocketFails
  <2>2. UNCHANGED queue \/ \E order \in SetToSeqs(Waiters(i)) : queue' = queue \o FallbackCalls(order)
    BY <1>4 DEF SocketFails
  <2>3. ASSUME NEW order \in SetToSeqs(Waiters(i)), queue' = queue \o FallbackCalls(order)
        PROVE  OnceInv'
    <3>1. Len(order) \in Nat
      BY <1>2, OrderLength
    <3>2. ConnectedCalls(Len(order), order) \in Seq(TypedCall)
          /\ Plain(ConnectedCalls(Len(order), order))
      BY <1>2, <3>1, SessionCallsPlain
    <3>3. queue' = queue \o ConnectedCalls(Len(order), order)
      BY <2>3 DEF FallbackCalls
    <3> QED BY <2>1, <3>2, <3>3, PlainKeeps
  <2> QED BY <2>1, <2>2, <2>3, SameCallsKeep
<1> QED BY <1>1, <1>3, <1>4

\* A call of a handler or of a replay is added.
LEMMA AppendKeeps ==
  ASSUME NEW q \in Seq(TypedCall), NEW c \in TypedCall
  PROVE  /\ \A i \in DOMAIN Append(q, c) :
              \/ i \in DOMAIN q /\ Append(q, c)[i] = q[i]
              \/ i = Len(q) + 1 /\ i \notin DOMAIN q /\ Append(q, c)[i] = c
         /\ \A e : Owed(q, e) \/ (c.op = "clear" /\ e \in Among(c.seen)) => Owed(Append(q, c), e)
<1>1. Len(q) \in Nat /\ DOMAIN q = 1 .. Len(q)
  BY LenProperties
<1>2. /\ DOMAIN Append(q, c) = 1 .. Len(q) + 1
      /\ \A i \in 1 .. Len(q) : Append(q, c)[i] = q[i]
      /\ Append(q, c)[Len(q) + 1] = c
  BY AppendProperties, LenProperties
<1>3. Len(q) + 1 \in DOMAIN Append(q, c) /\ \A i \in DOMAIN q : i \in DOMAIN Append(q, c)
  BY <1>1, <1>2
<1> QED BY <1>1, <1>2, <1>3 DEF Owed

LEMMA AppendHandlers ==
  ASSUME NEW q \in Seq(TypedCall), NEW c \in TypedCall, NEW h, HandlersOK(q, h),
         Holds(c) => h[c.who] = "busy" /\ \A i \in DOMAIN q : Holds(q[i]) => q[i].who # c.who
  PROVE  HandlersOK(Append(q, c), h)
<1> DEFINE t == Append(q, c)
<1>1. \A i \in DOMAIN t : \/ i \in DOMAIN q /\ t[i] = q[i]
                          \/ i = Len(q) + 1 /\ i \notin DOMAIN q /\ t[i] = c
  BY AppendKeeps
<1> HIDE DEF t
<1>2. \A i \in DOMAIN t : Holds(t[i]) => h[t[i].who] = "busy"
  BY <1>1 DEF HandlersOK
<1>3. ASSUME NEW i \in DOMAIN t, NEW j \in DOMAIN t, Holds(t[i]), Holds(t[j]), i # j
      PROVE  t[i].who # t[j].who
  <2>1. CASE i \in DOMAIN q /\ j \in DOMAIN q
    BY <1>1, <1>3, <2>1 DEF HandlersOK
  <2>2. CASE i \in DOMAIN q /\ j \notin DOMAIN q
    BY <1>1, <1>3, <2>2
  <2>3. CASE i \notin DOMAIN q /\ j \in DOMAIN q
    BY <1>1, <1>3, <2>3
  <2>4. CASE i \notin DOMAIN q /\ j \notin DOMAIN q
    BY <1>1, <1>3, <2>4
  <2> QED BY <2>1, <2>2, <2>3, <2>4
<1>4. HandlersOK(t, h)
  BY <1>2, <1>3 DEF HandlersOK
<1> QED BY <1>4 DEF t

\* An event is appended to a buffer that does not hold it.
LEMMA StoredOnce ==
  ASSUME NEW b \in Seq(Events), NEW e \in Events, e \notin Among(b)
  PROVE  /\ Append(b, e) \in Seq(Events)
         /\ Among(Append(b, e)) = Among(b) \cup {e}
         /\ Once(Append(b, e), e)
         /\ \A f \in Events : f # e /\ Once(b, f) => Once(Append(b, e), f)
<1> DEFINE n == Append(b, e)
<1>1. Len(b) \in Nat /\ DOMAIN b = 1 .. Len(b)
  BY LenProperties
<1>2. /\ n \in Seq(Events) /\ DOMAIN n = 1 .. Len(b) + 1
      /\ \A i \in 1 .. Len(b) : n[i] = b[i]
      /\ n[Len(b) + 1] = e
  BY AppendProperties, LenProperties
<1> HIDE DEF n
<1>3. /\ DOMAIN n = DOMAIN b \cup {Len(b) + 1} /\ Len(b) + 1 \notin DOMAIN b
      /\ \A i \in DOMAIN b : n[i] = b[i] /\ n[i] # e
  <2>1. \A i \in DOMAIN b : b[i] # e
    BY DEF Among
  <2> QED BY <1>1, <1>2, <2>1
<1>4. Among(n) = Among(b) \cup {e}
  BY <1>2, <1>3 DEF Among
<1>5. Once(n, e)
  BY <1>2, <1>3 DEF Once
<1>6. ASSUME NEW f \in Events, f # e, Once(b, f) PROVE Once(n, f)
  <2>1. PICK k \in DOMAIN b : \A j \in DOMAIN b : b[j] = f <=> j = k
    BY <1>6 DEF Once
  <2>2. k \in DOMAIN n /\ \A j \in DOMAIN n : n[j] = f <=> j = k
    BY <1>2, <1>3, <1>6, <2>1
  <2> QED BY <2>2 DEF Once
<1> QED BY <1>2, <1>4, <1>5, <1>6 DEF n

\* The buffer is never longer than the limit.
LEMMA WrittenFits ==
  ASSUME NEW c \in TypedCall, buffer \in Seq(Events), Len(buffer) <= ReplayLimit
  PROVE  Len(Written(c)) <= ReplayLimit
<1>0. ReplayLimit \in Nat \ {0}
  BY ConnectionAssumption
<1>1. CASE c.op = "set"
  <2> DEFINE q == Append(c.seen, c.who)
  <2>1. q \in Seq(Events) /\ Len(q) \in Nat
    BY <1>1, AppendProperties, LenProperties DEF TypedCall, StorageCall
  <2> HIDE DEF q
  <2>2. CASE Len(q) > ReplayLimit
    <3>1. Len(q) - ReplayLimit + 1 \in 1 .. Len(q)
      BY <1>0, <2>1, <2>2
    <3>2. Len(SubSeq(q, Len(q) - ReplayLimit + 1, Len(q)))
            = Len(q) - (Len(q) - ReplayLimit + 1) + 1
      BY <2>1, <3>1, SubSeqProperties
    <3> QED BY <1>0, <1>1, <2>1, <2>2, <3>2 DEF Written, Newest, q
  <2>3. CASE ~(Len(q) > ReplayLimit)
    BY <1>0, <1>1, <2>1, <2>3 DEF Written, Newest, q
  <2> QED BY <2>2, <2>3
<1>2. CASE c.op = "clear"
  <2>1. Written(c) = <<>> /\ Len(<<>>) = 0
    BY <1>2 DEF Written
  <2> QED BY <1>0, <2>1
<1>3. CASE c.op # "set" /\ c.op # "clear"
  BY <1>3 DEF Written
<1> QED BY <1>1, <1>2, <1>3

LEMMA HandleEventKeepsOnce == ASSUME Inv, OnceInv, NEW e \in Events, HandleEvent(e) PROVE OnceInv'
<1>1. /\ handler \in [Events -> {"new", "busy", "done", "dropped", "lost"}]
      /\ accepted \in [Events -> 0 .. 2] /\ queue \in Seq(TypedCall)
      /\ handler[e] = "new" /\ UNCHANGED <<buffer, torn>>
  BY DEF Inv, TypeInv, HandleEvent
<1>2. \A i \in DOMAIN queue : Holds(queue[i]) => queue[i].who # e
  BY <1>1 DEF OnceInv, HandlersOK
<1>3. CASE handler' = [handler EXCEPT ![e] = "dropped"] /\ UNCHANGED <<queue, accepted>>
  <2>1. HandlersOK(queue, handler')
    BY <1>1, <1>2, <1>3 DEF OnceInv, HandlersOK
  <2>2. EventsOK(queue, buffer, handler, accepted) => EventsOK(queue, buffer, handler', accepted)
    BY <1>1, <1>3 DEF EventsOK
  <2> QED BY <1>1, <1>3, <2>1, <2>2 DEF OnceInv
<1>4. CASE handler' = [handler EXCEPT ![e] = "done"] /\ Accept({e}) /\ UNCHANGED queue
  <2>1. HandlersOK(queue, handler')
    BY <1>1, <1>2, <1>4 DEF OnceInv, HandlersOK
  <2>2. \A f \in Events : accepted'[f] = IF f = e THEN Count(accepted[f]) ELSE accepted[f]
    BY <1>4 DEF Accept
  <2>3. SentOK(queue, accepted) => SentOK(queue, accepted')
    <3>1. ASSUME NEW f, f \in Events, accepted[f] # 0 PROVE accepted'[f] # 0
      <4>1. accepted[f] \in 0 .. 2
        BY <1>1, <3>1
      <4> QED BY <2>2, <3>1, <4>1 DEF Count
    <3>2. \A i \in DOMAIN queue : \A f \in Among(queue[i].seen) : f \in Events
      BY <1>1 DEF TypedCall, StorageCall, Among
    <3> QED BY <3>1, <3>2 DEF SentOK
  <2>4. ASSUME EventsOK(queue, buffer, handler, accepted)
        PROVE  EventsOK(queue, buffer, handler', accepted')
    <3>1. accepted[e] = 0 /\ e \notin Among(buffer)
      BY <1>1, <2>4 DEF EventsOK
    <3>2. accepted'[e] = 1
      BY <2>2, <3>1 DEF Count
    <3>3. \A f \in Events \ {e} : accepted'[f] = accepted[f] /\ handler'[f] = handler[f]
      BY <1>1, <1>4, <2>2
    <3> QED BY <1>1, <1>4, <2>4, <3>1, <3>2, <3>3 DEF EventsOK
  <2> QED BY <1>1, <1>4, <2>1, <2>3, <2>4 DEF OnceInv
<1>5. CASE /\ handler' = [handler EXCEPT ![e] = "busy"] /\ UNCHANGED accepted
           /\ queue' = Append(queue, Call("get", e, <<>>, bg.conn = "ready"))
  <2> DEFINE c == Call("get", e, <<>>, bg.conn = "ready")
  <2>1. c \in TypedCall /\ c.op = "get" /\ c.who = e
    BY DEF Call, TypedCall, StorageCall
  <2>2. queue' = Append(queue, c)
    BY <1>5
  <2> HIDE DEF c
  <2>3. HandlersOK(queue, handler')
    BY <1>1, <1>2, <1>5 DEF OnceInv, HandlersOK
  <2>4. HandlersOK(queue', handler')
    <3>1. handler'[e] = "busy"
      BY <1>1, <1>5
    <3> QED BY <1>1, <1>2, <2>1, <2>2, <2>3, <3>1, AppendHandlers
  <2>5. /\ \A i \in DOMAIN queue' : (i \in DOMAIN queue /\ queue'[i] = queue[i]) \/ queue'[i] = c
        /\ \A f : Owed(queue, f) => Owed(queue', f)
    BY <1>1, <2>1, <2>2, AppendKeeps
  <2>6. SentOK(queue, accepted) => SentOK(queue', accepted)
    BY <2>1, <2>5 DEF SentOK
  <2>7. EventsOK(queue, buffer, handler, accepted) => EventsOK(queue', buffer, handler', accepted)
    BY <1>1, <1>5, <2>5 DEF EventsOK
  <2> QED BY <1>1, <1>5, <2>4, <2>6, <2>7 DEF OnceInv
<1> QED BY <1>3, <1>4, <1>5 DEF HandleEvent

\* The oldest call is served: a replay begins.
LEMMA ReplayKeepsOnce ==
  ASSUME Inv, OnceInv, queue # <<>>, Head(queue).op = "load",
         UNCHANGED <<buffer, handler>>, torn' = (torn \/ Tears(Head(queue))),
         Accept(Among(buffer)),
         queue' = Append(Tail(queue), Call("clear", Head(queue).who, buffer, FALSE))
  PROVE  OnceInv'
<1> DEFINE d == Call("clear", Head(queue).who, buffer, FALSE)
           t == Tail(queue)
<1>1. /\ queue \in Seq(TypedCall) /\ Head(queue) \in TypedCall /\ buffer \in Seq(Events)
      /\ handler \in [Events -> {"new", "busy", "done", "dropped", "lost"}]
      /\ accepted \in [Events -> 0 .. 2]
  BY OldestMeans DEF Inv, TypeInv
<1>2. d \in TypedCall /\ d.op = "clear" /\ d.seen = buffer /\ ~Holds(d)
  BY <1>1 DEF Call, TypedCall, StorageCall, Holds
<1>3. t \in Seq(TypedCall) /\ queue' = Append(t, d)
  BY <1>1, TailMeans
<1>4. HandlersOK(queue, handler)
  BY DEF OnceInv
<1>5. /\ HandlersOK(t, handler)
      /\ \A taken : SentOK(queue, taken) => SentOK(t, taken)
  BY <1>1, <1>4, TailKeeps
<1> HIDE DEF d, t
<1>6. HandlersOK(queue', handler)
  BY <1>2, <1>3, <1>5, AppendHandlers
<1>7. /\ \A i \in DOMAIN queue' : (i \in DOMAIN t /\ queue'[i] = t[i]) \/ queue'[i] = d
      /\ \A e : e \in Among(buffer) => Owed(queue', e)
  <2> DEFINE n == Append(t, d)
  <2>1. /\ \A i \in DOMAIN n : \/ i \in DOMAIN t /\ n[i] = t[i]
                               \/ i = Len(t) + 1 /\ i \notin DOMAIN t /\ n[i] = d
        /\ \A e : Owed(t, e) \/ (d.op = "clear" /\ e \in Among(d.seen)) => Owed(n, e)
    BY <1>2, <1>3, AppendKeeps
  <2>2. queue' = n
    BY <1>3
  <2> HIDE DEF n
  <2> QED BY <1>2, <2>1, <2>2
<1>8. \A e \in Events : accepted'[e] = IF e \in Among(buffer) THEN Count(accepted[e]) ELSE accepted[e]
  BY DEF Accept
<1>9. ASSUME NEW e \in Events PROVE /\ accepted[e] # 0 => accepted'[e] # 0
                                    /\ e \in Among(buffer) => accepted'[e] # 0
  <2>1. accepted[e] \in 0 .. 2
    BY <1>1
  <2> QED BY <1>8, <2>1 DEF Count
<1>10. Among(buffer) \subseteq Events
  BY <1>1 DEF Among
<1>11. ASSUME SentOK(queue, accepted) PROVE SentOK(queue', accepted')
  <2>1. SentOK(t, accepted)
    BY <1>5, <1>11
  <2>2. \A i \in DOMAIN t : Among(t[i].seen) \subseteq Events
    BY <1>3 DEF TypedCall, StorageCall, Among
  <2>3. SentOK(t, accepted')
    BY <1>9, <2>1, <2>2 DEF SentOK
  <2> QED BY <1>2, <1>7, <1>9, <1>10, <2>3 DEF SentOK
<1>12. ASSUME ~torn', EventsOK(queue, buffer, handler, accepted)
       PROVE  EventsOK(queue', buffer, handler, accepted')
  <2>1. \A e : ~Owed(queue, e)
    <3>1. \A j \in DOMAIN queue : ~(queue[j].op = "clear" /\ queue[j].seen # <<>>)
      BY <1>12 DEF Tears
    <3>2. Among(<<>>) = {}
      BY DEF Among
    <3> QED BY <3>1, <3>2 DEF Owed
  <2>2. ASSUME NEW e \in Events, e \in Among(buffer)
        PROVE  handler[e] = "done" /\ accepted'[e] = 1 /\ Owed(queue', e)
    <3>1. handler[e] = "done" /\ accepted[e] = 0
      BY <1>12, <2>1, <2>2 DEF EventsOK
    <3>2. accepted'[e] = Count(0) /\ Count(0) = 1
      BY <1>8, <2>2, <3>1 DEF Count
    <3> QED BY <1>7, <2>2, <3>1, <3>2
  <2>3. ASSUME NEW e \in Events, e \notin Among(buffer)
        PROVE  accepted'[e] = accepted[e] /\ ~Once(buffer, e)
    BY <1>8, <2>3 DEF Once, Among
  <2> QED BY <1>12, <2>2, <2>3 DEF EventsOK
<1>13. ~torn' => ~torn
  OBVIOUS
<1> QED BY <1>6, <1>11, <1>12, <1>13 DEF OnceInv

\* A handler has read the buffer and writes it.
LEMMA ReadKeepsOnce ==
  ASSUME Inv, OnceInv, queue # <<>>, Head(queue).op = "get",
         UNCHANGED <<buffer, handler, accepted>>, torn' = (torn \/ Tears(Head(queue))),
         queue' = Append(Tail(queue), Call("set", Head(queue).who, buffer, Head(queue).down))
  PROVE  OnceInv'
<1> DEFINE d == Call("set", Head(queue).who, buffer, Head(queue).down)
           t == Tail(queue)
<1>1. /\ queue \in Seq(TypedCall) /\ Head(queue) \in TypedCall /\ buffer \in Seq(Events)
      /\ Head(queue) = queue[1] /\ 1 \in DOMAIN queue
  BY OldestMeans, TailMeans DEF Inv, TypeInv
<1>2. d \in TypedCall /\ d.op = "set" /\ d.who = Head(queue).who /\ Holds(Head(queue))
  BY <1>1 DEF Call, TypedCall, StorageCall, Holds
<1>3. t \in Seq(TypedCall) /\ queue' = Append(t, d)
  BY <1>1, TailMeans
<1>4. HandlersOK(queue, handler)
  BY DEF OnceInv
<1>5. /\ HandlersOK(t, handler)
      /\ \A i \in DOMAIN t : Holds(t[i]) => t[i].who # d.who
      /\ \A taken : SentOK(queue, taken) => SentOK(t, taken)
      /\ \A e : Owed(queue, e) => Owed(t, e)
  BY <1>1, <1>2, <1>4, TailKeeps
<1>6. handler[d.who] = "busy"
  BY <1>1, <1>2, <1>4 DEF HandlersOK
<1> HIDE DEF d, t
<1>7. HandlersOK(queue', handler)
  BY <1>2, <1>3, <1>5, <1>6, AppendHandlers
<1>8. /\ \A i \in DOMAIN queue' : (i \in DOMAIN t /\ queue'[i] = t[i]) \/ queue'[i] = d
      /\ \A e : Owed(t, e) => Owed(queue', e)
  <2> DEFINE n == Append(t, d)
  <2>1. /\ \A i \in DOMAIN n : \/ i \in DOMAIN t /\ n[i] = t[i]
                               \/ i = Len(t) + 1 /\ i \notin DOMAIN t /\ n[i] = d
        /\ \A e : Owed(t, e) \/ (d.op = "clear" /\ e \in Among(d.seen)) => Owed(n, e)
    BY <1>2, <1>3, AppendKeeps
  <2>2. queue' = n
    BY <1>3
  <2> HIDE DEF n
  <2> QED BY <2>1, <2>2
<1>9. SentOK(queue, accepted) => SentOK(queue', accepted)
  BY <1>2, <1>5, <1>8 DEF SentOK
<1>10. EventsOK(queue, buffer, handler, accepted) => EventsOK(queue', buffer, handler, accepted)
  BY <1>5, <1>8 DEF EventsOK
<1> QED BY <1>7, <1>9, <1>10 DEF OnceInv

\* A handler has written the buffer.
LEMMA WriteKeepsOnce ==
  ASSUME Inv, OnceInv, queue # <<>>, Head(queue).op = "set",
         buffer' = Written(Head(queue)), torn' = (torn \/ Tears(Head(queue))),
         handler' = [handler EXCEPT ![Head(queue).who] = "done"],
         queue' = Tail(queue), UNCHANGED accepted
  PROVE  OnceInv'
<1> DEFINE c == Head(queue)
           e == c.who
<1>1. /\ queue \in Seq(TypedCall) /\ c \in TypedCall /\ buffer \in Seq(Events)
      /\ c = queue[1] /\ 1 \in DOMAIN queue
      /\ handler \in [Events -> {"new", "busy", "done", "dropped", "lost"}]
  BY OldestMeans, TailMeans DEF Inv, TypeInv
<1>2. e \in Events /\ Holds(c) /\ c.op = "set"
  BY <1>1 DEF TypedCall, Holds
<1>3. HandlersOK(queue, handler) /\ Len(buffer) <= ReplayLimit
  BY DEF OnceInv
<1>4. /\ HandlersOK(queue', handler)
      /\ \A i \in DOMAIN queue' : Holds(queue'[i]) => queue'[i].who # e
      /\ \A taken : SentOK(queue, taken) => SentOK(queue', taken)
      /\ \A f : Owed(queue, f) => Owed(queue', f)
  BY <1>1, <1>2, <1>3, TailKeeps
<1>5. handler[e] = "busy"
  BY <1>1, <1>2, <1>3 DEF HandlersOK
<1>6. Len(buffer') <= ReplayLimit
  BY <1>1, <1>3, WrittenFits
<1>7. HandlersOK(queue', handler')
  <2>1. \A i \in DOMAIN queue' : Holds(queue'[i]) => handler'[queue'[i].who] = "busy"
    <3>1. ASSUME NEW i \in DOMAIN queue', Holds(queue'[i])
          PROVE  queue'[i].who # e /\ handler[queue'[i].who] = "busy"
      BY <1>4, <3>1 DEF HandlersOK
    <3> QED BY <1>1, <3>1
  <2> QED BY <1>4, <2>1 DEF HandlersOK
<1>8. ASSUME ~torn', EventsOK(queue, buffer, handler, accepted)
      PROVE  EventsOK(queue', buffer', handler', accepted)
  <2>1. e \notin Among(buffer) /\ accepted[e] = 0
    BY <1>2, <1>5, <1>8 DEF EventsOK
  <2>2. c.seen = buffer /\ Len(buffer) # ReplayLimit
    BY <1>2, <1>8 DEF Tears
  <2>3. buffer' = Append(buffer, e)
    <3>1. Len(buffer) \in Nat /\ ReplayLimit \in Nat /\ Len(Append(buffer, e)) = Len(buffer) + 1
      BY <1>1, <1>2, AppendProperties, LenProperties, ConnectionAssumption
    <3>2. ~(Len(Append(buffer, e)) > ReplayLimit)
      BY <1>3, <2>2, <3>1
    <3> QED BY <1>2, <2>2, <3>2 DEF Written, Newest
  <2>4. /\ Among(buffer') = Among(buffer) \cup {e} /\ Once(buffer', e)
        /\ \A f \in Events : f # e /\ Once(buffer, f) => Once(buffer', f)
    <3> DEFINE n == Append(buffer, e)
    <3>1. buffer' = n
      BY <2>3
    <3> HIDE DEF e
    <3>2. /\ Among(n) = Among(buffer) \cup {e} /\ Once(n, e)
          /\ \A f \in Events : f # e /\ Once(buffer, f) => Once(n, f)
      BY <1>1, <1>2, <2>1, StoredOnce
    <3> HIDE DEF n
    <3> QED BY <3>1, <3>2
  <2>5. handler'[e] = "done" /\ \A f \in Events : f # e => handler'[f] = handler[f]
    BY <1>1, <1>2
  <2> HIDE DEF e, c
  <2> QED BY <1>4, <1>8, <2>1, <2>4, <2>5 DEF EventsOK
<1>9. ~torn' => ~torn
  OBVIOUS
<1> QED BY <1>4, <1>6, <1>7, <1>8, <1>9 DEF OnceInv

\* What was sent again is cleared.
LEMMA ClearKeepsOnce ==
  ASSUME Inv, OnceInv, queue # <<>>, Head(queue).op = "clear",
         buffer' = Written(Head(queue)), torn' = (torn \/ Tears(Head(queue))),
         queue' = Tail(queue), UNCHANGED <<handler, accepted>>
  PROVE  OnceInv'
<1> DEFINE c == Head(queue)
<1>1. /\ queue \in Seq(TypedCall) /\ c \in TypedCall /\ buffer \in Seq(Events)
      /\ c = queue[1] /\ 1 \in DOMAIN queue
  BY OldestMeans, TailMeans DEF Inv, TypeInv
<1>2. HandlersOK(queue, handler) /\ Len(buffer) <= ReplayLimit
  BY DEF OnceInv
<1>3. HandlersOK(queue', handler) /\ \A taken : SentOK(queue, taken) => SentOK(queue', taken)
  BY <1>1, <1>2, TailKeeps
<1>4. Len(buffer') <= ReplayLimit
  BY <1>1, <1>2, WrittenFits
<1>5. buffer' = <<>> /\ Among(<<>>) = {}
  BY DEF Written, Among
<1>6. ASSUME ~torn', SentOK(queue, accepted), EventsOK(queue, buffer, handler, accepted)
      PROVE  EventsOK(queue', buffer', handler, accepted)
  <2>1. c.seen = buffer
    BY <1>6 DEF Tears
  <2>2. \A e \in Among(buffer) : accepted[e] # 0
    BY <1>1, <1>6, <2>1 DEF SentOK
  <2>3. \A e \in Events : Once(buffer, e) => e \in Among(buffer)
    BY DEF Once, Among
  <2>4. \A e \in Events : e \notin Among(buffer')
    BY <1>5
  <2> QED BY <1>6, <2>2, <2>3, <2>4 DEF EventsOK
<1>7. ~torn' => ~torn
  OBVIOUS
<1> QED BY <1>3, <1>4, <1>6, <1>7 DEF OnceInv

\* The oldest call ends, and leaves the buffer as it is.
LEMMA EndKeepsOnce ==
  ASSUME Inv, OnceInv, queue # <<>>, queue' = Tail(queue), UNCHANGED <<buffer, accepted>>,
         ~torn' => ~torn /\ ~(Head(queue).op = "clear" /\ Head(queue).seen # <<>>),
         \/ UNCHANGED handler
         \/ Holds(Head(queue)) /\ handler' = [handler EXCEPT ![Head(queue).who] = "lost"]
  PROVE  OnceInv'
<1> DEFINE c == Head(queue)
<1>1. /\ queue \in Seq(TypedCall) /\ c \in TypedCall
      /\ c = queue[1] /\ 1 \in DOMAIN queue
      /\ handler \in [Events -> {"new", "busy", "done", "dropped", "lost"}]
  BY OldestMeans, TailMeans DEF Inv, TypeInv
<1>2. HandlersOK(queue, handler)
  BY DEF OnceInv
<1>3. /\ HandlersOK(queue', handler)
      /\ \A i \in DOMAIN queue' : Holds(c) /\ Holds(queue'[i]) => queue'[i].who # c.who
      /\ \A taken : SentOK(queue, taken) => SentOK(queue', taken)
      /\ \A f : Owed(queue, f) => Owed(queue', f) \/ (c.op = "clear" /\ f \in Among(c.seen))
  BY <1>1, <1>2, TailKeeps
<1>4. \A f : ~torn' /\ Owed(queue, f) => Owed(queue', f)
  <2>1. Among(<<>>) = {}
    BY DEF Among
  <2> QED BY <1>3, <2>1
<1>5. CASE UNCHANGED handler
  BY <1>3, <1>4, <1>5 DEF OnceInv, EventsOK
<1>6. CASE Holds(c) /\ handler' = [handler EXCEPT ![c.who] = "lost"]
  <2>1. c.who \in Events /\ handler[c.who] = "busy"
    BY <1>1, <1>2, <1>6 DEF TypedCall, Holds, HandlersOK
  <2>2. HandlersOK(queue', handler')
    <3>1. ASSUME NEW i \in DOMAIN queue', Holds(queue'[i])
          PROVE  queue'[i].who # c.who /\ handler[queue'[i].who] = "busy"
      BY <1>3, <1>6, <3>1 DEF HandlersOK
    <3>2. \A i \in DOMAIN queue' : Holds(queue'[i]) => handler'[queue'[i].who] = "busy"
      BY <1>1, <1>6, <2>1, <3>1
    <3> QED BY <1>3, <3>2 DEF HandlersOK
  <2>3. ASSUME ~torn', EventsOK(queue, buffer, handler, accepted)
        PROVE  EventsOK(queue', buffer, handler', accepted)
    <3>1. handler'[c.who] = "lost" /\ \A f \in Events : f # c.who => handler'[f] = handler[f]
      BY <1>1, <1>6, <2>1
    <3> HIDE DEF c
    <3> QED BY <1>4, <2>1, <2>3, <3>1 DEF EventsOK
  <2> QED BY <1>3, <2>2, <2>3 DEF OnceInv
<1> QED BY <1>5, <1>6

LEMMA StorageKeepsOnce == ASSUME Inv, OnceInv, StorageReplies \/ StorageFails PROVE OnceInv'
<1> DEFINE c == Head(queue)
<1>1. queue # <<>>
  BY DEF StorageReplies, StorageFails
<1>2. CASE StorageFails
  BY <1>1, <1>2, EndKeepsOnce DEF StorageFails, Holds
<1>3. CASE StorageReplies
  <2>1. buffer' = Written(c) /\ torn' = (torn \/ Tears(c))
    BY <1>3 DEF StorageReplies
  <2>2. CASE c.op = "load"
    <3>1. Replay(c) /\ UNCHANGED handler /\ buffer' = buffer
      BY <1>3, <2>1, <2>2 DEF StorageReplies, Written
    <3>2. CASE queue' = Tail(queue) /\ UNCHANGED accepted
      BY <1>1, <2>1, <2>2, <3>1, <3>2, EndKeepsOnce
    <3> QED BY <1>1, <2>1, <2>2, <3>1, <3>2, ReplayKeepsOnce DEF Replay
  <2>3. CASE c.op = "clear"
    BY <1>1, <1>3, <2>1, <2>3, ClearKeepsOnce DEF StorageReplies
  <2>4. CASE c.op = "get"
    <3>1. buffer' = buffer
      BY <2>1, <2>4 DEF Written
    <3> QED BY <1>1, <1>3, <2>1, <2>4, <3>1, ReadKeepsOnce DEF StorageReplies
  <2>5. CASE c.op = "set"
    BY <1>1, <1>3, <2>1, <2>5, WriteKeepsOnce DEF StorageReplies
  <2>6. CASE c.op \in {"boot", "persist"}
    <3>1. buffer' = buffer /\ queue' = Tail(queue) /\ UNCHANGED <<handler, accepted>>
      BY <1>3, <2>1, <2>6 DEF StorageReplies, Written
    <3> QED BY <1>1, <2>1, <2>6, <3>1, EndKeepsOnce
  <2> QED BY <1>3, <2>2, <2>3, <2>4, <2>5, <2>6 DEF StorageReplies
<1> QED BY <1>2, <1>3

LEMMA RestartKeepsOnce == ASSUME Inv, OnceInv, Restart PROVE OnceInv'
<1> DEFINE writes == {c \in Among(queue) : c.op \in {"set", "clear"}}
           d == Call("boot", None, <<>>, FALSE)
<1>1. /\ queue \in Seq(TypedCall) /\ buffer \in Seq(Events) /\ Len(buffer) <= ReplayLimit
      /\ handler \in [Events -> {"new", "busy", "done", "dropped", "lost"}]
  BY DEF Inv, TypeInv, OnceInv
<1>2. /\ queue' = <<d>> /\ DOMAIN <<d>> = {1} /\ <<d>>[1] = d /\ d.op = "boot"
      /\ buffer' \in {buffer} \cup {Written(c) : c \in writes}
      /\ torn' = (torn \/ writes # {}) /\ UNCHANGED accepted
      /\ handler' = [e \in Events |-> IF handler[e] = "busy" THEN "lost" ELSE handler[e]]
  BY DEF Restart, Call
<1>3. writes \subseteq TypedCall
  BY <1>1 DEF Among
<1>4. HandlersOK(queue', handler') /\ SentOK(queue', accepted)
  BY <1>2 DEF HandlersOK, SentOK, Holds
<1>5. Len(buffer') <= ReplayLimit
  <2> HIDE DEF writes
  <2> QED BY <1>1, <1>2, <1>3, WrittenFits
<1>6. ASSUME ~torn', EventsOK(queue, buffer, handler, accepted)
      PROVE  EventsOK(queue', buffer', handler', accepted)
  <2>1. writes = {} /\ buffer' = buffer
    <3> HIDE DEF writes
    <3> QED BY <1>2, <1>6
  <2>2. \A e : ~Owed(queue, e)
    BY <2>1 DEF Owed, Among
  <2>3. \A e \in Events : /\ handler'[e] = "done" <=> handler[e] = "done"
    BY <1>1, <1>2
  <2> HIDE DEF writes, d
  <2> QED BY <1>6, <2>1, <2>2, <2>3 DEF EventsOK
<1>7. ~torn' => ~torn
  BY <1>2
<1> QED BY <1>2, <1>4, <1>5, <1>6, <1>7 DEF OnceInv

LEMMA OnceHolds == Spec => []OnceInv
<1>1. Init => OnceInv
  <2> SUFFICES ASSUME Init PROVE OnceInv
    OBVIOUS
  <2> DEFINE d == Call("boot", None, <<>>, FALSE)
  <2>1. queue = <<d>> /\ DOMAIN <<d>> = {1} /\ <<d>>[1] = d /\ d.op = "boot"
    BY DEF Init, Call
  <2>2. HandlersOK(queue, handler) /\ SentOK(queue, accepted)
    BY <2>1 DEF HandlersOK, SentOK, Holds
  <2>3. Len(buffer) <= ReplayLimit /\ Among(buffer) = {}
    <3>1. buffer = <<>> /\ Len(<<>>) = 0 /\ ReplayLimit \in Nat
      BY ConnectionAssumption DEF Init
    <3>2. Among(<<>>) = {}
      BY DEF Among
    <3> QED BY <3>1, <3>2
  <2>4. EventsOK(queue, buffer, handler, accepted)
    BY <2>3 DEF EventsOK, Init
  <2> QED BY <2>2, <2>3, <2>4 DEF OnceInv
<1>2. Inv /\ OnceInv /\ [Next]_vars => OnceInv'
  <2> SUFFICES ASSUME Inv, OnceInv, [Next]_vars PROVE OnceInv'
    OBVIOUS
  <2>1. CASE TimerFires \/ UserStop
    BY <2>1, SameCallsKeep DEF TimerFires, UserStop
  <2>2. CASE UNCHANGED vars
    BY <2>2, SameCallsKeep DEF vars, outbound
  <2> QED BY <2>1, <2>2, SessionKeepsOnce, SocketsKeepOnce, HandleEventKeepsOnce, StorageKeepsOnce,
             RestartKeepsOnce DEF Next
<1> QED BY <1>1, <1>2, InvHolds, PTL DEF Spec

\* However storage calls, handlers, reconnects and restarts are interleaved: unless two sections
\* overlapped, one was cut short or the buffer overflowed, an event whose handler is done reached
\* the transport once or waits in the buffer once.
THEOREM EventsOnce == Spec => []ExactlyOnce
<1>1. Inv /\ OnceInv => ExactlyOnce
  <2> SUFFICES ASSUME Inv, OnceInv, ~torn, NEW e \in Events, handler[e] = "done"
               PROVE  \/ accepted[e] = 1 /\ (Stored(e) > 0 => e \in Replaying)
                      \/ accepted[e] = 0 /\ Stored(e) = 1
    BY DEF ExactlyOnce
  <2>1. \/ accepted[e] = 1 /\ (e \in Among(buffer) => Owed(queue, e))
        \/ accepted[e] = 0 /\ Once(buffer, e)
    BY DEF OnceInv, EventsOK
  <2>2. Owed(queue, e) => e \in Replaying
    BY DEF Owed, Replaying, Among
  <2>3. e \notin Among(buffer) => Stored(e) = 0
    <3>1. e \notin Among(buffer) => {i \in DOMAIN buffer : buffer[i] = e} = {}
      BY DEF Among
    <3> QED BY <3>1, FS_EmptySet DEF Stored
  <2>4. Once(buffer, e) => Stored(e) = 1
    <3> SUFFICES ASSUME Once(buffer, e) PROVE Stored(e) = 1
      OBVIOUS
    <3>1. PICK k \in DOMAIN buffer : \A j \in DOMAIN buffer : buffer[j] = e <=> j = k
      BY DEF Once
    <3>2. {i \in DOMAIN buffer : buffer[i] = e} = {k}
      BY <3>1
    <3> QED BY <3>2, FS_Singleton DEF Stored
  <2> QED BY <2>1, <2>2, <2>3, <2>4
<1> QED BY <1>1, InvHolds, OnceHolds, PTL

=============================================================================
