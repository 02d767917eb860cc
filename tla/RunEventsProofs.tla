---------------------------- MODULE RunEventsProofs ----------------------------
(***************************************************************************)
(* Proofs about RunEvents, for every number of runs and streams and every  *)
(* length of the history: the bus holds the open streams, and implements   *)
(* EventLog.                                                               *)
(***************************************************************************)
EXTENDS RunEvents, SequenceTheorems, TLAPS

-----------------------------------------------------------------------------
(* Lemmas about sequences of events                                        *)

LEMMA Concat ==
  ASSUME NEW s \in Seq(Event), NEW t \in Seq(Event)
  PROVE  /\ s \o t \in Seq(Event)
         /\ Len(s) \in Nat /\ Len(t) \in Nat /\ Len(s \o t) = Len(s) + Len(t)
         /\ DOMAIN s = 1 .. Len(s) /\ DOMAIN t = 1 .. Len(t)
         /\ DOMAIN (s \o t) = 1 .. Len(s) + Len(t)
         /\ \A i \in 1 .. Len(s) : (s \o t)[i] = s[i]
         /\ \A i \in 1 .. Len(t) : (s \o t)[Len(s) + i] = t[i]
<1>1. /\ s \o t \in Seq(Event)
      /\ Len(s \o t) = Len(s) + Len(t)
      /\ \A i \in 1 .. Len(s) + Len(t) : (s \o t)[i] = IF i <= Len(s) THEN s[i] ELSE t[i - Len(s)]
  BY ConcatProperties
<1>2. Len(s) \in Nat /\ Len(t) \in Nat /\ DOMAIN s = 1 .. Len(s) /\ DOMAIN t = 1 .. Len(t)
  BY LenProperties
<1>3. DOMAIN (s \o t) = 1 .. Len(s \o t)
  BY <1>1, LenProperties
<1>4. ASSUME NEW i \in 1 .. Len(s) PROVE (s \o t)[i] = s[i]
  BY <1>1, <1>2
<1>5. ASSUME NEW i \in 1 .. Len(t) PROVE (s \o t)[Len(s) + i] = t[i]
  BY <1>1, <1>2
<1> QED BY <1>1, <1>2, <1>3, <1>4, <1>5

\* What comes after s in s \o t is t.
LEMMA NewsOfConcat ==
  ASSUME NEW s \in Seq(Event), NEW t \in Seq(Event)
  PROVE  SubSeq(s \o t, Len(s) + 1, Len(s \o t)) = t
<1> DEFINE u == SubSeq(s \o t, Len(s) + 1, Len(s \o t))
<1>1. \A i \in Len(s) + 1 .. Len(s \o t) : (s \o t)[i] \in Event
  BY Concat, ElementOfSeq
<1>2. /\ u \in Seq(Event)
      /\ Len(u) = IF Len(s) + 1 <= Len(s \o t) THEN Len(s \o t) - (Len(s) + 1) + 1 ELSE 0
      /\ \A i \in 1 .. Len(s \o t) - (Len(s) + 1) + 1 : u[i] = (s \o t)[Len(s) + 1 + i - 1]
  <2> HIDE DEF u
  <2>1. Len(s) + 1 \in Int /\ Len(s \o t) \in Int
    BY Concat
  <2> QED BY <1>1, <2>1, SubSeqProperties DEF u
<1> HIDE DEF u
<1>3. Len(u) = Len(t)
  BY <1>2, Concat
<1>4. ASSUME NEW i \in 1 .. Len(u) PROVE u[i] = t[i]
  <2>0. Len(s) \in Nat /\ Len(t) \in Nat /\ Len(s \o t) = Len(s) + Len(t) /\ i \in 1 .. Len(t)
    BY <1>3, Concat
  <2>1. Len(s) + 1 + i - 1 = Len(s) + i /\ i \in 1 .. Len(s \o t) - (Len(s) + 1) + 1
    BY <2>0
  <2>2. u[i] = (s \o t)[Len(s) + 1 + i - 1]
    BY <1>2, <2>1
  <2>3. (s \o t)[Len(s) + i] = t[i]
    BY <2>0, Concat
  <2> QED BY <2>1, <2>2, <2>3
<1>5. u = t
  BY <1>2, <1>3, <1>4, SeqEqual
<1> QED BY <1>5 DEF u

\* How many of n events, and which of some events, Trim drops.
Excess(n) == IF n > MaxHistory THEN n - MaxHistory ELSE 0
Dropped(events) == Excess(Len(events))

LEMMA ExcessAgain ==
  ASSUME NEW n \in Nat, NEW k \in Nat
  PROVE  Excess(n + k) = Excess(n) + Excess(n - Excess(n) + k)
<1>1. MaxHistory \in Nat \ {0}
  BY EventsAssumption
<1>2. CASE n > MaxHistory
  <2>1. Excess(n) = n - MaxHistory /\ n - Excess(n) + k = MaxHistory + k
    BY <1>1, <1>2 DEF Excess
  <2>2. Excess(MaxHistory + k) = k /\ Excess(n + k) = n + k - MaxHistory
    BY <1>1, <1>2 DEF Excess
  <2> QED BY <1>1, <2>1, <2>2
<1>3. CASE ~(n > MaxHistory)
  BY <1>1, <1>3 DEF Excess
<1> QED BY <1>2, <1>3

LEMMA Trimmed ==
  ASSUME NEW s \in Seq(Event)
  PROVE  /\ Trim(s) \in Seq(Event)
         /\ Dropped(s) \in Nat /\ Len(Trim(s)) = Len(s) - Dropped(s)
         /\ Len(Trim(s)) <= MaxHistory
         /\ \A i \in 1 .. Len(Trim(s)) : Trim(s)[i] = s[Dropped(s) + i]
<1>1. Len(s) \in Nat /\ MaxHistory \in Nat \ {0}
  BY LenProperties, EventsAssumption
<1>2. Trim(s) = SubSeq(s, Dropped(s) + 1, Len(s)) /\ Dropped(s) \in Nat /\ Dropped(s) <= Len(s)
  BY <1>1 DEF Trim, Dropped, Excess
<1>3. \A i \in Dropped(s) + 1 .. Len(s) : s[i] \in Event
  BY <1>1, <1>2, ElementOfSeq
<1>4. Dropped(s) + 1 \in Int /\ Len(s) \in Int
  BY <1>1, <1>2
<1>5. /\ Trim(s) \in Seq(Event)
      /\ Len(Trim(s)) = IF Dropped(s) + 1 <= Len(s) THEN Len(s) - (Dropped(s) + 1) + 1 ELSE 0
      /\ \A i \in 1 .. Len(s) - (Dropped(s) + 1) + 1 : Trim(s)[i] = s[Dropped(s) + 1 + i - 1]
  BY <1>2, <1>3, <1>4, SubSeqProperties
<1>6. Len(Trim(s)) = Len(s) - Dropped(s)
  BY <1>1, <1>2, <1>5
<1>7. ASSUME NEW i \in 1 .. Len(Trim(s)) PROVE Trim(s)[i] = s[Dropped(s) + i]
  <2>1. Dropped(s) + 1 + i - 1 = Dropped(s) + i /\ i \in 1 .. Len(s) - (Dropped(s) + 1) + 1
    BY <1>1, <1>2, <1>6
  <2> QED BY <1>5, <2>1
<1>8. Len(Trim(s)) <= MaxHistory
  BY <1>1, <1>6 DEF Dropped, Excess
<1> QED BY <1>2, <1>5, <1>6, <1>7, <1>8

\* Trimming what is trimmed already forgets no more.
LEMMA TrimAgain ==
  ASSUME NEW s \in Seq(Event), NEW t \in Seq(Event)
  PROVE  Trim(Trim(s) \o t) = Trim(s \o t)
<1> DEFINE r == Trim(s)
           u == s \o t
           v == r \o t
<1>0. /\ MaxHistory \in Nat \ {0} /\ Len(s) \in Nat /\ Len(t) \in Nat /\ Dropped(s) \in Nat
      /\ r \in Seq(Event) /\ Len(r) = Len(s) - Dropped(s) /\ Len(r) \in Nat
  BY EventsAssumption, Trimmed, LenProperties
<1>1. r \in Seq(Event) /\ \A i \in 1 .. Len(r) : r[i] = s[Dropped(s) + i]
  BY Trimmed
<1> HIDE DEF r
<1>2. /\ u \in Seq(Event) /\ Len(u) = Len(s) + Len(t)
      /\ \A i \in 1 .. Len(s) : u[i] = s[i]
      /\ \A i \in 1 .. Len(t) : u[Len(s) + i] = t[i]
  BY Concat
<1>3. /\ v \in Seq(Event) /\ Len(v) = Len(r) + Len(t)
      /\ \A i \in 1 .. Len(r) : v[i] = r[i]
      /\ \A i \in 1 .. Len(t) : v[Len(r) + i] = t[i]
  BY <1>1, Concat
<1> HIDE DEF u, v
<1>4. Dropped(u) = Dropped(s) + Dropped(v)
  <2>1. Len(u) = Len(s) + Len(t) /\ Len(v) = Len(s) - Excess(Len(s)) + Len(t)
    BY <1>0, <1>2, <1>3 DEF Dropped
  <2>2. Excess(Len(s) + Len(t)) = Excess(Len(s)) + Excess(Len(s) - Excess(Len(s)) + Len(t))
    BY <1>0, ExcessAgain
  <2> QED BY <2>1, <2>2 DEF Dropped
<1>5. /\ Trim(u) \in Seq(Event) /\ Dropped(u) \in Nat /\ Len(Trim(u)) = Len(u) - Dropped(u)
      /\ \A i \in 1 .. Len(Trim(u)) : Trim(u)[i] = u[Dropped(u) + i]
  BY <1>2, Trimmed
<1>6. /\ Trim(v) \in Seq(Event) /\ Dropped(v) \in Nat /\ Len(Trim(v)) = Len(v) - Dropped(v)
      /\ \A i \in 1 .. Len(Trim(v)) : Trim(v)[i] = v[Dropped(v) + i]
  BY <1>3, Trimmed
<1>7. Len(Trim(v)) = Len(Trim(u))
  <2>1. /\ Len(u) = Len(s) + Len(t) /\ Len(v) = Len(s) - Dropped(s) + Len(t)
        /\ Dropped(v) \in Nat /\ Len(Trim(u)) = Len(u) - Dropped(u) /\ Len(Trim(v)) = Len(v) - Dropped(v)
    BY <1>0, <1>2, <1>3, <1>5, <1>6
  <2> QED BY SMTT(30), <1>0, <1>4, <2>1
<1>8. ASSUME NEW i \in 1 .. Len(Trim(v)) PROVE Trim(v)[i] = Trim(u)[i]
  <2> DEFINE d == Dropped(v) + i
  <2>1. Len(Trim(v)) \in Nat /\ i \in Nat /\ i >= 1 /\ i <= Len(Trim(v))
    BY <1>6, LenProperties
  <2>2. Trim(v)[i] = v[d] /\ Trim(u)[i] = u[Dropped(u) + i]
    BY <1>5, <1>6, <1>7
  <2>3. Dropped(u) + i = Dropped(s) + d /\ d \in Nat \ {0} /\ d <= Len(r) + Len(t)
    <3>1. /\ Dropped(v) \in Nat /\ Dropped(s) \in Nat /\ Len(Trim(v)) = Len(v) - Dropped(v)
          /\ Len(v) = Len(r) + Len(t) /\ Len(r) \in Nat /\ Len(t) \in Nat
      BY <1>0, <1>3, <1>6
    <3> QED BY <1>4, <2>1, <3>1
  <2> HIDE DEF d
  <2>4. CASE d <= Len(r)
    <3>1. d \in 1 .. Len(r) /\ Dropped(s) + d \in 1 .. Len(s)
      BY <2>3, <2>4, <1>0
    <3> QED BY <3>1, <2>2, <2>3, <1>1, <1>2, <1>3
  <2>5. CASE d > Len(r)
    <3> DEFINE e == d - Len(r)
    <3>1. e \in 1 .. Len(t) /\ d = Len(r) + e /\ Dropped(s) + d = Len(s) + e
      BY <2>3, <2>5, <1>0
    <3> HIDE DEF e
    <3>2. v[d] = t[e] /\ u[Dropped(s) + d] = t[e]
      BY <3>1, <1>2, <1>3
    <3> QED BY <2>2, <2>3, <3>2
  <2>6. d <= Len(r) \/ d > Len(r)
    BY <2>3, <1>0
  <2> QED BY <2>4, <2>5, <2>6
<1>9. Trim(v) = Trim(u)
  BY <1>5, <1>6, <1>7, <1>8, SeqEqual
<1> QED BY <1>9 DEF r, u, v

LEMMA EndsOfConcat ==
  ASSUME NEW s \in Seq(Event), NEW t \in Seq(Event)
  PROVE  Ends(s \o t) <=> Ends(s) \/ Ends(t)
<1>1. Ends(s) => Ends(s \o t)
  BY Concat DEF Ends
<1>2. ASSUME Ends(t) PROVE Ends(s \o t)
  <2>1. PICK i \in 1 .. Len(t) : t[i].kind \in EndKinds
    BY <1>2, Concat DEF Ends
  <2>2. Len(s) + i \in 1 .. Len(s) + Len(t)
    BY Concat
  <2> QED BY <2>1, <2>2, Concat DEF Ends
<1>3. ASSUME Ends(s \o t), ~Ends(s) PROVE Ends(t)
  <2>1. PICK i \in 1 .. Len(s) + Len(t) : (s \o t)[i].kind \in EndKinds
    BY <1>3, Concat DEF Ends
  <2>2. ~ (i <= Len(s))
    BY <1>3, <2>1, Concat DEF Ends
  <2>3. i - Len(s) \in 1 .. Len(t) /\ Len(s) + (i - Len(s)) = i
    BY <2>2, Concat
  <2>4. t[i - Len(s)] = (s \o t)[i]
    BY <2>3, Concat
  <2> QED BY <2>1, <2>3, <2>4, Concat DEF Ends
<1> QED BY <1>1, <1>2, <1>3

-----------------------------------------------------------------------------
(* The inductive invariant                                                 *)

\* A run is over when, and only when, its end was published; parallel nodes work
\* while it fans out, and at most one of them goes on when the other has failed.
PhasesOK ==
  \A r \in Runs :
    /\ phase[r] \in {"new", "loop"} => working[r] = {}
    /\ phase[r] = "over" => \E n \in FanOut : working[r] \subseteq {n}
    /\ r \in finished <=> phase[r] = "over"
    /\ r \in finished <=> Ends(log[r])

\* The history is what is left of the log.
HistoryKept == \A r \in Runs : history[r] = Trim(log[r])

\* An open stream has one run; a new one was given nothing.
StreamsOK ==
  \A s \in Streams :
    /\ streams[s].state = "new" => streams[s].wrote = <<>>
    /\ streams[s].state = "open" => \E r \in Runs : streams[s].run = {r}

\* The end of a run is its last event, or its last but one when no node is left that
\* could publish.
EndsLast ==
  \A r \in finished :
    LET k == Len(log[r])
    IN  \/ k >= 1 /\ log[r][k].kind \in EndKinds
        \/ k >= 2 /\ log[r][k - 1].kind \in EndKinds /\ working[r] = {}

Inv ==
  /\ TypeOK /\ HoldsOpenStreams
  /\ PhasesOK /\ HistoryKept /\ StreamsOK /\ EndsLast
  /\ MaxHistory > 1 => EndIsSeen

-----------------------------------------------------------------------------
(* publish                                                                 *)

LEMMA NewEventsType ==
  ASSUME NEW r \in Runs, log \in [Runs -> Seq(Event)], NEW kinds \in Seq(Kinds)
  PROVE  /\ NewEvents(r, kinds) \in Seq(Event)
         /\ Len(NewEvents(r, kinds)) = Len(kinds)
         /\ \A i \in 1 .. Len(kinds) : NewEvents(r, kinds)[i].kind = kinds[i]
         /\ Ends(NewEvents(r, kinds)) <=> \E i \in 1 .. Len(kinds) : kinds[i] \in EndKinds
<1>1. /\ Len(kinds) \in Nat /\ DOMAIN kinds = 1 .. Len(kinds) /\ Len(log[r]) \in Nat
      /\ \A i \in 1 .. Len(kinds) : kinds[i] \in Kinds
  BY LenProperties, ElementOfSeq
<1> DEFINE new == [i \in 1 .. Len(kinds) |-> [n |-> Len(log[r]) + i, kind |-> kinds[i]]]
<1>2. NewEvents(r, kinds) = new
  BY <1>1 DEF NewEvents
<1>3. \A i \in 1 .. Len(kinds) : [n |-> Len(log[r]) + i, kind |-> kinds[i]] \in Event
  BY <1>1 DEF Event
<1>4. new \in [1 .. Len(kinds) -> Event]
  BY <1>3
<1>5. \A i \in 1 .. Len(kinds) : new[i].kind = kinds[i]
  OBVIOUS
<1> HIDE DEF new
<1>6. new \in Seq(Event) /\ Len(new) = Len(kinds) /\ DOMAIN new = 1 .. Len(kinds)
  <2>1. new \in Seq(Event)
    BY <1>1, <1>4, SeqDef
  <2>2. DOMAIN new = 1 .. Len(kinds)
    BY <1>4
  <2>3. Len(new) \in Nat /\ DOMAIN new = 1 .. Len(new)
    BY <2>1, LenProperties
  <2>4. Len(new) = Len(kinds)
    BY <1>1, <2>2, <2>3
  <2> QED BY <2>1, <2>2, <2>4
<1>7. Ends(new) <=> \E i \in 1 .. Len(kinds) : kinds[i] \in EndKinds
  BY <1>5, <1>6 DEF Ends
<1> QED BY <1>2, <1>5, <1>6, <1>7

\* The subscribers of each run, after those of r were set.
LEMMA SubscribeValue ==
  ASSUME NEW r \in Runs, NEW set, subscribers' = Subscribe(r, set)
  PROVE  /\ SubscribersOf(r)' = set
         /\ \A q \in Runs : q # r => SubscribersOf(q)' = SubscribersOf(q)
         /\ DOMAIN subscribers' \subseteq DOMAIN subscribers \cup {r}
         /\ (\A q \in DOMAIN subscribers : subscribers[q] # {})
              => \A q \in DOMAIN subscribers' : subscribers'[q] # {}
BY DEF Subscribe, SubscribersOf

LEMMA SubscribeType ==
  ASSUME NEW r \in Runs, NEW set \in SUBSET Streams, subscribers' = Subscribe(r, set),
         DOMAIN subscribers \subseteq Runs,
         \A q \in DOMAIN subscribers : subscribers[q] \subseteq Streams
  PROVE  /\ DOMAIN subscribers' \subseteq Runs
         /\ \A q \in DOMAIN subscribers' : subscribers'[q] \subseteq Streams
BY DEF Subscribe

\* A stream after publish.
LEMMA Heard ==
  ASSUME TypeOK, NEW r \in Runs, NEW kinds \in Seq(Kinds), Publish(r, kinds), NEW s \in Streams
  PROVE  /\ s \notin SubscribersOf(r) => streams'[s] = streams[s]
         /\ s \in SubscribersOf(r) =>
              /\ streams'[s].run = streams[s].run
              /\ streams'[s].wrote = streams[s].wrote \o NewEvents(r, kinds)
              /\ streams'[s].state = IF Ends(NewEvents(r, kinds)) THEN "ended" ELSE streams[s].state
         /\ streams'[s] \in Stream
<1> DEFINE new == NewEvents(r, kinds)
<1>1. new \in Seq(Event)
  BY NewEventsType DEF TypeOK
<1>2. streams[s] \in Stream
  BY DEF TypeOK
<1>3. streams'[s] = IF s \in SubscribersOf(r)
                    THEN [streams[s] EXCEPT !.wrote = @ \o new, !.state = IF Ends(new) THEN "ended" ELSE @]
                    ELSE streams[s]
  BY DEF Publish
<1> HIDE DEF new
<1>4. streams[s].wrote \o new \in Seq(Event)
  BY <1>1, <1>2, Concat DEF Stream
<1> DEFINE wrote == streams[s].wrote \o new
           state == IF Ends(new) THEN "ended" ELSE streams[s].state
<1>5. state \in {"new", "404", "403", "open", "ended", "left"}
  BY <1>2 DEF Stream
<1>6. CASE s \in SubscribersOf(r)
  <2>1. streams'[s] = [streams[s] EXCEPT !.wrote = wrote, !.state = state]
    BY <1>3, <1>6
  <2>2. streams'[s] = [run |-> streams[s].run, wrote |-> wrote, state |-> state]
    <3> HIDE DEF wrote, state
    <3> QED BY <1>2, <2>1 DEF Stream
  <2>3. streams'[s] \in Stream
    <3>1. streams[s].run \in SUBSET Runs /\ wrote \in Seq(Event)
      BY <1>2, <1>4 DEF Stream
    <3> HIDE DEF wrote, state
    <3> QED BY <1>5, <2>2, <3>1 DEF Stream
  <2> QED BY <1>6, <2>2, <2>3 DEF new
<1>7. CASE s \notin SubscribersOf(r)
  BY <1>2, <1>3, <1>7
<1> QED BY <1>6, <1>7

LEMMA PublishTypes ==
  ASSUME TypeOK, NEW r \in Runs, NEW kinds \in Seq(Kinds), Publish(r, kinds)
  PROVE  /\ history' \in [Runs -> Seq(Event)] /\ log' \in [Runs -> Seq(Event)]
         /\ \A q \in Runs : Len(history'[q]) <= MaxHistory
         /\ finished' \subseteq Runs
         /\ DOMAIN subscribers' \subseteq Runs
         /\ \A q \in DOMAIN subscribers' : subscribers'[q] \subseteq Streams
         /\ streams' \in [Streams -> Stream]
<1> DEFINE new == NewEvents(r, kinds)
<1>1. new \in Seq(Event)
  BY NewEventsType DEF TypeOK
<1>2. /\ log' = [log EXCEPT ![r] = @ \o new]
      /\ history' = [history EXCEPT ![r] = Trim(@ \o new)]
      /\ finished' = IF Ends(new) THEN finished \cup {r} ELSE finished
      /\ subscribers' = Subscribe(r, StillSubscribed(r, new))
      /\ DOMAIN streams' = Streams /\ streams' = [s \in Streams |-> streams'[s]]
  BY DEF Publish
<1> HIDE DEF new
<1>3. log[r] \o new \in Seq(Event) /\ history[r] \o new \in Seq(Event)
  BY <1>1, Concat DEF TypeOK
<1>4. Trim(history[r] \o new) \in Seq(Event) /\ Len(Trim(history[r] \o new)) <= MaxHistory
  BY <1>3, Trimmed
<1>5. StillSubscribed(r, new) \in SUBSET Streams
  BY DEF StillSubscribed, SubscribersOf, TypeOK
<1>6. DOMAIN subscribers' \subseteq Runs /\ \A q \in DOMAIN subscribers' : subscribers'[q] \subseteq Streams
  BY ZenonT(30), <1>2, <1>5, SubscribeType DEF TypeOK
<1>7. streams' \in [Streams -> Stream]
  BY <1>2, Heard
<1>8. log' \in [Runs -> Seq(Event)]
  BY <1>2, <1>3 DEF TypeOK
<1>9. history' \in [Runs -> Seq(Event)] /\ \A q \in Runs : Len(history'[q]) <= MaxHistory
  <2> DEFINE h == Trim(history[r] \o new)
  <2>1. history' = [history EXCEPT ![r] = h] /\ h \in Seq(Event) /\ Len(h) <= MaxHistory
    BY <1>2, <1>4
  <2> HIDE DEF h
  <2> QED BY <2>1 DEF TypeOK
<1>10. finished' \subseteq Runs
  BY <1>2 DEF TypeOK
<1> QED BY <1>6, <1>7, <1>8, <1>9, <1>10

\* publish keeps the bus and the streams in step.
LEMMA PublishHolds ==
  ASSUME TypeOK, HoldsOpenStreams, StreamsOK, NEW r \in Runs, NEW kinds \in Seq(Kinds), Publish(r, kinds)
  PROVE  HoldsOpenStreams' /\ StreamsOK'
<1> DEFINE new == NewEvents(r, kinds)
<1>1. subscribers' = Subscribe(r, StillSubscribed(r, new))
  BY DEF Publish
<1>2. \A s \in Streams :
        /\ s \notin SubscribersOf(r) => streams'[s] = streams[s]
        /\ s \in SubscribersOf(r) =>
             /\ streams'[s].run = streams[s].run
             /\ streams'[s].state = IF Ends(new) THEN "ended" ELSE streams[s].state
  BY Heard
<1> HIDE DEF new
<1>3. /\ SubscribersOf(r)' = StillSubscribed(r, new)
      /\ \A q \in Runs : q # r => SubscribersOf(q)' = SubscribersOf(q)
      /\ \A q \in DOMAIN subscribers' : subscribers'[q] # {}
  BY <1>1, SubscribeValue DEF HoldsOpenStreams
<1>4. ASSUME NEW s \in Streams, NEW q \in Runs
      PROVE  s \in SubscribersOf(q)' <=> streams'[s].state = "open" /\ streams'[s].run = {q}
  <2>1. s \in SubscribersOf(q) <=> streams[s].state = "open" /\ streams[s].run = {q}
    BY DEF HoldsOpenStreams
  <2>2. s \in SubscribersOf(r) <=> streams[s].state = "open" /\ streams[s].run = {r}
    BY DEF HoldsOpenStreams
  <2>3. CASE s \in SubscribersOf(r)
    <3>1. streams[s].run = {r} /\ streams[s].state = "open"
      BY <2>2, <2>3
    <3>2. CASE q = r
      BY <1>2, <1>3, <2>3, <3>1, <3>2 DEF StillSubscribed
    <3>3. CASE q # r
      BY <1>2, <1>3, <2>1, <2>3, <3>1, <3>3
    <3> QED BY <3>2, <3>3
  <2>4. CASE s \notin SubscribersOf(r)
    <3>1. streams'[s] = streams[s]
      BY <1>2, <2>4
    <3>2. CASE q = r
      BY <1>3, <2>1, <2>4, <3>1, <3>2 DEF StillSubscribed
    <3>3. CASE q # r
      BY <1>3, <2>1, <3>1, <3>3
    <3> QED BY <3>2, <3>3
  <2> QED BY <2>3, <2>4
<1>5. StreamsOK'
  <2> SUFFICES ASSUME NEW s \in Streams
               PROVE  /\ streams'[s].state = "new" => streams'[s].wrote = <<>>
                      /\ streams'[s].state = "open" => \E q \in Runs : streams'[s].run = {q}
    BY DEF StreamsOK
  <2>1. CASE s \in SubscribersOf(r)
    <3>1. streams[s].run = {r} /\ streams[s].state = "open"
      BY <2>1 DEF HoldsOpenStreams
    <3> QED BY <1>2, <2>1, <3>1
  <2>2. CASE s \notin SubscribersOf(r)
    BY <1>2, <2>2 DEF StreamsOK
  <2> QED BY <2>1, <2>2
<1> QED BY <1>3, <1>4, <1>5 DEF HoldsOpenStreams

\* The log grows, and the history with it.
LEMMA PublishLogs ==
  ASSUME TypeOK, HistoryKept, NEW r \in Runs, NEW kinds \in Seq(Kinds), Publish(r, kinds)
  PROVE  /\ HistoryKept'
         /\ log'[r] = log[r] \o NewEvents(r, kinds)
         /\ \A q \in Runs \ {r} : log'[q] = log[q]
         /\ Ends(log'[r]) <=> Ends(log[r]) \/ Ends(NewEvents(r, kinds))
<1> DEFINE new == NewEvents(r, kinds)
<1>1. new \in Seq(Event)
  BY NewEventsType DEF TypeOK
<1>2. log' = [log EXCEPT ![r] = @ \o new] /\ history' = [history EXCEPT ![r] = Trim(@ \o new)]
  BY DEF Publish
<1> HIDE DEF new
<1>3. log'[r] = log[r] \o new /\ history'[r] = Trim(history[r] \o new)
  BY <1>2 DEF TypeOK
<1>4. \A q \in Runs \ {r} : log'[q] = log[q] /\ history'[q] = history[q]
  BY <1>2 DEF TypeOK
<1>5. log[r] \in Seq(Event)
  BY DEF TypeOK
<1>6. history'[r] = Trim(log'[r])
  <2>1. history[r] = Trim(log[r])
    BY DEF HistoryKept
  <2>2. Trim(Trim(log[r]) \o new) = Trim(log[r] \o new)
    BY <1>1, <1>5, TrimAgain
  <2> QED BY <1>3, <2>1, <2>2
<1>7. ASSUME NEW q \in Runs PROVE history'[q] = Trim(log'[q])
  BY <1>4, <1>6 DEF HistoryKept
<1>8. HistoryKept'
  <2>1. \A q \in Runs : Trim(log[q])' = Trim(log'[q])
    BY DEF Trim
  <2> QED BY <1>7, <2>1 DEF HistoryKept
<1>9. Ends(log'[r]) <=> Ends(log[r]) \/ Ends(new)
  BY <1>1, <1>3, <1>5, EndsOfConcat
<1> QED BY <1>3, <1>4, <1>8, <1>9 DEF new

\* A stream that publish ends was given the end.
LEMMA PublishEndSeen ==
  ASSUME TypeOK, HoldsOpenStreams, EndIsSeen,
         NEW r \in Runs, NEW kinds \in Seq(Kinds), Publish(r, kinds)
  PROVE  EndIsSeen'
<1> SUFFICES ASSUME NEW s \in Streams, streams'[s].state = "ended"
             PROVE  Ends(streams'[s].wrote)
  BY DEF EndIsSeen, Ends
<1> DEFINE new == NewEvents(r, kinds)
<1>1. new \in Seq(Event) /\ streams[s].wrote \in Seq(Event)
  BY NewEventsType DEF TypeOK, Stream
<1>2. CASE s \in SubscribersOf(r)
  <2>1. streams[s].state = "open"
    BY <1>2 DEF HoldsOpenStreams
  <2>2. streams'[s].wrote = streams[s].wrote \o new /\ Ends(new)
    BY <1>2, <2>1, Heard
  <2> HIDE DEF new
  <2> QED BY <1>1, <2>2, EndsOfConcat
<1>3. CASE s \notin SubscribersOf(r)
  BY <1>3, Heard DEF EndIsSeen
<1> QED BY <1>2, <1>3

-----------------------------------------------------------------------------
(* The steps of a run                                                      *)

\* Any event but the end.
LEMMA PublishProgress ==
  ASSUME Inv, NEW r \in Runs, Publish(r, <<"progress">>)
  PROVE  /\ finished' = finished
         /\ \A q \in Runs : Ends(log'[q]) <=> Ends(log[q])
         /\ \A q \in Runs \ {r} : log'[q] = log[q]
         /\ Len(log'[r]) = Len(log[r]) + 1
         /\ \A i \in 1 .. Len(log[r]) : log'[r][i] = log[r][i]
<1>1. <<"progress">> \in Seq(Kinds) /\ Len(<<"progress">>) = 1 /\ <<"progress">>[1] = "progress"
  BY DEF Kinds
<1>2. "progress" \notin EndKinds
  BY DEF EndKinds
<1> DEFINE kinds == <<"progress">>
           new == NewEvents(r, kinds)
<1>3. kinds \in Seq(Kinds) /\ Len(kinds) = 1 /\ kinds[1] = "progress" /\ Publish(r, kinds)
  BY <1>1
<1> HIDE DEF kinds
<1>4. TypeOK /\ HistoryKept /\ log \in [Runs -> Seq(Event)]
  BY DEF Inv, TypeOK
<1>5. new \in Seq(Event) /\ Len(new) = 1 /\ ~Ends(new)
  BY SMTT(30), <1>2, <1>3, <1>4, NewEventsType
<1>6. /\ log'[r] = log[r] \o new
      /\ \A q \in Runs \ {r} : log'[q] = log[q]
      /\ Ends(log'[r]) <=> Ends(log[r]) \/ Ends(new)
  BY <1>3, <1>4, PublishLogs
<1>7. finished' = finished
  BY <1>3, <1>5 DEF Publish
<1> HIDE DEF new
<1>8. log[r] \in Seq(Event)
  BY <1>4
<1>9. Len(log'[r]) = Len(log[r]) + 1 /\ \A i \in 1 .. Len(log[r]) : log'[r][i] = log[r][i]
  <2> DEFINE s == log[r]
             u == s \o new
  <2>1. s \in Seq(Event) /\ new \in Seq(Event) /\ log'[r] = u /\ Len(new) = 1
    BY <1>5, <1>6, <1>8
  <2> HIDE DEF s
  <2>2. Len(u) = Len(s) + Len(new) /\ \A i \in 1 .. Len(s) : u[i] = s[i]
    BY <2>1, Concat
  <2> HIDE DEF u
  <2>3. Len(log'[r]) = Len(s) + 1 /\ \A i \in 1 .. Len(s) : log'[r][i] = s[i]
    BY <2>1, <2>2
  <2> QED BY <2>3 DEF s
<1> QED BY <1>5, <1>6, <1>7, <1>9

\* What a run reports at its end ends with the end.
LEMMA Reports ==
  ASSUME NEW kinds \in {Report(<<"run_finished">>), Report(<<"progress", "run_finished">>),
                        Report(<<"error">>)}
  PROVE  /\ kinds \in Seq(Kinds) /\ Len(kinds) \in Nat \ {0}
         /\ kinds[Len(kinds)] \in EndKinds
<1>1. CASE kinds = <<"run_finished">>
  <2>1. Len(kinds) = 1 /\ kinds[1] = "run_finished"
    BY <1>1
  <2>2. kinds \in Seq(Kinds)
    BY <1>1 DEF Kinds
  <2> QED BY <2>1, <2>2 DEF EndKinds
<1>2. CASE kinds = <<"progress", "run_finished">>
  <2>1. Len(kinds) = 2 /\ kinds[2] = "run_finished"
    BY <1>2
  <2>2. kinds \in Seq(Kinds)
    BY <1>2 DEF Kinds
  <2> QED BY <2>1, <2>2 DEF EndKinds
<1>3. CASE kinds = <<"error">>
  <2>1. Len(kinds) = 1 /\ kinds[1] = "error"
    BY <1>3
  <2>2. kinds \in Seq(Kinds)
    BY <1>3 DEF Kinds
  <2> QED BY <2>1, <2>2 DEF EndKinds
<1> QED BY <1>1, <1>2, <1>3 DEF Report

\* The end of a run.
LEMMA PublishEnd ==
  ASSUME Inv, NEW r \in Runs,
         NEW kinds \in Seq(Kinds), Len(kinds) \in Nat \ {0}, kinds[Len(kinds)] \in EndKinds,
         Publish(r, kinds)
  PROVE  /\ finished' = finished \cup {r}
         /\ \A q \in Runs \ {r} : log'[q] = log[q]
         /\ Ends(log'[r])
         /\ Len(log'[r]) >= 1 /\ log'[r][Len(log'[r])].kind \in EndKinds
<1> DEFINE new == NewEvents(r, kinds)
<1>1. TypeOK /\ HistoryKept /\ log \in [Runs -> Seq(Event)]
  BY DEF Inv, TypeOK
<1>2. Len(kinds) \in 1 .. Len(kinds)
  OBVIOUS
<1>3. new \in Seq(Event) /\ Len(new) = Len(kinds) /\ Ends(new) /\ new[Len(kinds)].kind \in EndKinds
  BY <1>1, <1>2, NewEventsType
<1>4. /\ log'[r] = log[r] \o new
      /\ \A q \in Runs \ {r} : log'[q] = log[q]
      /\ Ends(log'[r]) <=> Ends(log[r]) \/ Ends(new)
  BY <1>1, PublishLogs
<1>5. finished' = finished \cup {r}
  BY <1>3 DEF Publish
<1> HIDE DEF new
<1>6. log[r] \in Seq(Event)
  BY <1>1
<1>7. /\ Len(log[r]) \in Nat /\ Len(log'[r]) = Len(log[r]) + Len(new)
      /\ \A i \in 1 .. Len(new) : log'[r][Len(log[r]) + i] = new[i]
  <2> DEFINE s == log[r]
             u == s \o new
  <2>1. s \in Seq(Event) /\ new \in Seq(Event) /\ log'[r] = u
    BY <1>3, <1>4, <1>6
  <2> HIDE DEF s
  <2>2. Len(s) \in Nat /\ Len(u) = Len(s) + Len(new) /\ \A i \in 1 .. Len(new) : u[Len(s) + i] = new[i]
    BY <2>1, Concat
  <2> HIDE DEF u
  <2>3. /\ Len(s) \in Nat /\ Len(log'[r]) = Len(s) + Len(new)
        /\ \A i \in 1 .. Len(new) : log'[r][Len(s) + i] = new[i]
    BY <2>1, <2>2
  <2> QED BY <2>3 DEF s
<1>8. log'[r][Len(log'[r])] = new[Len(kinds)] /\ Len(log'[r]) >= 1
  BY <1>2, <1>3, <1>7
<1> QED BY <1>3, <1>4, <1>5, <1>8

\* What publish preserves, whoever calls it.
LEMMA PublishInv ==
  ASSUME Inv, NEW r \in Runs, NEW kinds \in Seq(Kinds), Publish(r, kinds),
         phase' \in [Runs -> {"new", "fanout", "loop", "over"}],
         working' \in [Runs -> SUBSET FanOut], unstarted' \in [Runs -> SUBSET FanOut],
         PhasesOK', EndsLast'
  PROVE  Inv'
<1>1. TypeOK'
  <2>1. /\ history' \in [Runs -> Seq(Event)] /\ log' \in [Runs -> Seq(Event)]
        /\ \A q \in Runs : Len(history'[q]) <= MaxHistory
        /\ finished' \subseteq Runs
        /\ DOMAIN subscribers' \subseteq Runs
        /\ \A q \in DOMAIN subscribers' : subscribers'[q] \subseteq Streams
        /\ streams' \in [Streams -> Stream]
    BY PublishTypes DEF Inv
  <2> QED BY <2>1 DEF TypeOK
<1>2. HoldsOpenStreams' /\ StreamsOK'
  BY PublishHolds DEF Inv
<1>3. HistoryKept'
  BY PublishLogs DEF Inv
<1>4. (MaxHistory > 1 => EndIsSeen)'
  BY PublishEndSeen DEF Inv
<1> QED BY <1>1, <1>2, <1>3, <1>4 DEF Inv

\* A step of run r leaves the other runs alone.
OthersAsTheyAre(r) ==
  /\ phase' \in [Runs -> {"new", "fanout", "loop", "over"}]
  /\ working' \in [Runs -> SUBSET FanOut] /\ unstarted' \in [Runs -> SUBSET FanOut]
  /\ \A q \in Runs \ {r} : phase'[q] = phase[q] /\ working'[q] = working[q]

\* A step of a run that is not over and does not end.
LEMMA GoesOn ==
  ASSUME Inv, NEW r \in Runs, Publish(r, <<"progress">>), OthersAsTheyAre(r),
         phase[r] # "over", phase'[r] # "over",
         phase'[r] \in {"new", "loop"} => working'[r] = {}
  PROVE  Inv'
<1>1. <<"progress">> \in Seq(Kinds)
  BY DEF Kinds
<1>2. /\ finished' = finished
      /\ \A q \in Runs : Ends(log'[q]) <=> Ends(log[q])
      /\ \A q \in Runs \ {r} : log'[q] = log[q]
  BY PublishProgress
<1>3. r \notin finished /\ ~Ends(log[r])
  BY DEF Inv, PhasesOK
<1>4. PhasesOK'
  <2> SUFFICES ASSUME NEW q \in Runs
               PROVE  /\ phase'[q] \in {"new", "loop"} => working'[q] = {}
                      /\ phase'[q] = "over" => \E n \in FanOut : working'[q] \subseteq {n}
                      /\ q \in finished' <=> phase'[q] = "over"
                      /\ q \in finished' <=> Ends(log'[q])
    BY DEF PhasesOK, Ends
  <2>1. CASE q = r
    BY <1>2, <1>3, <2>1
  <2>2. CASE q # r
    BY <1>2, <2>2 DEF Inv, PhasesOK, OthersAsTheyAre
  <2> QED BY <2>1, <2>2
<1>5. EndsLast'
  <2>1. \A q \in finished : q # r /\ q \in Runs /\ log'[q] = log[q] /\ working'[q] = working[q]
    BY <1>2, <1>3 DEF Inv, TypeOK, OthersAsTheyAre
  <2> QED BY <1>2, <2>1 DEF Inv, EndsLast
<1> QED BY <1>1, <1>4, <1>5, PublishInv DEF OthersAsTheyAre

\* The parallel node that is left when a run has failed finishes.
LEMMA GoesOnAlone ==
  ASSUME Inv, NEW r \in Runs, Publish(r, <<"progress">>), OthersAsTheyAre(r),
         phase[r] = "over", phase'[r] = "over", working[r] # {}, working'[r] = {}
  PROVE  Inv'
<1>1. <<"progress">> \in Seq(Kinds)
  BY DEF Kinds
<1>2. /\ finished' = finished
      /\ \A q \in Runs : Ends(log'[q]) <=> Ends(log[q])
      /\ \A q \in Runs \ {r} : log'[q] = log[q]
      /\ Len(log'[r]) = Len(log[r]) + 1
      /\ \A i \in 1 .. Len(log[r]) : log'[r][i] = log[r][i]
  BY PublishProgress
<1>3. r \in finished
  BY DEF Inv, PhasesOK
<1>4. PhasesOK'
  <2> SUFFICES ASSUME NEW q \in Runs
               PROVE  /\ phase'[q] \in {"new", "loop"} => working'[q] = {}
                      /\ phase'[q] = "over" => \E n \in FanOut : working'[q] \subseteq {n}
                      /\ q \in finished' <=> phase'[q] = "over"
                      /\ q \in finished' <=> Ends(log'[q])
    BY DEF PhasesOK, Ends
  <2>1. CASE q = r
    BY <1>2, <1>3, <2>1 DEF Inv, PhasesOK, FanOut
  <2>2. CASE q # r
    BY <1>2, <2>2 DEF Inv, PhasesOK, OthersAsTheyAre
  <2> QED BY <2>1, <2>2
<1>5. EndsLast'
  <2>1. \A q \in finished \ {r} : q \in Runs /\ log'[q] = log[q] /\ working'[q] = working[q]
    BY <1>2 DEF Inv, TypeOK, OthersAsTheyAre
  <2>2. Len(log[r]) \in Nat /\ Len(log[r]) >= 1 /\ log[r][Len(log[r])].kind \in EndKinds
    <3>1. log[r] \in Seq(Event)
      BY DEF Inv, TypeOK
    <3>2. Len(log[r]) \in Nat
      BY <3>1, LenProperties
    <3> QED BY <1>3, <3>2 DEF Inv, EndsLast
  <2>3. /\ Len(log'[r]) >= 2 /\ Len(log'[r]) - 1 = Len(log[r])
        /\ log'[r][Len(log[r])].kind \in EndKinds
    BY <1>2, <2>2
  <2>4. Len(log'[r]) >= 2 /\ log'[r][Len(log'[r]) - 1].kind \in EndKinds
    BY <2>3
  <2> QED BY <1>2, <2>1, <2>4 DEF Inv, EndsLast
<1> QED BY <1>1, <1>4, <1>5, PublishInv DEF OthersAsTheyAre

\* The step that ends a run.
LEMMA EndsNow ==
  ASSUME Inv, NEW r \in Runs,
         NEW kinds \in {Report(<<"run_finished">>), Report(<<"progress", "run_finished">>),
                        Report(<<"error">>)},
         Publish(r, kinds), OthersAsTheyAre(r), phase'[r] = "over",
         \E n \in FanOut : working'[r] \subseteq {n}
  PROVE  Inv'
<1>1. kinds \in Seq(Kinds) /\ Len(kinds) \in Nat \ {0} /\ kinds[Len(kinds)] \in EndKinds
  BY Reports
<1>2. /\ finished' = finished \cup {r}
      /\ \A q \in Runs \ {r} : log'[q] = log[q]
      /\ Ends(log'[r])
      /\ Len(log'[r]) >= 1 /\ log'[r][Len(log'[r])].kind \in EndKinds
  BY <1>1, PublishEnd
<1>3. PhasesOK'
  <2> SUFFICES ASSUME NEW q \in Runs
               PROVE  /\ phase'[q] \in {"new", "loop"} => working'[q] = {}
                      /\ phase'[q] = "over" => \E n \in FanOut : working'[q] \subseteq {n}
                      /\ q \in finished' <=> phase'[q] = "over"
                      /\ q \in finished' <=> Ends(log'[q])
    BY DEF PhasesOK, Ends
  <2>1. CASE q = r
    BY <1>2, <2>1
  <2>2. CASE q # r
    BY <1>2, <2>2 DEF Inv, PhasesOK, OthersAsTheyAre
  <2> QED BY <2>1, <2>2
<1>4. EndsLast'
  <2>1. \A q \in finished \ {r} : q \in Runs /\ log'[q] = log[q] /\ working'[q] = working[q]
    BY <1>2 DEF Inv, TypeOK, OthersAsTheyAre
  <2> QED BY <1>2, <2>1 DEF Inv, EndsLast
<1> QED BY <1>1, <1>3, <1>4, PublishInv DEF OthersAsTheyAre

LEMMA StartInv == ASSUME Inv, NEW r \in Runs, Start(r) PROVE Inv'
<1>1. phase' = [phase EXCEPT ![r] = "fanout"] /\ phase[r] = "new"
      /\ unstarted' = [unstarted EXCEPT ![r] = FanOut] /\ working' = working
      /\ Publish(r, <<"progress">>)
  BY DEF Start
<1>2. OthersAsTheyAre(r) /\ phase'[r] = "fanout"
  BY <1>1 DEF Inv, TypeOK, OthersAsTheyAre
<1> QED BY <1>1, <1>2, GoesOn

LEMMA NodeStartsInv == ASSUME Inv, NEW r \in Runs, NEW n \in FanOut, NodeStarts(r, n) PROVE Inv'
<1>1. /\ phase[r] = "fanout" /\ phase' = phase
      /\ unstarted' = [unstarted EXCEPT ![r] = @ \ {n}]
      /\ working' = [working EXCEPT ![r] = @ \cup {n}]
      /\ Publish(r, <<"progress">>)
  BY DEF NodeStarts
<1>2. OthersAsTheyAre(r)
  BY <1>1 DEF Inv, TypeOK, OthersAsTheyAre
<1> QED BY <1>1, <1>2, GoesOn

LEMMA NodeFinishesInv == ASSUME Inv, NEW r \in Runs, NEW n \in FanOut, NodeFinishes(r, n) PROVE Inv'
<1> DEFINE next == IF phase[r] = "fanout" /\ unstarted[r] = {} /\ working[r] = {n}
                   THEN "loop" ELSE phase[r]
<1>1. /\ n \in working[r] /\ working' = [working EXCEPT ![r] = @ \ {n}]
      /\ phase' = [phase EXCEPT ![r] = next] /\ unstarted' = unstarted
      /\ Publish(r, <<"progress">>)
  BY DEF NodeFinishes
<1>2. OthersAsTheyAre(r) /\ phase'[r] = next /\ working'[r] = working[r] \ {n}
  BY <1>1 DEF Inv, TypeOK, OthersAsTheyAre
<1>3. phase[r] \in {"fanout", "over"}
  BY <1>1 DEF Inv, TypeOK, PhasesOK
<1>4. CASE phase[r] = "fanout"
  BY <1>1, <1>2, <1>4, GoesOn
<1>5. CASE phase[r] = "over"
  <2>1. working[r] # {} /\ working'[r] = {}
    BY <1>1, <1>2, <1>5 DEF Inv, PhasesOK
  <2> QED BY <1>1, <1>2, <1>5, <2>1, GoesOnAlone
<1> QED BY <1>3, <1>4, <1>5

LEMMA NodeWorksInv == ASSUME Inv, NEW r \in Runs, NodeWorks(r) PROVE Inv'
<1>1. /\ phase[r] = "loop" /\ phase' = phase /\ working' = working /\ unstarted' = unstarted
      /\ Publish(r, <<"progress">>)
  BY DEF NodeWorks, runs
<1>2. OthersAsTheyAre(r) /\ working[r] = {}
  BY <1>1 DEF Inv, TypeOK, PhasesOK, OthersAsTheyAre
<1> QED BY <1>1, <1>2, GoesOn

LEMMA FinishInv == ASSUME Inv, NEW r \in Runs, Finish(r) PROVE Inv'
<1>1. /\ phase[r] = "loop" /\ phase' = [phase EXCEPT ![r] = "over"]
      /\ working' = working /\ unstarted' = unstarted
  BY DEF Finish
<1>2. OthersAsTheyAre(r) /\ working[r] = {} /\ phase'[r] = "over"
  BY <1>1 DEF Inv, TypeOK, PhasesOK, OthersAsTheyAre
<1>3. \E n \in FanOut : working'[r] \subseteq {n}
  BY <1>1, <1>2 DEF FanOut
<1>4. CASE Publish(r, Report(<<"run_finished">>))
  BY <1>2, <1>3, <1>4, EndsNow
<1>5. CASE Publish(r, Report(<<"progress", "run_finished">>))
  BY <1>2, <1>3, <1>5, EndsNow
<1> QED BY <1>4, <1>5 DEF Finish

LEMMA FailInv == ASSUME Inv, NEW r \in Runs, Fail(r) PROVE Inv'
<1>1. /\ phase' = [phase EXCEPT ![r] = "over"] /\ unstarted' = unstarted
      /\ Publish(r, Report(<<"error">>))
  BY DEF Fail
<1>2. /\ OthersAsTheyAre(r) /\ phase'[r] = "over"
      /\ \E n \in FanOut : working'[r] \subseteq {n}
  <2>1. CASE phase[r] = "loop" /\ working' = working
    BY <1>1, <2>1 DEF Inv, TypeOK, PhasesOK, OthersAsTheyAre, FanOut
  <2>2. CASE \E n \in working[r] : working' = [working EXCEPT ![r] = @ \ {n}]
    <3>1. PICK n \in working[r] : working' = [working EXCEPT ![r] = @ \ {n}]
      BY <2>2
    <3>2. OthersAsTheyAre(r) /\ phase'[r] = "over"
      BY <1>1, <3>1 DEF Inv, TypeOK, OthersAsTheyAre
    <3>3. working'[r] = working[r] \ {n} /\ working[r] \subseteq FanOut /\ n \in FanOut
      BY <3>1 DEF Inv, TypeOK
    <3>4. \E m \in FanOut : working'[r] \subseteq {m}
      BY <3>3 DEF FanOut
    <3> QED BY <3>2, <3>4
  <2> QED BY <2>1, <2>2 DEF Fail
<1> QED BY <1>1, <1>2, EndsNow

-----------------------------------------------------------------------------
(* The steps of a stream                                                   *)

\* The two newest events are never trimmed when there is room for them.
LEMMA EndIsKept ==
  ASSUME Inv, MaxHistory > 1, NEW r \in finished
  PROVE  Ends(history[r])
<1> DEFINE s == log[r]
           k == Len(s)
           d == Dropped(s)
<1>1. s \in Seq(Event) /\ history[r] = Trim(s)
  BY DEF Inv, TypeOK, HistoryKept
<1>2. \/ k >= 1 /\ s[k].kind \in EndKinds
      \/ k >= 2 /\ s[k - 1].kind \in EndKinds
  BY DEF Inv, EndsLast
<1> HIDE DEF s
<1>3. k \in Nat /\ d \in Nat /\ d = Excess(k) /\ MaxHistory \in Nat \ {0}
  BY <1>1, Trimmed, LenProperties, EventsAssumption DEF Dropped
<1>4. Len(Trim(s)) = k - d /\ \A i \in 1 .. Len(Trim(s)) : Trim(s)[i] = s[d + i]
  BY <1>1, Trimmed
<1>5. DOMAIN Trim(s) = 1 .. Len(Trim(s))
  BY <1>1, Trimmed, LenProperties
<1> HIDE DEF k, d
<1>6. (k >= 1 => k - d >= 1) /\ (k >= 2 => k - d >= 2)
  BY <1>3 DEF Excess
<1>7. PICK j \in {k, k - 1} : j - d \in 1 .. k - d /\ s[j].kind \in EndKinds
  <2>1. CASE k >= 1 /\ s[k].kind \in EndKinds
    <3>1. k - d \in 1 .. k - d
      BY <1>3, <1>6, <2>1
    <3> QED BY <2>1, <3>1
  <2>2. CASE k >= 2 /\ s[k - 1].kind \in EndKinds
    <3>1. (k - 1) - d \in 1 .. k - d
      BY <1>3, <1>6, <2>2
    <3> QED BY <2>2, <3>1
  <2> QED BY <1>2, <2>1, <2>2
<1>8. d + (j - d) = j
  BY <1>3
<1>9. Trim(s)[j - d].kind \in EndKinds /\ j - d \in DOMAIN Trim(s)
  BY <1>4, <1>5, <1>7, <1>8
<1> QED BY <1>1, <1>9 DEF Ends

\* A step that publishes nothing.
LEMMA NothingPublished ==
  ASSUME Inv, UNCHANGED <<history, finished, runs, log>>
  PROVE  PhasesOK' /\ HistoryKept' /\ EndsLast'
<1>1. history' = history /\ finished' = finished /\ log' = log /\ phase' = phase /\ working' = working
  BY DEF runs
<1> QED BY <1>1 DEF Inv, PhasesOK, HistoryKept, EndsLast, Ends, Trim

\* One stream becomes another and the subscribers of a run change with it.
LEMMA StreamStep ==
  ASSUME Inv, UNCHANGED <<history, finished, runs, log>>,
         NEW s \in Streams, NEW st \in Stream, streams' = [streams EXCEPT ![s] = st],
         st.state = "new" => st.wrote = <<>>,
         st.state = "open" => \E r \in Runs : st.run = {r},
         MaxHistory > 1 => (st.state = "ended" => Ends(st.wrote)),
         \/ streams[s].state # "open" /\ st.state # "open" /\ subscribers' = subscribers
         \/ \E r \in Runs : \/ /\ streams[s].state # "open" /\ st.state = "open" /\ st.run = {r}
                               /\ subscribers' = Subscribe(r, SubscribersOf(r) \cup {s})
                            \/ /\ streams[s].state = "open" /\ st.state # "open"
                               /\ streams[s].run = {r}
                               /\ subscribers' = Subscribe(r, SubscribersOf(r) \ {s})
  PROVE  Inv'
<1>1. PhasesOK' /\ HistoryKept' /\ EndsLast'
  BY NothingPublished
<1>2. streams' \in [Streams -> Stream] /\ streams'[s] = st
      /\ \A q \in Streams \ {s} : streams'[q] = streams[q]
  BY DEF Inv, TypeOK
<1>3. StreamsOK'
  BY <1>2 DEF Inv, StreamsOK
<1>4. (MaxHistory > 1 => EndIsSeen)'
  BY <1>2 DEF Inv, EndIsSeen, Ends
<1>5. /\ DOMAIN subscribers' \subseteq Runs
      /\ \A r \in DOMAIN subscribers' : subscribers'[r] \subseteq Streams
  <2>1. /\ DOMAIN subscribers \subseteq Runs
        /\ \A r \in DOMAIN subscribers : subscribers[r] \subseteq Streams
    BY DEF Inv, TypeOK
  <2>2. CASE subscribers' = subscribers
    BY <2>1, <2>2
  <2>3. CASE \E r \in Runs, set \in SUBSET Streams : subscribers' = Subscribe(r, set)
    BY <2>1, <2>3, SubscribeType
  <2>4. \A r \in Runs : SubscribersOf(r) \subseteq Streams
    BY <2>1 DEF SubscribersOf
  <2>5. \A r \in Runs : SubscribersOf(r) \cup {s} \in SUBSET Streams
                        /\ SubscribersOf(r) \ {s} \in SUBSET Streams
    BY <2>4
  <2> QED BY <2>2, <2>3, <2>5
<1>6. TypeOK'
  <2>1. history' = history /\ finished' = finished /\ log' = log
        /\ phase' = phase /\ working' = working /\ unstarted' = unstarted
    BY DEF runs
  <2> QED BY <1>2, <1>5, <2>1 DEF Inv, TypeOK
<1>7. HoldsOpenStreams'
  <2>1. /\ \A r \in DOMAIN subscribers : subscribers[r] # {}
        /\ \A q \in Streams, r \in Runs :
             q \in SubscribersOf(r) <=> streams[q].state = "open" /\ streams[q].run = {r}
    BY DEF Inv, HoldsOpenStreams
  <2>2. CASE streams[s].state # "open" /\ st.state # "open" /\ subscribers' = subscribers
    <3>1. \A r \in Runs : SubscribersOf(r)' = SubscribersOf(r)
      BY <2>2 DEF SubscribersOf
    <3>2. \A q \in Streams, r \in Runs :
             q \in SubscribersOf(r)' <=> streams'[q].state = "open" /\ streams'[q].run = {r}
      BY <1>2, <2>1, <2>2, <3>1
    <3> QED BY <2>1, <2>2, <3>2 DEF HoldsOpenStreams
  <2>3. ASSUME NEW r \in Runs, NEW set, subscribers' = Subscribe(r, set),
               \A q \in Streams : q \in set <=> streams'[q].state = "open" /\ streams'[q].run = {r},
               \A p \in Runs \ {r} : streams[s].state = "open" => streams[s].run # {p},
               \A p \in Runs \ {r} : st.state = "open" => st.run # {p}
        PROVE  HoldsOpenStreams'
    <3>1. /\ SubscribersOf(r)' = set
          /\ \A q \in Runs : q # r => SubscribersOf(q)' = SubscribersOf(q)
          /\ \A q \in DOMAIN subscribers' : subscribers'[q] # {}
      BY <2>1, <2>3, SubscribeValue
    <3>2. ASSUME NEW q \in Streams, NEW p \in Runs
          PROVE  q \in SubscribersOf(p)' <=> streams'[q].state = "open" /\ streams'[q].run = {p}
      <4>1. CASE p = r
        BY <2>3, <3>1, <4>1
      <4>2. CASE p # r /\ q # s
        BY <1>2, <2>1, <3>1, <4>2
      <4>3. CASE p # r /\ q = s
        BY <1>2, <2>1, <2>3, <3>1, <4>3
      <4> QED BY <4>1, <4>2, <4>3
    <3> QED BY <3>1, <3>2 DEF HoldsOpenStreams
  <2>4. ASSUME NEW r \in Runs, streams[s].state # "open", st.state = "open", st.run = {r},
               subscribers' = Subscribe(r, SubscribersOf(r) \cup {s})
        PROVE  HoldsOpenStreams'
    <3>1. \A q \in Streams : q \in SubscribersOf(r) \cup {s}
                             <=> streams'[q].state = "open" /\ streams'[q].run = {r}
      BY <1>2, <2>1, <2>4
    <3>2. \A p \in Runs \ {r} : st.run # {p}
      BY <2>4
    <3> QED BY <2>3, <2>4, <3>1, <3>2
  <2>5. ASSUME NEW r \in Runs, streams[s].state = "open", st.state # "open", streams[s].run = {r},
               subscribers' = Subscribe(r, SubscribersOf(r) \ {s})
        PROVE  HoldsOpenStreams'
    <3>1. \A q \in Streams : q \in SubscribersOf(r) \ {s}
                             <=> streams'[q].state = "open" /\ streams'[q].run = {r}
      BY <1>2, <2>1, <2>5
    <3>2. \A p \in Runs \ {r} : streams[s].run # {p}
      BY <2>5
    <3> QED BY <2>3, <2>5, <3>1, <3>2
  <2> QED BY <2>2, <2>4, <2>5
<1> QED BY <1>1, <1>3, <1>4, <1>6, <1>7 DEF Inv

LEMMA OpenInv ==
  ASSUME Inv, NEW s \in Streams, NEW r \in Runs, NEW i \in Installs, Open(s, r, i)
  PROVE  Inv'
<1>1. /\ streams[s].state = "new" /\ UNCHANGED <<history, finished, runs, log>>
  BY DEF Open
<1>2. history[r] \in Seq(Event) /\ <<>> \in Seq(Event)
  BY DEF Inv, TypeOK
<1>3. CASE \E state \in {"404", "403"} :
             /\ streams' = [streams EXCEPT ![s] = [run |-> {r}, wrote |-> <<>>, state |-> state]]
             /\ subscribers' = subscribers
  <2>1. PICK st \in Stream : /\ streams' = [streams EXCEPT ![s] = st]
                             /\ st.state \in {"404", "403"} /\ subscribers' = subscribers
    BY <1>2, <1>3 DEF Stream
  <2> QED BY <1>1, <2>1, StreamStep
<1>4. CASE /\ streams' = [streams EXCEPT ![s] = [run |-> {r}, wrote |-> history[r], state |-> "ended"]]
           /\ r \in finished /\ subscribers' = subscribers
  <2> DEFINE st == [run |-> {r}, wrote |-> history[r], state |-> "ended"]
  <2>1. st \in Stream /\ st.state = "ended" /\ st.wrote = history[r]
    BY <1>2 DEF Stream
  <2>2. MaxHistory > 1 => Ends(st.wrote)
    BY <1>4, <2>1, EndIsKept
  <2>3. streams' = [streams EXCEPT ![s] = st]
    BY <1>4
  <2> HIDE DEF st
  <2> QED BY <1>1, <1>4, <2>1, <2>2, <2>3, StreamStep
<1>5. CASE /\ streams' = [streams EXCEPT ![s] = [run |-> {r}, wrote |-> history[r], state |-> "open"]]
           /\ subscribers' = Subscribe(r, WithSubscriber(s, r))
  <2> DEFINE st == [run |-> {r}, wrote |-> history[r], state |-> "open"]
  <2>1. st \in Stream /\ st.state = "open" /\ st.run = {r}
    BY <1>2 DEF Stream
  <2>2. streams' = [streams EXCEPT ![s] = st]
    BY <1>5
  <2> HIDE DEF st
  <2>3. subscribers' = Subscribe(r, SubscribersOf(r) \cup {s})
    BY <1>5 DEF WithSubscriber
  <2> QED BY <1>1, <2>1, <2>2, <2>3, StreamStep
<1> QED BY <1>3, <1>4, <1>5 DEF Open

LEMMA CloseInv == ASSUME Inv, NEW s \in Streams, Close(s) PROVE Inv'
<1> DEFINE st == [streams[s] EXCEPT !.state = "left"]
<1>1. /\ streams[s].state = "open" /\ UNCHANGED <<history, finished, runs, log>>
      /\ streams' = [streams EXCEPT ![s] = st]
  BY DEF Close
<1>2. streams[s] \in Stream
  BY DEF Inv, TypeOK
<1>3. st \in Stream /\ st.state = "left"
  BY <1>2 DEF Stream
<1>4. PICK r \in Runs : streams[s].run = {r}
  BY <1>1 DEF Inv, StreamsOK
<1>5. subscribers' = Subscribe(r, SubscribersOf(r) \ {s})
  BY <1>4 DEF Close, WithoutSubscriber
<1> HIDE DEF st
<1> QED BY <1>1, <1>3, <1>4, <1>5, StreamStep

-----------------------------------------------------------------------------
(* The theorems                                                            *)

LEMMA InitInv == Init => Inv
<1> SUFFICES ASSUME Init PROVE Inv
  OBVIOUS
<1>1. <<>> \in Seq(Event) /\ Len(<<>>) = 0 /\ MaxHistory \in Nat \ {0}
  BY EventsAssumption
<1>2. Trim(<<>>) = <<>>
  BY <1>1 DEF Trim
<1>3. ~Ends(<<>>)
  BY DEF Ends
<1>4. subscribers = <<>> /\ DOMAIN subscribers = {}
  BY DEF Init
<1>5. TypeOK
  BY <1>1, <1>4 DEF Init, TypeOK, Stream
<1>6. HoldsOpenStreams
  BY <1>4 DEF Init, HoldsOpenStreams, SubscribersOf
<1>7. PhasesOK /\ HistoryKept /\ StreamsOK /\ EndsLast /\ EndIsSeen
  BY <1>2, <1>3 DEF Init, PhasesOK, HistoryKept, StreamsOK, EndsLast, EndIsSeen
<1> QED BY <1>5, <1>6, <1>7 DEF Inv

LEMMA StepInv == Inv /\ [Next]_vars => Inv'
<1> SUFFICES ASSUME Inv, [Next]_vars PROVE Inv'
  OBVIOUS
<1>1. ASSUME NEW r \in Runs, Start(r) PROVE Inv'
  BY <1>1, StartInv
<1>2. ASSUME NEW r \in Runs, RunStep(r) PROVE Inv'
  BY <1>2, NodeStartsInv, NodeFinishesInv, NodeWorksInv, FinishInv, FailInv DEF RunStep
<1>3. ASSUME NEW s \in Streams, Close(s) PROVE Inv'
  BY <1>3, CloseInv
<1>4. ASSUME NEW s \in Streams, NEW r \in Runs, NEW i \in Installs, Open(s, r, i) PROVE Inv'
  BY <1>4, OpenInv
<1>5. CASE UNCHANGED vars
  <2>1. PhasesOK' /\ HistoryKept' /\ EndsLast'
    BY <1>5, NothingPublished DEF vars, runs
  <2>2. TypeOK' /\ HoldsOpenStreams' /\ StreamsOK' /\ (MaxHistory > 1 => EndIsSeen)'
    BY <1>5 DEF vars, Inv, TypeOK, HoldsOpenStreams, SubscribersOf, StreamsOK, EndIsSeen, Ends
  <2> QED BY <2>1, <2>2 DEF Inv
<1> QED BY <1>1, <1>2, <1>3, <1>4, <1>5 DEF Next

LEMMA InvHolds == Spec => []Inv
BY InitInv, StepInv, PTL DEF Spec

\* The variables of the bus, the runs and the streams have their types, whatever
\* the length of the history (events.ts:23-32, run.ts, orchestrateRoutes.ts).
THEOREM TypeCorrect == Spec => []TypeOK
BY InvHolds, PTL DEF Inv

\* The bus holds on to exactly the open streams, for every number of runs and
\* streams (orchestrateRoutes.ts:131-137, events.ts:72-80).
THEOREM StreamsHeld == Spec => []HoldsOpenStreams
BY InvHolds, PTL DEF Inv

\* A stream that the server ends was told how its run ended, with every history
\* that has room for two events: the second is the parallel node's that is left
\* when the other one has failed (events.ts:63-75, run.ts:56-71).
THEOREM EndSeen == MaxHistory > 1 => (Spec => []EndIsSeen)
<1> SUFFICES ASSUME MaxHistory > 1 PROVE Spec => []EndIsSeen
  OBVIOUS
<1>1. Inv => EndIsSeen
  BY DEF Inv
<1> QED BY <1>1, InvHolds, PTL

-----------------------------------------------------------------------------
(* RunEvents implements EventLog                                           *)

\* What EventLog calls read and follows.
Read == [s \in Streams |-> streams[s].wrote]
Follows == [s \in Streams |-> IF streams[s].state = "open" THEN streams[s].run ELSE {}]

LEMMA PublishReads ==
  ASSUME Inv, NEW r \in Runs, NEW kinds \in Seq(Kinds), Len(kinds) \in Nat \ {0}, Publish(r, kinds)
  PROVE  Log!Publish(r)
<1> DEFINE new == NewEvents(r, kinds)
<1>1. TypeOK /\ HoldsOpenStreams /\ StreamsOK /\ HistoryKept /\ log \in [Runs -> Seq(Event)]
  BY DEF Inv, TypeOK
<1>2. new \in Seq(Event) /\ Len(new) = Len(kinds)
  BY <1>1, NewEventsType
<1>3. log'[r] = log[r] \o new /\ log' = [log EXCEPT ![r] = log[r] \o new]
  BY <1>1, PublishLogs DEF Publish
<1>4. \A s \in Streams :
        /\ s \notin SubscribersOf(r) => streams'[s] = streams[s]
        /\ s \in SubscribersOf(r) =>
             /\ streams'[s].run = streams[s].run
             /\ streams'[s].wrote = streams[s].wrote \o new
             /\ streams'[s].state = IF Ends(new) THEN "ended" ELSE streams[s].state
  BY <1>1, Heard
<1> HIDE DEF new
<1>5. Log!News(r) = new /\ Len(log'[r]) > Len(log[r])
  <2>1. log[r] \in Seq(Event)
    BY <1>1
  <2>2. SubSeq(log[r] \o new, Len(log[r]) + 1, Len(log[r] \o new)) = new
    BY <1>2, <2>1, NewsOfConcat
  <2>3. Len(log[r] \o new) = Len(log[r]) + Len(new) /\ Len(log[r]) \in Nat
    BY <1>2, <2>1, Concat
  <2>4. Log!News(r) = new
    BY <1>3, <2>2 DEF Log!News
  <2>5. Len(log[r] \o new) > Len(log[r])
    BY <1>2, <2>3
  <2> QED BY <1>3, <2>4, <2>5
<1>6. \A s \in Streams : r \in Follows[s] <=> s \in SubscribersOf(r)
  <2> SUFFICES ASSUME NEW s \in Streams
               PROVE  r \in (IF streams[s].state = "open" THEN streams[s].run ELSE {})
                      <=> s \in SubscribersOf(r)
    BY DEF Follows
  <2>1. s \in SubscribersOf(r) <=> streams[s].state = "open" /\ streams[s].run = {r}
    BY <1>1 DEF HoldsOpenStreams
  <2>2. CASE streams[s].state = "open"
    <3>1. PICK q \in Runs : streams[s].run = {q}
      BY <1>1, <2>2 DEF StreamsOK
    <3> QED BY <2>1, <2>2, <3>1
  <2>3. CASE streams[s].state # "open"
    BY <2>1, <2>3
  <2> QED BY <2>2, <2>3
<1>7. Read' = [s \in Streams |-> IF r \in Follows[s] THEN Read[s] \o new ELSE Read[s]]
  <2>1. \A s \in Streams : streams'[s].wrote = IF r \in Follows[s] THEN Read[s] \o new ELSE Read[s]
    BY <1>4, <1>6 DEF Read
  <2> QED BY <2>1 DEF Read
<1>8. Follows' = [s \in Streams |-> IF Ends(new) THEN Follows[s] \ {r} ELSE Follows[s]]
  <2>1. ASSUME NEW s \in Streams
        PROVE  (IF streams'[s].state = "open" THEN streams'[s].run ELSE {})
                 = IF Ends(new) THEN Follows[s] \ {r} ELSE Follows[s]
    <3>1. s \in SubscribersOf(r) <=> streams[s].state = "open" /\ streams[s].run = {r}
      BY <1>1 DEF HoldsOpenStreams
    <3>2. Follows[s] = IF streams[s].state = "open" THEN streams[s].run ELSE {}
      BY DEF Follows
    <3>3. CASE s \in SubscribersOf(r)
      BY <1>4, <3>1, <3>2, <3>3
    <3>4. CASE s \notin SubscribersOf(r)
      BY <1>4, <1>6, <3>2, <3>4
    <3> QED BY <3>3, <3>4
  <2> QED BY <2>1 DEF Follows
<1>9. Log!HasEnd(new) <=> Ends(new)
  BY DEF Log!HasEnd, Ends
<1> QED BY <1>3, <1>5, <1>7, <1>8, <1>9 DEF Log!Publish, Read, Follows

LEMMA ProgressKind == <<"progress">> \in Seq(Kinds) /\ Len(<<"progress">>) \in Nat \ {0}
BY DEF Kinds

LEMMA StartReads ==
  ASSUME Inv, NEW r \in Runs, Start(r) \/ RunStep(r)
  PROVE  Log!Publish(r)
<1>1. ASSUME Publish(r, <<"progress">>) PROVE Log!Publish(r)
  BY <1>1, ProgressKind, PublishReads
<1>2. ASSUME NEW kinds \in {Report(<<"run_finished">>), Report(<<"progress", "run_finished">>),
                            Report(<<"error">>)},
             Publish(r, kinds)
      PROVE  Log!Publish(r)
  BY <1>2, Reports, PublishReads
<1> QED BY <1>1, <1>2 DEF Start, RunStep, NodeStarts, NodeFinishes, NodeWorks, Finish, Fail

\* A stream that is given st.
LEMMA ReadAndFollows ==
  ASSUME Inv, NEW s \in Streams, NEW st \in Stream, streams' = [streams EXCEPT ![s] = st]
  PROVE  /\ Read' = [Read EXCEPT ![s] = st.wrote]
         /\ Follows' = [Follows EXCEPT ![s] = IF st.state = "open" THEN st.run ELSE {}]
<1>1. streams'[s] = st /\ \A q \in Streams \ {s} : streams'[q] = streams[q]
  BY DEF Inv, TypeOK
<1> DEFINE run == IF st.state = "open" THEN st.run ELSE {}
<1>2. \A q \in Streams : streams'[q].wrote = [Read EXCEPT ![s] = st.wrote][q]
  BY <1>1 DEF Read
<1>3. \A q \in Streams :
        (IF streams'[q].state = "open" THEN streams'[q].run ELSE {}) = [Follows EXCEPT ![s] = run][q]
  <2> TAKE q \in Streams
  <2>1. CASE q = s
    <3>1. (IF streams'[q].state = "open" THEN streams'[q].run ELSE {}) = run
      BY <1>1, <2>1
    <3> HIDE DEF run
    <3> QED BY <2>1, <3>1 DEF Follows
  <2>2. CASE q # s
    <3> HIDE DEF run
    <3> QED BY <1>1, <2>2 DEF Follows
  <2> QED BY <2>1, <2>2
<1>4. Read' = [q \in Streams |-> [Read EXCEPT ![s] = st.wrote][q]]
      /\ Follows' = [q \in Streams |-> [Follows EXCEPT ![s] = run][q]]
  BY <1>2, <1>3 DEF Read, Follows
<1> HIDE DEF run
<1>5. DOMAIN [Read EXCEPT ![s] = st.wrote] = Streams /\ DOMAIN [Follows EXCEPT ![s] = run] = Streams
  BY DEF Read, Follows
<1>6. Read' = [Read EXCEPT ![s] = st.wrote] /\ Follows' = [Follows EXCEPT ![s] = run]
  BY <1>4, <1>5 DEF Read, Follows
<1> QED BY <1>6 DEF run

LEMMA OpenReads ==
  ASSUME Inv, NEW s \in Streams, NEW r \in Runs, NEW i \in Installs, Open(s, r, i)
  PROVE  Log!Join(s, r) \/ UNCHANGED Log!vars
<1>1. /\ streams[s].state = "new" /\ UNCHANGED log
      /\ Read[s] = <<>> /\ Follows[s] = {}
  BY DEF Open, Inv, StreamsOK, Read, Follows
<1>2. history[r] \in Seq(Event) /\ log[r] \in Seq(Event) /\ <<>> \in Seq(Event)
  BY DEF Inv, TypeOK
<1>3. CASE \E state \in {"404", "403"} :
             streams' = [streams EXCEPT ![s] = [run |-> {r}, wrote |-> <<>>, state |-> state]]
  <2>1. PICK st \in Stream : /\ streams' = [streams EXCEPT ![s] = st]
                             /\ st.state \in {"404", "403"} /\ st.wrote = <<>>
    <3>1. PICK state \in {"404", "403"} :
             streams' = [streams EXCEPT ![s] = [run |-> {r}, wrote |-> <<>>, state |-> state]]
      BY <1>3
    <3> DEFINE st == [run |-> {r}, wrote |-> <<>>, state |-> state]
    <3>2. st \in Stream /\ st.state = state /\ st.wrote = <<>>
      BY <1>2 DEF Stream
    <3> QED BY <3>1, <3>2
  <2>2. Read' = [Read EXCEPT ![s] = <<>>] /\ Follows' = [Follows EXCEPT ![s] = {}]
    BY <2>1, ReadAndFollows
  <2>3. Read' = Read /\ Follows' = Follows
    BY <1>1, <2>2 DEF Read, Follows
  <2> QED BY <1>1, <2>3 DEF Log!vars, Read, Follows
<1>4. CASE /\ history[r] # <<>>
           /\ \/ /\ r \in finished
                 /\ streams' = [streams EXCEPT ![s] = [run |-> {r}, wrote |-> history[r], state |-> "ended"]]
              \/ /\ r \notin finished
                 /\ streams' = [streams EXCEPT ![s] = [run |-> {r}, wrote |-> history[r], state |-> "open"]]
  <2>1. PICK st \in Stream :
          /\ streams' = [streams EXCEPT ![s] = st]
          /\ st.wrote = history[r] /\ st.run = {r}
          /\ st.state = IF r \in finished THEN "ended" ELSE "open"
    <3> DEFINE state == IF r \in finished THEN "ended" ELSE "open"
               st == [run |-> {r}, wrote |-> history[r], state |-> state]
    <3>1. streams' = [streams EXCEPT ![s] = st]
      BY <1>4
    <3>2. st \in Stream /\ st.wrote = history[r] /\ st.run = {r} /\ st.state = state
      BY <1>2 DEF Stream
    <3> HIDE DEF st
    <3> QED BY <3>1, <3>2
  <2>2. /\ Read' = [Read EXCEPT ![s] = history[r]]
        /\ Follows' = [Follows EXCEPT ![s] = IF r \in finished THEN {} ELSE {r}]
    BY ZenonT(30), <2>1, ReadAndFollows
  <2>3. history[r] = Log!Newest(log[r], MaxHistory)
    BY DEF Inv, HistoryKept, Trim, Log!Newest
  <2>4. log[r] # <<>>
    <3>1. SUFFICES ASSUME log[r] = <<>> PROVE history[r] = <<>>
      BY <1>4
    <3>2. history[r] = Trim(<<>>) /\ Len(<<>>) = 0 /\ MaxHistory \in Nat \ {0}
      BY <3>1, EventsAssumption DEF Inv, HistoryKept
    <3> QED BY <3>2 DEF Trim
  <2>5. r \in finished <=> Log!HasEnd(log[r])
    BY DEF Inv, PhasesOK, Ends, Log!HasEnd
  <2> QED BY <1>1, <2>2, <2>3, <2>4, <2>5 DEF Log!Join, Read, Follows
<1> QED BY <1>3, <1>4 DEF Open

LEMMA CloseReads == ASSUME Inv, NEW s \in Streams, Close(s) PROVE Log!Leave(s)
<1> DEFINE st == [streams[s] EXCEPT !.state = "left"]
<1>1. streams' = [streams EXCEPT ![s] = st] /\ UNCHANGED log
  BY DEF Close
<1>2. streams[s] \in Stream
  BY DEF Inv, TypeOK
<1>3. st \in Stream /\ st.state = "left" /\ st.wrote = streams[s].wrote
  BY <1>2 DEF Stream
<1> HIDE DEF st
<1>4. Read' = [Read EXCEPT ![s] = streams[s].wrote] /\ Follows' = [Follows EXCEPT ![s] = {}]
  <2>1. /\ Read' = [Read EXCEPT ![s] = st.wrote]
        /\ Follows' = [Follows EXCEPT ![s] = IF st.state = "open" THEN st.run ELSE {}]
    BY <1>1, <1>3, ReadAndFollows
  <2> QED BY <1>3, <2>1
<1>5. Read' = Read
  BY <1>4 DEF Read
<1> QED BY <1>1, <1>4, <1>5 DEF Log!Leave, Read, Follows

\* The bus and the streams implement the log of each run and its readers: a stream is
\* given the newest events once, and every later one once and in order, until the
\* end (events.ts:63-105, orchestrateRoutes.ts:101-138).
THEOREM Implements == Spec => ReadsTheLog
<1>1. Init => Log!Init
  <2> SUFFICES ASSUME Init PROVE Log!Init
    OBVIOUS
  <2>1. /\ log = [r \in Runs |-> <<>>]
        /\ [s \in Streams |-> streams[s].wrote] = [s \in Streams |-> <<>>]
        /\ [s \in Streams |-> IF streams[s].state = "open" THEN streams[s].run ELSE {}]
             = [s \in Streams |-> {}]
    BY DEF Init
  <2> QED BY <2>1 DEF Log!Init
<1>2. Inv /\ [Next]_vars => [Log!Next]_(Log!vars)
  <2> SUFFICES ASSUME Inv, [Next]_vars PROVE Log!Next \/ UNCHANGED Log!vars
    OBVIOUS
  <2>1. ASSUME NEW r \in Runs, Start(r) \/ RunStep(r) PROVE Log!Next
    BY <2>1, StartReads DEF Log!Next
  <2>2. ASSUME NEW s \in Streams, Close(s) PROVE Log!Next
    BY <2>2, CloseReads DEF Log!Next
  <2>3. ASSUME NEW s \in Streams, NEW r \in Runs, NEW i \in Installs, Open(s, r, i)
        PROVE  Log!Next \/ UNCHANGED Log!vars
    BY <2>3, OpenReads DEF Log!Next
  <2>4. CASE UNCHANGED vars
    BY <2>4 DEF vars, Log!vars
  <2> QED BY <2>1, <2>2, <2>3, <2>4 DEF Next
<1> QED BY <1>1, <1>2, InvHolds, PTL DEF Spec, ReadsTheLog, Log!Spec

=============================================================================
