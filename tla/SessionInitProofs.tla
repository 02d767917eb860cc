------------------------- MODULE SessionInitProofs -------------------------
(***************************************************************************)
(* Proofs about SessionInit, for every number of fetches, browsers and     *)
(* addresses and every value of the limits.                                *)
(***************************************************************************)
EXTENDS SessionInit, FiniteSetTheorems, TLAPS

\* The backend holds, for the install of f, the key f signs with.
Known(f) == fetch[f].id \in DOMAIN keys /\ keys[fetch[f].id] = fetch[f].key

\* What a fetch holds at each of its places; one that registered since the
\* backend started is known.
FetchesOK ==
  \A f \in Fetches :
    /\ ~At(f, "new") => fetch[f].id \in Fetches
    /\ fetch[f].pc \notin {"new", "saveId", "key"} => fetch[f].key \in Fetches
    /\ fetch[f].registered <= life
    /\ fetch[f].pc \in {"sign", "sent"} /\ fetch[f].registered = life => Known(f)

\* Requests are handled after they were sent, and before now.
AuditOK ==
  \A i \in DOMAIN audit :
    At(audit[i].request, "sent") /\ audit[i].at <= now /\ audit[i].life <= life

\* A nonce is remembered for NonceTtl.
Remembered ==
  \A i \in DOMAIN audit :
    UsedNonce(audit[i].answer) /\ audit[i].life = life /\ now < audit[i].at + NonceTtl =>
      /\ audit[i].request \in DOMAIN nonces
      /\ nonces[audit[i].request] >= audit[i].at + NonceTtl

\* The key a session was minted for stays registered.
KeysKept ==
  \A i \in DOMAIN audit : Minted(i) /\ audit[i].life = life => Known(audit[i].request)

IInv ==
  /\ TypeOK /\ FetchesOK /\ AuditOK /\ Remembered /\ KeysKept
  /\ MintedApart /\ MintedFresh /\ OneKeyPerInstall /\ RegisteredIsKnown

-----------------------------------------------------------------------------
(* Lemmas about the maps                                                   *)

LEMMA PutType ==
  ASSUME NEW S, NEW T, NEW map, MapOf(map, S, T), NEW k \in S, NEW v \in T
  PROVE  MapOf(Put(map, k, v), S, T)
BY DEF MapOf, Put

\* Putting a key makes it a key, and changes no other one.
LEMMA PutValue ==
  ASSUME NEW map, NEW k, NEW v
  PROVE  /\ k \in DOMAIN Put(map, k, v) /\ Put(map, k, v)[k] = v
         /\ \A j \in DOMAIN map : j \in DOMAIN Put(map, k, v)
                                  /\ (j # k => Put(map, k, v)[j] = map[j])
BY DEF Put

\* A hit that is let through is counted within the limit.
LEMMA HitType ==
  ASSUME NEW S, NEW max \in Nat \ {0}, NEW map, MapOf(map, S, Rate(max)), NEW k \in S,
         now \in Nat, Window \in Nat, Admits(map, k, max)
  PROVE  MapOf(Hit(map, k), S, Rate(max))
<1>1. CASE InWindow(map, k)
  <2>1. map[k] \in Rate(max) /\ map[k].count < max
    BY <1>1 DEF MapOf, InWindow, Admits
  <2>2. [map[k] EXCEPT !.count = @ + 1] \in Rate(max)
    BY <2>1 DEF Rate
  <2> QED BY <1>1, <2>2, PutType DEF Hit
<1>2. CASE ~InWindow(map, k)
  <2>1. [count |-> 1, resetAt |-> now + Window] \in Rate(max)
    BY DEF Rate
  <2> QED BY <1>2, <2>1, PutType DEF Hit
<1> QED BY <1>1, <1>2

-----------------------------------------------------------------------------
(* The audit                                                               *)

\* What an entry of the audit holds.
LEMMA EntryType ==
  ASSUME TypeOK, NEW i \in DOMAIN audit
  PROVE  /\ audit[i] \in Entry
         /\ audit[i].request \in Fetches /\ audit[i].at \in Nat /\ audit[i].life \in Nat
<1>1. audit \in Seq(Entry)
  BY DEF TypeOK
<1>2. audit[i] \in Entry
  BY <1>1
<1> QED BY <1>2 DEF Entry

\* What was sent is not signed again: a step that handles no request and
\* leaves the sent requests alone keeps all that is said of the audit alone.
LEMMA AuditFrame ==
  ASSUME TypeOK, AuditOK, UNCHANGED audit,
         \A f \in Fetches : At(f, "sent") => fetch'[f] = fetch[f],
         MintedApart, MintedFresh, OneKeyPerInstall, RegisteredIsKnown
  PROVE  MintedApart' /\ MintedFresh' /\ OneKeyPerInstall' /\ RegisteredIsKnown'
<1>1. \A i \in DOMAIN audit : /\ audit[i].request \in Fetches
                              /\ fetch'[audit[i].request] = fetch[audit[i].request]
  BY EntryType DEF AuditOK
<1>2. MintedApart'
  BY DEF MintedApart, Minted
<1>3. MintedFresh'
  BY <1>1 DEF MintedFresh, Minted, Distance
<1>4. OneKeyPerInstall'
  BY <1>1 DEF OneKeyPerInstall, Minted
<1>5. RegisteredIsKnown'
  BY <1>1 DEF RegisteredIsKnown
<1> QED BY <1>2, <1>3, <1>4, <1>5

\* A step of the same life of the backend that handles no request.
LEMMA HistoryFrame ==
  ASSUME TypeOK, AuditOK, Remembered, KeysKept,
         UNCHANGED <<audit, life, nonces>>, now' \in Nat, now' >= now,
         \A f \in Fetches : At(f, "sent") => fetch'[f] = fetch[f],
         \A id \in DOMAIN keys : id \in DOMAIN keys' /\ keys'[id] = keys[id]
  PROVE  AuditOK' /\ Remembered' /\ KeysKept'
<1>1. \A i \in DOMAIN audit : /\ audit[i].request \in Fetches /\ audit[i].at \in Nat
                              /\ fetch'[audit[i].request] = fetch[audit[i].request]
  BY EntryType DEF AuditOK
<1>2. AuditOK'
  BY <1>1 DEF AuditOK, At, TypeOK
<1>3. Remembered'
  <2> SUFFICES ASSUME NEW i \in DOMAIN audit, UsedNonce(audit[i].answer),
                      audit[i].life = life, now' < audit[i].at + NonceTtl
               PROVE  /\ audit[i].request \in DOMAIN nonces
                      /\ nonces[audit[i].request] >= audit[i].at + NonceTtl
    BY DEF Remembered
  <2>1. now < audit[i].at + NonceTtl
    BY <1>1, SessionAssumption DEF TypeOK
  <2> QED BY <2>1 DEF Remembered
<1>4. KeysKept'
  BY <1>1 DEF KeysKept, Minted, Known
<1> QED BY <1>2, <1>3, <1>4

-----------------------------------------------------------------------------
(* The steps                                                               *)

LEMMA InitHolds == Init => IInv
<1> SUFFICES ASSUME Init PROVE IInv OBVIOUS
<1> USE SessionAssumption DEF Init
<1>1. TypeOK
  BY DEF TypeOK, MapOf, Fetch, Places
<1>2. FetchesOK
  BY DEF FetchesOK, At
<1>3. DOMAIN audit = {}
  OBVIOUS
<1>4. AuditOK /\ Remembered /\ KeysKept
  BY <1>3 DEF AuditOK, Remembered, KeysKept
<1>5. MintedApart /\ MintedFresh /\ OneKeyPerInstall /\ RegisteredIsKnown
  BY <1>3 DEF MintedApart, MintedFresh, OneKeyPerInstall, RegisteredIsKnown
<1> QED BY <1>1, <1>2, <1>4, <1>5 DEF IInv

\* The client's steps before it registers: what it holds of its own.
LEMMA PrepareHolds ==
  ASSUME IInv, NEW f \in Fetches, ReadId(f) \/ SaveId(f) \/ ReadKey(f) \/ SaveKey(f)
  PROVE  IInv'
<1> USE DEF IInv
<1>1. /\ UNCHANGED <<now, life, config, keys, nonces, ipRate, installRate, audit>>
      /\ fetch[f].pc \in {"new", "saveId", "key", "saveKey"}
      /\ \A g \in Fetches : g # f => fetch'[g] = fetch[g]
  BY DEF ReadId, SaveId, ReadKey, SaveKey, backend, At, Goes, TypeOK
<1>2. BrowserOf[f] \in Browsers
  BY SessionAssumption
<1>3. /\ fetch' \in [Fetches -> Fetch]
      /\ fetch'[f].pc \in {"saveId", "key", "saveKey", "register"}
      /\ fetch'[f].id \in Fetches /\ (fetch'[f].pc = "register" => fetch'[f].key \in Fetches)
      /\ (fetch'[f].pc = "saveKey" => fetch'[f].key \in Fetches)
      /\ fetch'[f].registered = fetch[f].registered
  <2>1. fetch[f] \in Fetch
    BY DEF TypeOK
  <2>2. Browser(f) \in [id: Fetches \cup {Nothing}, key: Fetches \cup {Nothing}]
    BY <1>2 DEF TypeOK, Browser
  <2>3. CASE ReadId(f)
    BY <2>1, <2>2, <2>3 DEF ReadId, TypeOK, Fetch, Places
  <2>4. CASE SaveId(f)
    BY <2>1, <2>4 DEF SaveId, Goes, At, TypeOK, FetchesOK, Fetch, Places
  <2>5. CASE ReadKey(f)
    BY <2>1, <2>2, <2>5 DEF ReadKey, At, TypeOK, FetchesOK, Fetch, Places
  <2>6. CASE SaveKey(f)
    BY <2>1, <2>6 DEF SaveKey, Goes, At, TypeOK, FetchesOK, Fetch, Places
  <2> QED BY <2>3, <2>4, <2>5, <2>6
<1>4. storage' \in [Browsers -> [id: Fetches \cup {Nothing}, key: Fetches \cup {Nothing}]]
  BY <1>2 DEF ReadId, SaveId, ReadKey, SaveKey, Store, TypeOK
<1>5. TypeOK'
  BY <1>1, <1>3, <1>4 DEF TypeOK
<1>6. FetchesOK'
  BY <1>1, <1>3 DEF FetchesOK, At, Known
<1>7. \A g \in Fetches : At(g, "sent") => fetch'[g] = fetch[g]
  BY <1>1 DEF At
<1>8. AuditOK' /\ Remembered' /\ KeysKept'
  BY <1>1, <1>7, HistoryFrame DEF TypeOK
<1>9. MintedApart' /\ MintedFresh' /\ OneKeyPerInstall' /\ RegisteredIsKnown'
  BY <1>1, <1>7, AuditFrame
<1> QED BY <1>5, <1>6, <1>8, <1>9

\* Registration: a key is added where there was none.
LEMMA RegisterHolds ==
  ASSUME IInv, NEW f \in Fetches, Register(f)
  PROVE  IInv'
<1> USE DEF IInv
<1>1. /\ UNCHANGED <<now, life, config, nonces, ipRate, installRate, audit, storage>>
      /\ fetch[f].pc = "register" /\ fetch[f] \in Fetch
      /\ fetch[f].id \in Fetches /\ fetch[f].key \in Fetches
      /\ life \in Nat
  BY DEF Register, At, TypeOK, FetchesOK
<1>2. /\ fetch' \in [Fetches -> Fetch]
      /\ fetch'[f].pc \in {"sign", "failed", "refused"}
      /\ fetch'[f].id = fetch[f].id /\ fetch'[f].key = fetch[f].key
      /\ fetch'[f].registered \in {life, fetch[f].registered}
      /\ \A g \in Fetches : g # f => fetch'[g] = fetch[g]
      /\ fetch'[f].pc = "sign" => keys' = Put(keys, fetch[f].id, fetch[f].key)
  BY <1>1 DEF Register, Goes, AfterRefusal, TypeOK, Fetch, Places
<1>3. \/ UNCHANGED keys
      \/ fetch[f].id \notin DOMAIN keys /\ keys' = Put(keys, fetch[f].id, fetch[f].key)
  BY DEF Register, MayRegister
<1>4. MapOf(keys', Fetches, Fetches)
  BY <1>1, <1>3, PutType DEF TypeOK
<1>5. TypeOK'
  BY <1>1, <1>2, <1>4 DEF TypeOK
<1>6. \A id \in DOMAIN keys : id \in DOMAIN keys' /\ keys'[id] = keys[id]
  BY <1>3, PutValue
<1>7. FetchesOK'
  <2> SUFFICES ASSUME NEW g \in Fetches
               PROVE  /\ (~At(g, "new") => fetch[g].id \in Fetches)'
                      /\ (fetch[g].pc \notin {"new", "saveId", "key"} => fetch[g].key \in Fetches)'
                      /\ (fetch[g].registered <= life)'
                      /\ (fetch[g].pc \in {"sign", "sent"} /\ fetch[g].registered = life
                            => Known(g))'
    BY DEF FetchesOK
  <2>1. CASE g # f
    BY <1>1, <1>2, <1>6, <2>1 DEF FetchesOK, At, Known
  <2>2. CASE g = f
    BY <1>1, <1>2, <2>2, PutValue DEF FetchesOK, At, Known
  <2> QED BY <2>1, <2>2
<1>8. \A g \in Fetches : At(g, "sent") => fetch'[g] = fetch[g]
  BY <1>1, <1>2 DEF At
<1>9. AuditOK' /\ Remembered' /\ KeysKept'
  BY <1>1, <1>6, <1>8, HistoryFrame DEF TypeOK
<1>10. MintedApart' /\ MintedFresh' /\ OneKeyPerInstall' /\ RegisteredIsKnown'
  BY <1>1, <1>8, AuditFrame
<1> QED BY <1>5, <1>7, <1>9, <1>10

\* Signing, and the passing of time.
LEMMA SignHolds ==
  ASSUME IInv, NEW f \in Fetches, Sign(f)
  PROVE  IInv'
<1> USE DEF IInv
<1>1. /\ UNCHANGED <<now, life, config, keys, nonces, ipRate, installRate, audit, storage>>
      /\ fetch[f].pc = "sign" /\ fetch[f] \in Fetch /\ now \in Nat
  BY DEF Sign, At, TypeOK, backend
<1>2. PICK skew \in Skews :
        fetch' = [fetch EXCEPT ![f].pc = "sent", ![f].timestamp = now + skew]
  BY DEF Sign
<1>3. now + skew \in Int
  BY <1>1, SessionAssumption
<1>4. /\ fetch' \in [Fetches -> Fetch]
      /\ fetch'[f] = [fetch[f] EXCEPT !.pc = "sent", !.timestamp = now + skew]
      /\ \A g \in Fetches : g # f => fetch'[g] = fetch[g]
  BY <1>1, <1>2, <1>3 DEF TypeOK, Fetch, Places
<1>5. TypeOK'
  BY <1>1, <1>4 DEF TypeOK
<1>6. FetchesOK'
  <2> SUFFICES ASSUME NEW g \in Fetches
               PROVE  /\ (~At(g, "new") => fetch[g].id \in Fetches)'
                      /\ (fetch[g].pc \notin {"new", "saveId", "key"} => fetch[g].key \in Fetches)'
                      /\ (fetch[g].registered <= life)'
                      /\ (fetch[g].pc \in {"sign", "sent"} /\ fetch[g].registered = life
                            => Known(g))'
    BY DEF FetchesOK
  <2>1. CASE g # f
    BY <1>1, <1>4, <2>1 DEF FetchesOK, At, Known
  <2>2. CASE g = f
    <3>1. /\ fetch'[f].id = fetch[f].id /\ fetch'[f].key = fetch[f].key
          /\ fetch'[f].registered = fetch[f].registered /\ fetch'[f].pc = "sent"
      BY <1>1, <1>4 DEF Fetch
    <3> QED BY <1>1, <2>2, <3>1 DEF FetchesOK, At, Known
  <2> QED BY <2>1, <2>2
<1>7. \A g \in Fetches : At(g, "sent") => fetch'[g] = fetch[g]
  BY <1>1, <1>4 DEF At
<1>8. AuditOK' /\ Remembered' /\ KeysKept'
  BY <1>1, <1>7, HistoryFrame DEF TypeOK
<1>9. MintedApart' /\ MintedFresh' /\ OneKeyPerInstall' /\ RegisteredIsKnown'
  BY <1>1, <1>7, AuditFrame
<1> QED BY <1>5, <1>6, <1>8, <1>9

LEMMA TickHolds == ASSUME IInv, Tick PROVE IInv'
<1> USE DEF IInv
<1>1. /\ UNCHANGED <<life, config, keys, nonces, ipRate, installRate, audit, storage, fetch>>
      /\ now \in Nat /\ now' \in Nat /\ now' >= now
  BY DEF Tick, TypeOK, backend
<1>2. TypeOK'
  BY <1>1 DEF TypeOK
<1>3. FetchesOK'
  BY <1>1 DEF FetchesOK, At, Known
<1>4. AuditOK' /\ Remembered' /\ KeysKept'
  BY <1>1, HistoryFrame
<1>5. MintedApart' /\ MintedFresh' /\ OneKeyPerInstall' /\ RegisteredIsKnown'
  BY <1>1, AuditFrame
<1> QED BY <1>2, <1>3, <1>4, <1>5

\* A restart: what the new life remembers is nothing, and says nothing yet.
LEMMA RestartHolds == ASSUME IInv, Restart PROVE IInv'
<1> USE DEF IInv
<1>1. /\ UNCHANGED <<now, audit, storage, fetch>>
      /\ life \in Nat /\ life' = life + 1 /\ config' \in Configs
      /\ keys' = <<>> /\ nonces' = <<>> /\ ipRate' = <<>> /\ installRate' = <<>>
  BY DEF Restart, TypeOK
<1>2. TypeOK'
  <2>1. life' \in Nat \ {0}
    BY <1>1
  <2>2. MapOf(keys', Fetches, Fetches) /\ MapOf(nonces', Fetches, Nat)
    BY <1>1 DEF MapOf
  <2>3. MapOf(ipRate', Addresses, Rate(MaxPerIp)) /\ MapOf(installRate', Fetches, Rate(MaxPerInstall))
    BY <1>1 DEF MapOf
  <2> QED BY <1>1, <2>1, <2>2, <2>3 DEF TypeOK
<1>3. \A g \in Fetches : fetch[g].registered \in Nat /\ fetch[g].registered < life'
  BY <1>1 DEF FetchesOK, TypeOK, Fetch
<1>4. FetchesOK'
  BY <1>1, <1>3 DEF FetchesOK, At, Known
<1>5. \A i \in DOMAIN audit : audit[i].life < life'
  BY <1>1, EntryType DEF AuditOK
<1>6. AuditOK'
  BY <1>1, <1>5, EntryType DEF AuditOK, At
<1>7. Remembered' /\ KeysKept'
  BY <1>1, <1>5, EntryType DEF Remembered, KeysKept, Minted
<1>8. MintedApart' /\ MintedFresh' /\ OneKeyPerInstall' /\ RegisteredIsKnown'
  BY <1>1, AuditFrame
<1> QED BY <1>2, <1>4, <1>6, <1>7, <1>8

\* Which checks a request passed, by its answer.
LEMMA AnswerMeans ==
  ASSUME NEW f \in Fetches, NEW a \in Addresses
  PROVE  /\ Answer(f, a) \in Answers
         /\ PassedIp(Answer(f, a)) => Admits(ipRate, a, MaxPerIp)
         /\ PassedRates(Answer(f, a)) => Admits(installRate, fetch[f].id, MaxPerInstall)
         /\ UsedNonce(Answer(f, a)) => ~Replayed(f) /\ ~Stale(f)
         /\ Answer(f, a) = "minted" => Known(f) /\ UsedNonce(Answer(f, a))
         /\ Answer(f, a) \in {"unknown_install", "invalid_auth"} => ~Known(f)
BY DEF Answer, Answers, PassedIp, PassedRates, UsedNonce, Known

\* A request is handled: the audit gets one entry, and the maps what it calls for.
LEMMA DeliverHolds ==
  ASSUME IInv, NEW f \in Fetches, NEW a \in Addresses, Deliver(f, a)
  PROVE  IInv'
<1> DEFINE answer == Answer(f, a)
           entry == [request |-> f, address |-> a, at |-> now, life |-> life,
                     answer |-> answer]
           n == Len(audit) + 1
<1> USE DEF IInv
<1>1. /\ UNCHANGED <<now, life, config, keys, storage, fetch>>
      /\ At(f, "sent") /\ fetch[f] \in Fetch /\ fetch[f].id \in Fetches
      /\ now \in Nat /\ life \in Nat
  BY DEF Deliver, Handle, TypeOK, FetchesOK, At
<1>2. /\ ipRate' = IF PassedIp(answer) THEN Hit(ipRate, a) ELSE ipRate
      /\ installRate' = IF PassedRates(answer) THEN Hit(installRate, fetch[f].id)
                        ELSE installRate
      /\ audit' = Append(audit, entry)
  BY DEF Deliver, Handle
<1>3. nonces' = IF UsedNonce(answer) THEN Consume(nonces, f)
                ELSE IF answer = "replay_detected" THEN Unexpired(nonces) ELSE nonces
  BY DEF Deliver, Handle
<1>4. /\ answer \in Answers
      /\ PassedIp(answer) => Admits(ipRate, a, MaxPerIp)
      /\ PassedRates(answer) => Admits(installRate, fetch[f].id, MaxPerInstall)
      /\ UsedNonce(answer) => ~Replayed(f) /\ ~Stale(f)
      /\ answer = "minted" => Known(f) /\ UsedNonce(answer)
      /\ answer \in {"unknown_install", "invalid_auth"} => ~Known(f)
  BY AnswerMeans
<1> HIDE DEF answer
<1>5. /\ entry \in Entry
      /\ entry.request = f /\ entry.at = now /\ entry.life = life /\ entry.answer = answer
  BY <1>1, <1>4 DEF Entry
<1> HIDE DEF entry
<1>6. /\ audit' \in Seq(Entry) /\ DOMAIN audit' = 1 .. n /\ n \in Nat
      /\ DOMAIN audit = 1 .. n - 1
      /\ \A i \in 1 .. n - 1 : audit'[i] = audit[i]
      /\ audit'[n] = entry
  <2>1. audit \in Seq(Entry)
    BY DEF TypeOK
  <2> QED BY <1>2, <1>5, <2>1
<1> HIDE DEF n
<1>7. \A i \in DOMAIN audit' : i = n \/ (i \in DOMAIN audit /\ audit'[i] = audit[i])
  BY <1>6
<1>8. MapOf(Unexpired(nonces), Fetches, Nat) /\ MapOf(nonces', Fetches, Nat)
  <2>1. MapOf(Unexpired(nonces), Fetches, Nat)
    BY DEF Unexpired, MapOf, TypeOK
  <2>2. now + NonceTtl \in Nat
    BY <1>1, SessionAssumption
  <2>3. MapOf(Consume(nonces, f), Fetches, Nat)
    BY <2>1, <2>2, PutType DEF Consume
  <2> QED BY <1>3, <2>1, <2>3 DEF TypeOK
<1>9. TypeOK'
  <2>1. MapOf(ipRate', Addresses, Rate(MaxPerIp))
    BY <1>1, <1>2, <1>4, HitType, SessionAssumption DEF TypeOK
  <2>2. MapOf(installRate', Fetches, Rate(MaxPerInstall))
    BY <1>1, <1>2, <1>4, HitType, SessionAssumption DEF TypeOK
  <2> QED BY <1>1, <1>6, <1>8, <2>1, <2>2 DEF TypeOK
<1>10. FetchesOK'
  BY <1>1 DEF FetchesOK, At, Known
<1>11. AuditOK'
  BY <1>1, <1>5, <1>6, <1>7 DEF AuditOK, At
\* A nonce that is remembered and not expired is still remembered.
<1>12. \A m \in DOMAIN nonces : nonces[m] > now =>
         /\ m \in DOMAIN Unexpired(nonces)
         /\ m \in DOMAIN nonces' /\ (m # f => nonces'[m] = nonces[m])
         /\ nonces'[m] \in {nonces[m], now + NonceTtl}
  <2> SUFFICES ASSUME NEW m \in DOMAIN nonces, nonces[m] > now
               PROVE  /\ m \in DOMAIN Unexpired(nonces)
                      /\ m \in DOMAIN nonces' /\ (m # f => nonces'[m] = nonces[m])
                      /\ nonces'[m] \in {nonces[m], now + NonceTtl}
    OBVIOUS
  <2>1. m \in DOMAIN Unexpired(nonces) /\ Unexpired(nonces)[m] = nonces[m]
    BY DEF Unexpired
  <2>2. CASE UsedNonce(answer)
    BY <1>3, <2>1, <2>2 DEF Consume, Put
  <2>3. CASE ~UsedNonce(answer)
    BY <1>3, <2>1, <2>3
  <2> QED BY <2>1, <2>2, <2>3
<1>13. Remembered'
  <2> SUFFICES ASSUME NEW i \in DOMAIN audit', UsedNonce(audit'[i].answer),
                      audit'[i].life = life, now < audit'[i].at + NonceTtl
               PROVE  /\ audit'[i].request \in DOMAIN nonces'
                      /\ nonces'[audit'[i].request] >= audit'[i].at + NonceTtl
    BY <1>1 DEF Remembered
  <2>1. CASE i = n
    <3>1. nonces' = Put(Unexpired(nonces), f, now + NonceTtl)
      BY <1>3, <1>5, <1>6, <2>1 DEF Consume
    <3>2. f \in DOMAIN nonces' /\ nonces'[f] = now + NonceTtl
      BY <3>1, PutValue
    <3> QED BY <1>1, <1>5, <1>6, <2>1, <3>2, SessionAssumption
  <2>2. CASE i \in DOMAIN audit /\ audit'[i] = audit[i]
    <3> DEFINE m == audit[i].request
    <3>1. m \in DOMAIN nonces /\ nonces[m] >= audit[i].at + NonceTtl
      BY <2>2 DEF Remembered
    <3>2. audit[i].at \in Nat /\ audit[i].at <= now /\ nonces[m] \in Nat
      BY <2>2, <3>1, EntryType DEF AuditOK, TypeOK, MapOf
    <3>3. nonces[m] > now
      BY <1>1, <2>2, <3>1, <3>2, SessionAssumption
    <3>4. m \in DOMAIN nonces' /\ nonces'[m] \in {nonces[m], now + NonceTtl}
      BY <1>12, <3>1, <3>3
    <3>5. nonces'[m] >= audit[i].at + NonceTtl
      BY <1>1, <3>1, <3>2, <3>4, SessionAssumption
    <3> QED BY <2>2, <3>4, <3>5
  <2> QED BY <1>7, <2>1, <2>2
<1>14. KeysKept'
  BY <1>1, <1>4, <1>5, <1>6, <1>7 DEF KeysKept, Minted, Known
<1>15. MintedApart'
  <2> SUFFICES ASSUME NEW i \in DOMAIN audit', NEW j \in DOMAIN audit', i < j,
                      Minted(i)', Minted(j)', audit'[i].request = audit'[j].request,
                      audit'[i].life = audit'[j].life
               PROVE  audit'[j].at >= audit'[i].at + NonceTtl
    BY DEF MintedApart
  <2>1. i \in DOMAIN audit /\ audit'[i] = audit[i]
    BY <1>6, <1>7
  <2>2. CASE j = n
    <3>1. /\ audit[i].request = f /\ audit[i].life = life /\ audit[i].answer = "minted"
          /\ answer = "minted" /\ audit'[j].at = now
      BY <1>5, <1>6, <2>1, <2>2 DEF Minted
    <3>2. ~Replayed(f) /\ UsedNonce(audit[i].answer)
      BY <1>4, <3>1 DEF UsedNonce
    <3>3. audit[i].at \in Nat
      BY <2>1, EntryType
    <3>4. ~ (now < audit[i].at + NonceTtl)
      <4> SUFFICES ASSUME now < audit[i].at + NonceTtl PROVE FALSE
        OBVIOUS
      <4>1. f \in DOMAIN nonces /\ nonces[f] >= audit[i].at + NonceTtl
        BY <2>1, <3>1, <3>2 DEF Remembered
      <4>2. nonces[f] \in Nat
        BY <4>1 DEF TypeOK, MapOf
      <4>3. nonces[f] > now
        BY <1>1, <3>3, <4>1, <4>2, SessionAssumption
      <4> QED BY <1>12, <3>2, <4>1, <4>3 DEF Replayed
    <3> QED BY <1>1, <2>1, <3>1, <3>3, <3>4, SessionAssumption
  <2>3. CASE j \in DOMAIN audit /\ audit'[j] = audit[j]
    BY <2>1, <2>3 DEF MintedApart, Minted
  <2> QED BY <1>7, <2>2, <2>3
<1>16. MintedFresh'
  <2> SUFFICES ASSUME NEW i \in DOMAIN audit', Minted(i)'
               PROVE  Distance(audit'[i].at, fetch[audit'[i].request].timestamp) <= MaxAge
    BY <1>1 DEF MintedFresh, Distance
  <2>1. CASE i = n
    <3>1. ~Stale(f) /\ audit'[i].at = now /\ audit'[i].request = f
      BY <1>4, <1>5, <1>6, <2>1 DEF Minted
    <3>2. fetch[f].timestamp \in Int
      BY <1>1 DEF Fetch
    <3> QED BY <1>1, <3>1, <3>2, SessionAssumption DEF Stale, Distance
  <2>2. CASE i \in DOMAIN audit /\ audit'[i] = audit[i]
    BY <2>2 DEF MintedFresh, Minted
  <2> QED BY <1>7, <2>1, <2>2
<1>17. OneKeyPerInstall'
  <2> SUFFICES ASSUME NEW i \in DOMAIN audit', NEW j \in DOMAIN audit',
                      Minted(i)', Minted(j)', audit'[i].life = audit'[j].life,
                      fetch[audit'[i].request].id = fetch[audit'[j].request].id
               PROVE  fetch[audit'[i].request].key = fetch[audit'[j].request].key
    BY <1>1 DEF OneKeyPerInstall
  <2>1. CASE i \in DOMAIN audit /\ j \in DOMAIN audit
    BY <1>6, <2>1 DEF OneKeyPerInstall, Minted
  <2>2. CASE i = n \/ j = n
    <3>1. audit'[i].life = life /\ audit'[j].life = life
      BY <1>5, <1>6, <2>2
    <3>2. Known(audit'[i].request) /\ Known(audit'[j].request)
      BY <1>1, <1>14, <3>1 DEF KeysKept, Known
    <3> QED BY <3>2 DEF Known
  <2> QED BY <1>7, <2>1, <2>2
<1>18. RegisteredIsKnown'
  <2> SUFFICES ASSUME NEW i \in DOMAIN audit',
                      audit'[i].answer \in {"unknown_install", "invalid_auth"}
               PROVE  audit'[i].life > fetch[audit'[i].request].registered
    BY <1>1 DEF RegisteredIsKnown
  <2>1. CASE i = n
    <3>1. ~Known(f) /\ audit'[i].life = life /\ audit'[i].request = f
      BY <1>4, <1>5, <1>6, <2>1
    <3>2. fetch[f].registered <= life /\ fetch[f].registered # life
      BY <1>1, <3>1 DEF FetchesOK, At
    <3>3. fetch[f].registered \in Nat
      BY <1>1 DEF Fetch
    <3> QED BY <1>1, <3>1, <3>2, <3>3
  <2>2. CASE i \in DOMAIN audit /\ audit'[i] = audit[i]
    BY <2>2 DEF RegisteredIsKnown
  <2> QED BY <1>7, <2>1, <2>2
<1> QED BY <1>9, <1>10, <1>11, <1>13, <1>14, <1>15, <1>16, <1>17, <1>18

-----------------------------------------------------------------------------
(* The theorems                                                            *)

LEMMA NextHolds == IInv /\ [Next]_vars => IInv'
<1> SUFFICES ASSUME IInv, [Next]_vars PROVE IInv' OBVIOUS
<1>1. CASE \E f \in Fetches : ReadId(f) \/ SaveId(f) \/ ReadKey(f) \/ SaveKey(f)
  BY <1>1, PrepareHolds
<1>2. CASE \E f \in Fetches : Register(f)
  BY <1>2, RegisterHolds
<1>3. CASE \E f \in Fetches : Sign(f)
  BY <1>3, SignHolds
<1>4. CASE \E f \in Fetches, a \in Addresses : Deliver(f, a)
  BY <1>4, DeliverHolds
<1>5. CASE Restart
  BY <1>5, RestartHolds
<1>6. CASE Tick
  BY <1>6, TickHolds
<1>7. CASE UNCHANGED vars
  BY <1>7 DEF vars, backend, IInv, TypeOK, FetchesOK, AuditOK, Remembered, KeysKept,
     MintedApart, MintedFresh, OneKeyPerInstall, RegisteredIsKnown, Known, At, Minted,
     Distance
<1> QED BY <1>1, <1>2, <1>3, <1>4, <1>5, <1>6, <1>7 DEF Next

LEMMA Invariance == Spec => []IInv
BY InitHolds, NextHolds, PTL DEF Spec

\* Every variable keeps its type, and no rate limit is counted beyond.
THEOREM TypeCorrect == Spec => []TypeOK
<1>1. IInv => TypeOK
  BY DEF IInv
<1> QED BY <1>1, Invariance, PTL

\* Copies of one request that a backend accepts before it restarts are
\* accepted at least NONCE_TTL_MS apart, however the network delays them.
THEOREM NonceHolds == Spec => []MintedApart
<1>1. IInv => MintedApart
  BY DEF IInv
<1> QED BY <1>1, Invariance, PTL

\* A request mints a session only within MAX_REQUEST_AGE_MS of its timestamp, so
\* one that is delivered late is refused.
THEOREM FreshnessHolds == Spec => []MintedFresh
<1>1. IInv => MintedFresh
  BY DEF IInv
<1> QED BY <1>1, Invariance, PTL

\* Two sessions for one request, in one life of the backend.
LEMMA RepeatsApart ==
  ASSUME IInv, NEW i \in DOMAIN audit, NEW j \in DOMAIN audit, Repeats(i, j)
  PROVE  /\ audit[i].at \in Nat /\ audit[j].at \in Nat
         /\ fetch[audit[i].request].timestamp \in Int
         /\ audit[j].at >= audit[i].at + NonceTtl
         /\ audit[j].request = audit[i].request
         /\ audit[i].at >= fetch[audit[i].request].timestamp - MaxAge
         /\ audit[j].at <= fetch[audit[i].request].timestamp + MaxAge
<1> DEFINE t == fetch[audit[i].request].timestamp
<1>1. /\ audit[i].at \in Nat /\ audit[j].at \in Nat /\ t \in Int
  <2>1. audit \in Seq(Entry) /\ fetch[audit[i].request] \in Fetch
    BY EntryType DEF IInv, TypeOK
  <2> QED BY <2>1, EntryType DEF IInv, Fetch
<1>2. Distance(audit[i].at, t) <= MaxAge /\ Distance(audit[j].at, t) <= MaxAge
  BY DEF IInv, MintedFresh, Repeats
<1>3. audit[j].at >= audit[i].at + NonceTtl /\ audit[j].request = audit[i].request
  BY DEF IInv, MintedApart, Repeats
<1> HIDE DEF t
<1>4. audit[i].at >= t - MaxAge /\ audit[j].at <= t + MaxAge
  BY <1>1, <1>2, SessionAssumption DEF Distance
<1> QED BY <1>1, <1>3, <1>4 DEF t

\* With a nonce that is kept for at least the age a request may have, as it is by default,
\* a request that minted a session after its timestamp mints no other one, and one whose
\* timestamp lies ahead mints at most three, before the backend restarts.
THEOREM RepeatsAreFew == Spec => []MintedFew
<1>1. IInv => MintedFew
  <2> SUFFICES ASSUME IInv, NonceTtl >= MaxAge,
                      NEW i \in DOMAIN audit, NEW j \in DOMAIN audit, Repeats(i, j)
               PROVE  /\ audit[i].at <= fetch[audit[i].request].timestamp
                      /\ ~ \E k, l \in DOMAIN audit : Repeats(j, k) /\ Repeats(k, l)
    BY DEF MintedFew
  <2> DEFINE t == fetch[audit[i].request].timestamp
  <2>1. /\ audit[i].at \in Nat /\ audit[j].at \in Nat /\ t \in Int
        /\ audit[j].at >= audit[i].at + NonceTtl
        /\ audit[j].request = audit[i].request
        /\ audit[i].at >= t - MaxAge /\ audit[j].at <= t + MaxAge
    BY RepeatsApart
  <2>2. audit[i].at <= t
    <3> HIDE DEF t
    <3> QED BY <2>1, SessionAssumption
  <2>3. ASSUME NEW k \in DOMAIN audit, NEW l \in DOMAIN audit, Repeats(j, k), Repeats(k, l)
        PROVE  FALSE
    <3>1. /\ audit[k].at \in Nat /\ audit[k].at >= audit[j].at + NonceTtl
          /\ audit[k].request = audit[i].request
      BY <2>1, <2>3, RepeatsApart
    <3>2. /\ audit[l].at \in Nat /\ audit[l].at >= audit[k].at + NonceTtl
          /\ audit[l].at <= t + MaxAge
      BY <2>3, <3>1, RepeatsApart
    <3> HIDE DEF t
    <3> QED BY <2>1, <3>1, <3>2, SessionAssumption
  <2> QED BY <2>2, <2>3
<1> QED BY <1>1, Invariance, PTL

\* All the sessions an install gets from one life of the backend are for one key.
THEOREM KeyHolds == Spec => []OneKeyPerInstall
<1>1. IInv => OneKeyPerInstall
  BY DEF IInv
<1> QED BY <1>1, Invariance, PTL

\* A client that the backend let register is not told that it is unknown, nor
\* that its signature is wrong, before the backend restarts.
THEOREM RegistrationHolds == Spec => []RegisteredIsKnown
<1>1. IInv => RegisteredIsKnown
  BY DEF IInv
<1> QED BY <1>1, Invariance, PTL

-----------------------------------------------------------------------------
(* How long a credential lives                                             *)

LEMMA RoundsDown ==
  ASSUME NEW a \in Nat, NEW d \in Nat \ {0}
  PROVE  (a \div d) * d \in Nat /\ (a \div d) * d <= a /\ a < (a \div d) * d + d
<1>1. a \div d \in Int /\ a % d \in 0 .. d - 1 /\ a = d * (a \div d) + (a % d)
  BY SMT
<1> QED BY <1>1, SMT

LEMMA ExpiryBounds ==
  ASSUME NEW at \in Nat
  PROVE  Expiry(at) \in Nat /\ Expiry(at) <= at + Lifetime /\ at + Lifetime < Expiry(at) + Second
<1>1. at + Lifetime \in Nat /\ Second \in Nat \ {0}
  BY SessionAssumption
<1>2. /\ ((at + Lifetime) \div Second) * Second \in Nat
      /\ ((at + Lifetime) \div Second) * Second <= at + Lifetime
      /\ at + Lifetime < ((at + Lifetime) \div Second) * Second + Second
  BY <1>1, RoundsDown
<1> QED BY <1>2 DEF Expiry

\* A session is honoured for its lifetime, to within a second and never longer,
\* whatever the lifetime and the time it was minted (sessionInit.ts:144-160).
THEOREM LifetimeHolds == Spec => []CredentialLifetime
<1>1. TypeOK => CredentialLifetime
  <2> SUFFICES ASSUME TypeOK, NEW i \in DOMAIN audit, NEW at \in Nat, at = audit[i].at,
                      NEW t \in at .. at + Lifetime + Second
               PROVE  /\ Verifies(at, t) => t < at + Lifetime
                      /\ t <= at + Lifetime - Second => Verifies(at, t)
    BY EntryType DEF CredentialLifetime
  <2>1. Expiry(at) \in Nat /\ Expiry(at) <= at + Lifetime /\ at + Lifetime < Expiry(at) + Second
    BY ExpiryBounds
  <2> QED BY <2>1, SessionAssumption DEF Verifies
<1> QED BY <1>1, TypeCorrect, PTL

-----------------------------------------------------------------------------
(* The rate limits                                                         *)

\* Requests are handled one after the other.
Sorted(q) ==
  \A i, j \in DOMAIN q : i <= j => q[i].at <= q[j].at

\* The hits from i on, less than a window later; and whether none came before i that near.
Stretch(q, H, i) == {j \in H : j >= i /\ q[j].life = q[i].life /\ q[j].at < q[i].at + Window}
Begins(q, H, i) ==
  \A j \in H : j < i => ~ (q[j].life = q[i].life /\ q[i].at < q[j].at + Window)

HeldAt(q, H, i, max) ==
  /\ Cardinality(Stretch(q, H, i)) < 2 * max
  /\ Begins(q, H, i) => Cardinality(Stretch(q, H, i)) <= max

\* The hits of the window that ends at a time.
InLast(q, H, end, L) == {j \in H : q[j].life = L /\ q[j].at + Window >= end}

\* What a rate says of the hits of a life: it counts those of its window, which begins with one
\* of them, and of an earlier hit's stretch less than the limit came before that window.
Tells(q, H, rate, max, L) ==
  LET last == InLast(q, H, rate.resetAt, L)
  IN  /\ Cardinality(last) = rate.count
      /\ \E s \in last : q[s].at + Window = rate.resetAt
      /\ \A j \in H : q[j].life = L => q[j].at < rate.resetAt
      /\ \A i \in H \ last :
           q[i].life = L /\ q[i].at + 2 * Window > rate.resetAt
             => ~ Begins(q, H, i) /\ Cardinality(Stretch(q, H, i) \ last) < max

\* The hits H of the audit q, as the map has them under key k.
Tally(q, H, map, k, max, L) ==
  /\ \A i \in H : HeldAt(q, H, i, max)
  /\ k \notin DOMAIN map => \A j \in H : q[j].life # L
  /\ k \in DOMAIN map => Tells(q, H, map[k], max, L)

\* An audit, and one request more.
Grows(q, e, p) ==
  /\ q \in Seq(Entry) /\ e \in Entry /\ p = Append(q, e)
  /\ Sorted(q) /\ \A j \in DOMAIN q : q[j].at <= e.at

LEMMA Grown ==
  ASSUME NEW q, NEW e, NEW p, Grows(q, e, p)
  PROVE  /\ DOMAIN q = 1 .. Len(q) /\ Len(q) \in Nat /\ DOMAIN p = 1 .. Len(q) + 1
         /\ \A j \in DOMAIN q : p[j] = q[j] /\ q[j].at \in Nat
         /\ p[Len(q) + 1] = e /\ e.at \in Nat
<1>1. q \in Seq(Entry) /\ e \in Entry /\ p = Append(q, e)
  BY DEF Grows
<1>2. ASSUME NEW j \in DOMAIN q PROVE q[j].at \in Nat
  <2>1. q[j] \in Entry
    BY <1>1
  <2> QED BY <2>1 DEF Entry
<1> QED BY <1>1, <1>2 DEF Entry

LEMMA EarlierHits ==
  ASSUME NEW q, NEW e, NEW p, Grows(q, e, p), NEW H, H \subseteq DOMAIN q, NEW n, n = Len(q) + 1
  PROVE  /\ \A j \in H : p[j] = q[j] /\ q[j].at \in Nat /\ j \in Nat /\ j < n /\ q[j].at <= e.at
         /\ p[n] = e /\ e.at \in Nat /\ Window \in Nat \ {0} /\ n \in Nat
BY Grown, SessionAssumption DEF Grows

LEMMA GrownSorted ==
  ASSUME NEW q, NEW e, NEW p, Grows(q, e, p)
  PROVE  Sorted(p)
<1> SUFFICES ASSUME NEW i \in DOMAIN p, NEW j \in DOMAIN p, i <= j PROVE p[i].at <= p[j].at
  BY DEF Sorted
<1>1. CASE j \in DOMAIN q
  BY <1>1, Grown DEF Grows, Sorted
<1>2. CASE j = Len(q) + 1 /\ i \in DOMAIN q
  BY <1>2, Grown DEF Grows
<1>3. CASE j = Len(q) + 1 /\ i = j
  BY <1>3, Grown
<1> QED BY <1>1, <1>2, <1>3, Grown

\* Hits that are the same in two audits have the same stretches.
LEMMA SameHits ==
  ASSUME NEW q, NEW p, NEW H, \A j \in H : p[j] = q[j], NEW map, NEW map2, NEW k, NEW max, NEW L,
         k \in DOMAIN map2 <=> k \in DOMAIN map, k \in DOMAIN map => map2[k] = map[k],
         Tally(q, H, map, k, max, L)
  PROVE  Tally(p, H, map2, k, max, L)
<1>1. \A i \in H : Stretch(p, H, i) = Stretch(q, H, i)
  BY DEF Stretch
<1>2. \A i \in H : Begins(p, H, i) <=> Begins(q, H, i)
  BY DEF Begins
<1>3. \A i \in H : HeldAt(p, H, i, max)
  BY <1>1, <1>2 DEF HeldAt, Tally
<1>4. ASSUME k \in DOMAIN map PROVE Tells(p, H, map[k], max, L)
  <2>1. Tells(q, H, map[k], max, L)
    BY <1>4 DEF Tally
  <2>2. InLast(p, H, map[k].resetAt, L) = InLast(q, H, map[k].resetAt, L)
    BY DEF InLast
  <2>3. InLast(q, H, map[k].resetAt, L) \subseteq H
    BY DEF InLast
  <2> QED BY <1>1, <1>2, <2>1, <2>2, <2>3 DEF Tells
<1> QED BY <1>3, <1>4 DEF Tally

\* A hit more: what it adds to the stretches.
Adds(q, e, p, H, n, G) ==
  /\ n \in Nat /\ n \notin H /\ IsFiniteSet(H) /\ IsFiniteSet(G)
  /\ Stretch(p, G, n) \subseteq {n}
  /\ \A i \in H :
       /\ Begins(p, G, i) <=> Begins(q, H, i)
       /\ Stretch(p, G, i) =
            IF q[i].life = e.life /\ e.at < q[i].at + Window THEN Stretch(q, H, i) \cup {n}
            ELSE Stretch(q, H, i)

LEMMA StretchGrows ==
  ASSUME NEW q, NEW e, NEW p, Grows(q, e, p), NEW H, H \subseteq DOMAIN q,
         NEW n, n = Len(q) + 1, NEW G, G = H \cup {n}
  PROVE  Adds(q, e, p, H, n, G)
<1>1. /\ n \in Nat /\ n \notin H /\ \A j \in H : j \in Nat /\ j < n
      /\ \A j \in H : p[j] = q[j] /\ q[j].at \in Nat
      /\ p[n] = e
  BY Grown
<1>2. IsFiniteSet(H) /\ IsFiniteSet(G)
  <2>1. IsFiniteSet(1 .. Len(q))
    BY Grown, FS_Interval
  <2>2. IsFiniteSet(H)
    BY Grown, <2>1, FS_Subset
  <2> QED BY <2>2, FS_AddElement
<1>3. Stretch(p, G, n) \subseteq {n}
  BY <1>1 DEF Stretch
<1>4. ASSUME NEW i \in H PROVE Begins(p, G, i) <=> Begins(q, H, i)
  BY <1>1, <1>4 DEF Begins
<1>5. ASSUME NEW i \in H
      PROVE  Stretch(p, G, i) =
               IF q[i].life = e.life /\ e.at < q[i].at + Window THEN Stretch(q, H, i) \cup {n}
               ELSE Stretch(q, H, i)
  BY <1>1, <1>5 DEF Stretch
<1> QED BY <1>1, <1>2, <1>3, <1>4, <1>5 DEF Adds

LEMMA CardUnion ==
  ASSUME NEW S, NEW A, NEW B, IsFiniteSet(A), IsFiniteSet(B), S \subseteq A \cup B
  PROVE  /\ IsFiniteSet(S) /\ Cardinality(S) \in Nat /\ Cardinality(A) \in Nat
         /\ Cardinality(B) \in Nat /\ Cardinality(S) <= Cardinality(A) + Cardinality(B)
<1>1. IsFiniteSet(A \cup B) /\ Cardinality(A \cup B) <= Cardinality(A) + Cardinality(B)
  <2>1. /\ IsFiniteSet(A \cup B) /\ IsFiniteSet(A \cap B)
        /\ Cardinality(A \cup B) = Cardinality(A) + Cardinality(B) - Cardinality(A \cap B)
    <3>1. IsFiniteSet(A \cap B)
      BY FS_Subset
    <3> QED BY <3>1, FS_Union
  <2> QED BY <2>1, FS_CardinalityType
<1> QED BY <1>1, FS_Subset, FS_CardinalityType

\* A rate that has room at a time, and the rate with one hit more.
Counts(rate, then, max, time) ==
  /\ rate \in Rate(max) /\ then \in Rate(max)
  /\ rate.resetAt > time /\ rate.count < max
  /\ then.count = rate.count + 1 /\ then.resetAt = rate.resetAt

\* A hit in the window of the rate.
LEMMA HitInWindow ==
  ASSUME NEW q, NEW e, NEW p, Grows(q, e, p), NEW H, H \subseteq DOMAIN q,
         NEW n, n = Len(q) + 1, NEW G, G = H \cup {n},
         NEW max \in Nat \ {0}, NEW rate, NEW then, Counts(rate, then, max, e.at),
         \A i \in H : HeldAt(q, H, i, max), Tells(q, H, rate, max, e.life)
  PROVE  (\A i \in G : HeldAt(p, G, i, max)) /\ Tells(p, G, then, max, e.life)
<1> DEFINE end == rate.resetAt
           last == InLast(q, H, end, e.life)
           now2 == InLast(p, G, end, e.life)
<1>0. /\ rate \in Rate(max) /\ then \in Rate(max) /\ rate.resetAt > e.at /\ rate.count < max
      /\ then.count = rate.count + 1 /\ then.resetAt = rate.resetAt
  BY DEF Counts
<1>1. /\ \A j \in H : p[j] = q[j] /\ q[j].at \in Nat /\ j \in Nat /\ j < n /\ q[j].at <= e.at
      /\ p[n] = e /\ e.at \in Nat /\ Window \in Nat \ {0} /\ n \in Nat
      /\ rate.count \in Nat /\ end \in Nat
  <2>1. rate.count \in Nat /\ end \in Nat
    BY <1>0 DEF Rate
  <2>2. /\ \A j \in H : p[j] = q[j] /\ q[j].at \in Nat /\ j \in Nat /\ j < n /\ q[j].at <= e.at
        /\ p[n] = e /\ e.at \in Nat /\ Window \in Nat \ {0} /\ n \in Nat
    BY EarlierHits
  <2> QED BY <2>1, <2>2
<1>2. /\ n \notin H /\ IsFiniteSet(H) /\ IsFiniteSet(G)
      /\ Stretch(p, G, n) \subseteq {n}
      /\ \A i \in H :
           /\ Begins(p, G, i) <=> Begins(q, H, i)
           /\ Stretch(p, G, i) =
                IF q[i].life = e.life /\ e.at < q[i].at + Window THEN Stretch(q, H, i) \cup {n}
                ELSE Stretch(q, H, i)
  <2>1. Adds(q, e, p, H, n, G)
    BY StretchGrows
  <2> QED BY <2>1 DEF Adds
<1>3. PICK s \in last : q[s].at + Window = end
  BY DEF Tells
<1>4. last \subseteq H /\ IsFiniteSet(last) /\ Cardinality(last) = rate.count
  <2>1. last \subseteq H
    BY DEF InLast
  <2> QED BY <1>2, <2>1, FS_Subset DEF Tells
<1>5. e.at + Window >= end
  BY <1>0, <1>1, <1>3, <1>4
<1>6. now2 = last \cup {n}
  BY <1>0, <1>1, <1>5 DEF InLast
<1>7. Cardinality(now2) = rate.count + 1 /\ IsFiniteSet(now2)
  <2> HIDE DEF last, now2
  <2>1. n \notin last
    BY <1>2, <1>4
  <2> QED BY <2>1, <1>4, <1>6, FS_AddElement
<1>8. ASSUME NEW i \in H, i \notin last, q[i].life = e.life, q[i].at + 2 * Window > end
      PROVE  ~ Begins(q, H, i) /\ Cardinality(Stretch(q, H, i) \ last) < max
  BY <1>8 DEF Tells
<1>9. \A i \in H : Stretch(p, G, i) \ now2 = Stretch(q, H, i) \ last
  <2> SUFFICES ASSUME NEW i \in H PROVE Stretch(p, G, i) \ now2 = Stretch(q, H, i) \ last
    OBVIOUS
  <2>1. Stretch(q, H, i) \subseteq H
    BY DEF Stretch
  <2> QED BY ZenonT(30), <1>2, <1>6, <2>1
<1>10. G \ now2 = H \ last
  BY <1>2, <1>4, <1>6
<1>11. Tells(p, G, then, max, e.life)
  <2>1. \E t \in now2 : p[t].at + Window = end
    BY <1>0, <1>1, <1>3, <1>4, <1>6
  <2>2. \A j \in G : p[j].life = e.life => p[j].at < end
    <3>1. \A j \in H : q[j].life = e.life => q[j].at < end
      BY DEF Tells
    <3> QED BY <1>0, <1>1, <3>1
  <2>3. ASSUME NEW i \in G \ now2, p[i].life = e.life, p[i].at + 2 * Window > end
        PROVE  ~ Begins(p, G, i) /\ Cardinality(Stretch(p, G, i) \ now2) < max
    <3>1. i \in H /\ i \notin last /\ p[i] = q[i]
      BY <1>0, <1>1, <1>10
    <3> QED BY <1>2, <1>8, <1>9, <2>3, <3>1
  <2> QED BY ZenonT(30), <1>0, <1>7, <2>1, <2>2, <2>3 DEF Tells
<1>12. HeldAt(p, G, n, max)
  <2>1. IsFiniteSet({n}) /\ Cardinality({n}) = 1
    BY FS_Singleton
  <2>2. Cardinality(Stretch(p, G, n)) <= 1 /\ Cardinality(Stretch(p, G, n)) \in Nat
    <3>1. Stretch(p, G, n) \in SUBSET {n}
      BY <1>2
    <3>2. IsFiniteSet(Stretch(p, G, n)) /\ Cardinality(Stretch(p, G, n)) <= Cardinality({n})
      BY <2>1, <3>1, FS_Subset
    <3> QED BY <2>1, <3>2, FS_CardinalityType
  <2> QED BY <2>2 DEF HeldAt
<1>13. ASSUME NEW i \in H PROVE HeldAt(p, G, i, max)
  <2>1. CASE ~ (q[i].life = e.life /\ e.at < q[i].at + Window)
    BY <1>2, <2>1 DEF HeldAt
  <2>2. CASE q[i].life = e.life /\ e.at < q[i].at + Window /\ i \in last
    <3>1. \A j \in Stretch(q, H, i) : j \in last
      <4> SUFFICES ASSUME NEW j \in Stretch(q, H, i) PROVE j \in last
        OBVIOUS
      <4>1. j \in H /\ j >= i /\ q[j].life = e.life
        BY <2>2 DEF Stretch
      <4>2. q[i].at <= q[j].at
        BY <1>0, <1>1, <4>1, <1>4, <2>2 DEF Grows, Sorted
      <4>3. q[i].at + Window >= end
        BY <2>2 DEF InLast
      <4> QED BY SMTT(30), <1>0, <1>1, <4>1, <4>2, <4>3 DEF InLast
    <3> HIDE DEF last, now2
    <3>2. Stretch(p, G, i) \subseteq now2
      <4>1. Stretch(p, G, i) = Stretch(q, H, i) \cup {n}
        BY <1>2, <2>2
      <4> QED BY <1>6, <3>1, <4>1
    <3>3. Cardinality(Stretch(p, G, i)) <= rate.count + 1 /\ Cardinality(Stretch(p, G, i)) \in Nat
      BY <1>0, <1>7, <3>2, FS_Subset, FS_CardinalityType
    <3> QED BY <1>0, <1>1, <3>3 DEF HeldAt
  <2>3. CASE q[i].life = e.life /\ e.at < q[i].at + Window /\ i \notin last
    <3>0. q[i].at + 2 * Window > end
      BY <1>1, <1>5, <2>3
    <3>1. ~ Begins(q, H, i) /\ Cardinality(Stretch(q, H, i) \ last) < max
      BY <1>8, <2>3, <3>0
    <3>2. IsFiniteSet(Stretch(q, H, i) \ last)
      <4>1. Stretch(q, H, i) \ last \subseteq H
        BY DEF Stretch
      <4> QED BY <1>2, <4>1, FS_Subset
    <3> HIDE DEF last, now2
    <3>3. Stretch(p, G, i) \subseteq (Stretch(q, H, i) \ last) \cup now2
      <4>1. Stretch(p, G, i) = Stretch(q, H, i) \cup {n}
        BY <1>2, <2>3
      <4>2. last \cup {n} \subseteq now2
        BY <1>6
      <4> QED BY <4>1, <4>2
    <3>4. /\ Cardinality(Stretch(p, G, i)) \in Nat
          /\ Cardinality(Stretch(q, H, i) \ last) \in Nat
          /\ Cardinality(Stretch(p, G, i)) <=
               Cardinality(Stretch(q, H, i) \ last) + Cardinality(now2)
      BY <1>0, <1>7, <3>2, <3>3, CardUnion
    <3>5. Cardinality(Stretch(p, G, i)) < 2 * max
      BY <1>0, <1>1, <1>7, <3>1, <3>4
    <3> QED BY <1>2, <3>1, <3>5 DEF HeldAt
  <2> QED BY <2>1, <2>2, <2>3
<1> QED BY <1>11, <1>12, <1>13

\* A hit that begins a window: what was in the window before is over.
LEMMA HitBeginsWindow ==
  ASSUME NEW q, NEW e, NEW p, Grows(q, e, p), NEW H, H \subseteq DOMAIN q,
         NEW n, n = Len(q) + 1, NEW G, G = H \cup {n},
         NEW max \in Nat \ {0}, NEW map, NEW k, NEW then \in Rate(max),
         k \in DOMAIN map => map[k] \in Rate(max) /\ map[k].resetAt <= e.at,
         then.count = 1, then.resetAt = e.at + Window,
         Tally(q, H, map, k, max, e.life)
  PROVE  (\A i \in G : HeldAt(p, G, i, max)) /\ Tells(p, G, then, max, e.life)
<1> DEFINE end == e.at + Window
           last == InLast(p, G, end, e.life)
<1>1. /\ \A j \in H : p[j] = q[j] /\ q[j].at \in Nat /\ j \in Nat /\ j < n /\ q[j].at <= e.at
      /\ p[n] = e /\ e.at \in Nat /\ Window \in Nat \ {0} /\ n \in Nat
  BY EarlierHits
<1>2. /\ n \notin H /\ IsFiniteSet(H) /\ IsFiniteSet(G)
      /\ Stretch(p, G, n) \subseteq {n}
      /\ \A i \in H :
           /\ Begins(p, G, i) <=> Begins(q, H, i)
           /\ Stretch(p, G, i) =
                IF q[i].life = e.life /\ e.at < q[i].at + Window THEN Stretch(q, H, i) \cup {n}
                ELSE Stretch(q, H, i)
  <2>1. Adds(q, e, p, H, n, G)
    BY StretchGrows
  <2> QED BY <2>1 DEF Adds
<1>3. ASSUME NEW j \in H, q[j].life = e.life
      PROVE  /\ k \in DOMAIN map /\ Tells(q, H, map[k], max, e.life)
             /\ map[k].resetAt \in Nat /\ map[k].count \in Nat /\ map[k].count <= max
             /\ q[j].at < map[k].resetAt /\ map[k].resetAt <= e.at
  <2>1. k \in DOMAIN map /\ Tells(q, H, map[k], max, e.life)
    BY <1>3 DEF Tally
  <2>2. map[k].resetAt \in Nat /\ map[k].count \in Nat /\ map[k].count <= max
    BY <2>1 DEF Rate
  <2> QED BY <1>3, <2>1, <2>2 DEF Tells
<1>4. last = {n}
  <2>1. \A j \in H : q[j].life = e.life => ~ (q[j].at + Window >= end)
    BY <1>1, <1>3
  <2> QED BY <1>1, <2>1 DEF InLast
<1>5. IsFiniteSet({n}) /\ Cardinality({n}) = 1
  BY FS_Singleton
\* An earlier hit whose stretch comes to now was not the first of its window.
<1>6. ASSUME NEW i \in H, q[i].life = e.life, q[i].at + Window > e.at
      PROVE  /\ ~ Begins(q, H, i) /\ IsFiniteSet(Stretch(q, H, i))
             /\ Cardinality(Stretch(q, H, i)) \in Nat /\ Cardinality(Stretch(q, H, i)) < max
  <2> DEFINE before == InLast(q, H, map[k].resetAt, e.life)
  <2>1. /\ Tells(q, H, map[k], max, e.life)
        /\ map[k].resetAt \in Nat /\ map[k].count \in Nat /\ map[k].count <= max
        /\ q[i].at < map[k].resetAt /\ map[k].resetAt <= e.at
    BY <1>3, <1>6
  <2>2. before \subseteq H
    BY DEF InLast
  <2>3. PICK s \in before : q[s].at + Window = map[k].resetAt
    BY <2>1 DEF Tells
  <2>4. IsFiniteSet(before) /\ Cardinality(before) = map[k].count
    BY <1>2, <2>1, <2>2, FS_Subset DEF Tells
  <2>5. s \in H /\ q[s].life = e.life /\ q[s].at < q[i].at /\ q[i].at + Window >= map[k].resetAt
    BY <1>1, <1>6, <2>1, <2>2, <2>3 DEF InLast
  <2>6. s < i
    <3>1. i <= s => q[i].at <= q[s].at
      BY <2>5 DEF Grows, Sorted
    <3> QED BY <1>1, <2>5, <3>1
  <2>7. ~ Begins(q, H, i)
    BY <1>6, <2>1, <2>3, <2>5, <2>6 DEF Begins
  <2>8. Stretch(q, H, i) \subseteq before \ {s}
    <3> SUFFICES ASSUME NEW j \in Stretch(q, H, i) PROVE j \in before /\ j # s
      OBVIOUS
    <3>1. j \in H /\ j >= i /\ q[j].life = e.life
      BY <1>6 DEF Stretch
    <3>2. q[i].at <= q[j].at
      BY <1>1, <3>1 DEF Grows, Sorted
    <3>3. q[j].at + Window >= map[k].resetAt
      BY SMTT(30), <1>1, <2>1, <2>5, <3>1, <3>2
    <3>4. j # s
      BY <1>1, <2>5, <2>6, <3>1
    <3> QED BY <3>1, <3>3, <3>4 DEF InLast
  <2> HIDE DEF before
  <2>9. IsFiniteSet(before \ {s}) /\ Cardinality(before \ {s}) = map[k].count - 1
    BY <2>3, <2>4, FS_RemoveElement
  <2>10. /\ IsFiniteSet(Stretch(q, H, i)) /\ Cardinality(Stretch(q, H, i)) \in Nat
         /\ Cardinality(Stretch(q, H, i)) <= map[k].count - 1
    BY <2>8, <2>9, FS_Subset, FS_CardinalityType
  <2> QED BY <2>1, <2>7, <2>10
<1>7. Tells(p, G, then, max, e.life)
  <2>1. \A j \in G : p[j].life = e.life => p[j].at < end
    BY <1>1
  <2>2. ASSUME NEW i \in G \ last, p[i].life = e.life, p[i].at + 2 * Window > end
        PROVE  ~ Begins(p, G, i) /\ Cardinality(Stretch(p, G, i) \ last) < max
    <3>0. i \in H /\ p[i] = q[i]
      BY <1>1, <1>4, <2>2
    <3>1. i \in H /\ p[i] = q[i] /\ q[i].at + Window > e.at
      BY <1>1, <2>2, <3>0
    <3>2. Stretch(p, G, i) \ last = Stretch(q, H, i)
      <4>1. Stretch(q, H, i) \subseteq H
        BY DEF Stretch
      <4> QED BY <1>2, <1>4, <3>1, <4>1
    <3> QED BY <1>2, <1>6, <2>2, <3>1, <3>2
  <2>3. n \in last /\ p[n].at + Window = end
    BY <1>1, <1>4
  <2>4. Cardinality(last) = 1
    BY <1>4, <1>5
  <2>5. last = InLast(p, G, then.resetAt, e.life) /\ end = then.resetAt
    OBVIOUS
  <2>6. \E t \in last : p[t].at + Window = end
    BY <2>3
  <2> HIDE DEF last, end
  <2> QED BY <2>1, <2>2, <2>4, <2>5, <2>6 DEF Tells
<1>8. HeldAt(p, G, n, max)
  <2>1. Cardinality(Stretch(p, G, n)) <= 1 /\ Cardinality(Stretch(p, G, n)) \in Nat
    <3>1. Stretch(p, G, n) \in SUBSET {n}
      BY <1>2
    <3>2. IsFiniteSet(Stretch(p, G, n)) /\ Cardinality(Stretch(p, G, n)) <= Cardinality({n})
      BY <1>5, <3>1, FS_Subset
    <3> QED BY <1>5, <3>2, FS_CardinalityType
  <2> QED BY <2>1 DEF HeldAt
<1>9. ASSUME NEW i \in H PROVE HeldAt(p, G, i, max)
  <2>1. CASE ~ (q[i].life = e.life /\ e.at < q[i].at + Window)
    BY <1>2, <2>1 DEF HeldAt, Tally
  <2>2. CASE q[i].life = e.life /\ e.at < q[i].at + Window
    <3>1. /\ ~ Begins(q, H, i) /\ IsFiniteSet(Stretch(q, H, i))
          /\ Cardinality(Stretch(q, H, i)) \in Nat /\ Cardinality(Stretch(q, H, i)) < max
      BY <1>1, <1>6, <2>2
    <3>2. Stretch(p, G, i) = Stretch(q, H, i) \cup {n}
      BY <1>2, <2>2
    <3>3. /\ Cardinality(Stretch(p, G, i)) \in Nat
          /\ Cardinality(Stretch(p, G, i)) <= Cardinality(Stretch(q, H, i)) + 1
      BY <1>5, <3>1, <3>2, CardUnion
    <3>4. Cardinality(Stretch(p, G, i)) < 2 * max
      BY <3>1, <3>3
    <3> QED BY <1>2, <3>1, <3>4 DEF HeldAt
  <2> QED BY <2>1, <2>2
<1> QED BY <1>7, <1>8, <1>9

\* A hit that is let through, in the map and in the audit.
LEMMA HitTallies ==
  ASSUME NEW q, NEW e, NEW p, Grows(q, e, p), NEW H, H \subseteq DOMAIN q,
         NEW n, n = Len(q) + 1, NEW G, G = H \cup {n},
         NEW S, NEW max \in Nat \ {0}, NEW map, MapOf(map, S, Rate(max)), NEW k \in S,
         now \in Nat, e.at = now, Admits(map, k, max), Tally(q, H, map, k, max, e.life)
  PROVE  Tally(p, G, Hit(map, k), k, max, e.life)
<1> DEFINE then == Hit(map, k)[k]
<1>1. k \in DOMAIN Hit(map, k)
  BY PutValue DEF Hit
<1>2. then \in Rate(max)
  <2>1. MapOf(Hit(map, k), S, Rate(max))
    BY HitType, SessionAssumption
  <2> QED BY <1>1, <2>1 DEF MapOf
<1>3. k \in DOMAIN map => map[k] \in Rate(max)
  BY DEF MapOf
<1>4. then = IF InWindow(map, k) THEN [map[k] EXCEPT !.count = @ + 1]
             ELSE [count |-> 1, resetAt |-> now + Window]
  BY PutValue DEF Hit
<1> HIDE DEF then
<1>5. (\A i \in G : HeldAt(p, G, i, max)) /\ Tells(p, G, then, max, e.life)
  <2>1. CASE InWindow(map, k)
    <3>1. k \in DOMAIN map /\ map[k] \in Rate(max) /\ map[k].resetAt > e.at /\ map[k].count < max
      BY <1>3, <2>1 DEF InWindow, Admits
    <3>2. then.count = map[k].count + 1 /\ then.resetAt = map[k].resetAt
      BY <1>4, <2>1, <3>1 DEF Rate
    <3>3. (\A i \in H : HeldAt(q, H, i, max)) /\ Tells(q, H, map[k], max, e.life)
      BY <3>1 DEF Tally
    <3>4. Counts(map[k], then, max, e.at)
      BY <1>2, <3>1, <3>2 DEF Counts
    <3> QED BY <3>3, <3>4, HitInWindow
  <2>2. CASE ~ InWindow(map, k)
    <3>1. k \in DOMAIN map => map[k] \in Rate(max) /\ map[k].resetAt <= e.at
      BY <1>3, <2>2 DEF InWindow, Rate
    <3>2. then.count = 1 /\ then.resetAt = e.at + Window
      BY <1>4, <2>2
    <3> QED BY <1>2, <3>1, <3>2, HitBeginsWindow
  <2> QED BY <2>1, <2>2
<1> QED BY <1>1, <1>5 DEF Tally, then

\* A hit changes no other rate.
LEMMA OthersTally ==
  ASSUME NEW map, NEW k, NEW j, j # k
  PROVE  /\ j \in DOMAIN Hit(map, k) <=> j \in DOMAIN map
         /\ j \in DOMAIN map => Hit(map, k)[j] = map[j]
BY DEF Hit, Put

-----------------------------------------------------------------------------
(* The rates of the backend                                                *)

IpHits(a) == {j \in DOMAIN audit : PassedIp(audit[j].answer) /\ audit[j].address = a}
InstallHits(id) ==
  {j \in DOMAIN audit : PassedRates(audit[j].answer) /\ fetch[audit[j].request].id = id}

RatesOK ==
  /\ Sorted(audit)
  /\ \A a \in Addresses : Tally(audit, IpHits(a), ipRate, a, MaxPerIp, life)
  /\ \A id \in Fetches : Tally(audit, InstallHits(id), installRate, id, MaxPerInstall, life)

LEMMA InitRates == Init => RatesOK
<1> SUFFICES ASSUME Init PROVE RatesOK
  OBVIOUS
<1>1. audit = <<>> /\ DOMAIN audit = {} /\ ipRate = <<>> /\ installRate = <<>>
  BY DEF Init
<1>2. \A a : IpHits(a) = {} /\ InstallHits(a) = {}
  BY <1>1 DEF IpHits, InstallHits
<1>3. \A k : k \notin DOMAIN ipRate /\ k \notin DOMAIN installRate
  BY <1>1
<1>4. Sorted(audit)
  BY <1>1 DEF Sorted
<1> QED BY <1>2, <1>3, <1>4 DEF RatesOK, Tally

\* A step of the same life that handles no request.
LEMMA RatesFrame ==
  ASSUME TypeOK, AuditOK, RatesOK, UNCHANGED <<audit, ipRate, installRate, life>>,
         \A f \in Fetches : At(f, "sent") => fetch'[f] = fetch[f]
  PROVE  RatesOK'
<1>1. \A i \in DOMAIN audit : fetch'[audit[i].request] = fetch[audit[i].request]
  BY EntryType DEF AuditOK
<1>2. \A id : InstallHits(id)' = InstallHits(id)
  BY <1>1 DEF InstallHits
<1>3. \A a : IpHits(a)' = IpHits(a)
  BY DEF IpHits
<1> QED BY <1>2, <1>3 DEF RatesOK

\* The maps of a new life are empty, and it has had no hit.
LEMMA RestartRates ==
  ASSUME TypeOK, AuditOK, RatesOK, Restart
  PROVE  RatesOK'
<1>1. /\ UNCHANGED <<audit, fetch>> /\ life \in Nat /\ life' = life + 1
      /\ ipRate' = <<>> /\ installRate' = <<>>
  BY DEF Restart, TypeOK
<1>2. \A i \in DOMAIN audit : audit[i].life # life'
  BY <1>1, EntryType DEF AuditOK
<1>3. \A k : IpHits(k)' = IpHits(k) /\ InstallHits(k)' = InstallHits(k)
  BY <1>1 DEF IpHits, InstallHits
<1>4. \A k : IpHits(k) \subseteq DOMAIN audit /\ InstallHits(k) \subseteq DOMAIN audit
  BY DEF IpHits, InstallHits
<1>5. \A k : k \notin DOMAIN ipRate' /\ k \notin DOMAIN installRate'
  BY <1>1
<1>6. ASSUME NEW H, H \subseteq DOMAIN audit, NEW map, NEW map2, NEW k, k \notin DOMAIN map2, NEW max,
             Tally(audit, H, map, k, max, life)
      PROVE  Tally(audit, H, map2, k, max, life')
  BY <1>2, <1>6 DEF Tally
<1>7. ASSUME NEW a \in Addresses PROVE Tally(audit, IpHits(a), ipRate', a, MaxPerIp, life')
  <2>1. Tally(audit, IpHits(a), ipRate, a, MaxPerIp, life)
    BY DEF RatesOK
  <2> QED BY <1>4, <1>5, <1>6, <2>1
<1>8. ASSUME NEW id \in Fetches
      PROVE  Tally(audit, InstallHits(id), installRate', id, MaxPerInstall, life')
  <2>1. Tally(audit, InstallHits(id), installRate, id, MaxPerInstall, life)
    BY DEF RatesOK
  <2> QED BY <1>4, <1>5, <1>6, <2>1
<1>9. Sorted(audit')
  BY <1>1 DEF RatesOK
<1> QED BY <1>1, <1>3, <1>7, <1>8, <1>9 DEF RatesOK

LEMMA DeliverRates ==
  ASSUME TypeOK, FetchesOK, AuditOK, RatesOK, NEW f \in Fetches, NEW a \in Addresses, Deliver(f, a)
  PROVE  RatesOK'
<1> DEFINE answer == Answer(f, a)
           entry == [request |-> f, address |-> a, at |-> now, life |-> life,
                     answer |-> answer]
           n == Len(audit) + 1
<1>1. /\ UNCHANGED <<life, fetch>> /\ fetch[f].id \in Fetches
      /\ now \in Nat /\ life \in Nat /\ audit \in Seq(Entry)
      /\ MapOf(ipRate, Addresses, Rate(MaxPerIp))
      /\ MapOf(installRate, Fetches, Rate(MaxPerInstall))
  BY DEF Deliver, Handle, TypeOK, FetchesOK, At
<1>2. /\ ipRate' = IF PassedIp(answer) THEN Hit(ipRate, a) ELSE ipRate
      /\ installRate' = IF PassedRates(answer) THEN Hit(installRate, fetch[f].id)
                        ELSE installRate
      /\ audit' = Append(audit, entry)
  BY DEF Deliver, Handle
<1>3. /\ answer \in Answers
      /\ PassedIp(answer) => Admits(ipRate, a, MaxPerIp)
      /\ PassedRates(answer) => Admits(installRate, fetch[f].id, MaxPerInstall)
  BY AnswerMeans
<1> HIDE DEF answer
<1>4. /\ entry \in Entry /\ entry.request = f /\ entry.address = a
      /\ entry.at = now /\ entry.life = life /\ entry.answer = answer
  BY <1>1, <1>3 DEF Entry
<1> HIDE DEF entry
<1>5. Grows(audit, entry, audit')
  <2>1. \A j \in DOMAIN audit : audit[j].at <= entry.at
    BY <1>4 DEF AuditOK
  <2> QED BY <1>1, <1>2, <1>4, <2>1 DEF Grows, RatesOK
<1>6. Sorted(audit')
  BY <1>5, GrownSorted
<1>7. /\ DOMAIN audit = 1 .. Len(audit) /\ Len(audit) \in Nat /\ DOMAIN audit' = 1 .. Len(audit) + 1
      /\ \A j \in DOMAIN audit : audit'[j] = audit[j]
      /\ audit'[Len(audit) + 1] = entry
  BY <1>5, Grown
<1>8. n = Len(audit) + 1 /\ n \notin DOMAIN audit /\ audit'[n] = entry
      /\ DOMAIN audit' = DOMAIN audit \cup {n}
  BY <1>7
<1> HIDE DEF n
<1>9. ASSUME NEW b \in Addresses
      PROVE  Tally(audit', IpHits(b)', ipRate', b, MaxPerIp, life)
  <2>1. Tally(audit, IpHits(b), ipRate, b, MaxPerIp, life) /\ IpHits(b) \subseteq DOMAIN audit
    BY DEF RatesOK, IpHits
  <2>2. CASE b = a /\ PassedIp(answer)
    <3>1. IpHits(b)' = IpHits(b) \cup {n}
      BY <1>4, <1>7, <1>8, <2>2 DEF IpHits
    <3>2. Tally(audit', IpHits(b) \cup {n}, Hit(ipRate, b), b, MaxPerIp, entry.life)
      <4>1. Admits(ipRate, b, MaxPerIp) /\ Tally(audit, IpHits(b), ipRate, b, MaxPerIp, entry.life)
        BY <1>3, <1>4, <2>1, <2>2
      <4>2. MaxPerIp \in Nat \ {0}
        BY SessionAssumption
      <4> QED BY <1>1, <1>4, <1>5, <1>8, <2>1, <4>1, <4>2, HitTallies
    <3> QED BY <1>2, <1>4, <2>2, <3>1, <3>2
  <2>3. CASE ~ (b = a /\ PassedIp(answer))
    <3>1. IpHits(b)' = IpHits(b)
      BY <1>4, <1>7, <1>8, <2>3 DEF IpHits
    <3>2. /\ b \in DOMAIN ipRate' <=> b \in DOMAIN ipRate
          /\ b \in DOMAIN ipRate => ipRate'[b] = ipRate[b]
      BY <1>2, <2>3, OthersTally
    <3>3. \A j \in IpHits(b) : audit'[j] = audit[j]
      BY <1>7, <2>1
    <3> QED BY <2>1, <3>1, <3>2, <3>3, SameHits
  <2> QED BY <2>2, <2>3
<1>10. ASSUME NEW id \in Fetches
       PROVE  Tally(audit', InstallHits(id)', installRate', id, MaxPerInstall, life)
  <2>1. /\ Tally(audit, InstallHits(id), installRate, id, MaxPerInstall, life)
        /\ InstallHits(id) \subseteq DOMAIN audit
    BY DEF RatesOK, InstallHits
  <2>2. CASE id = fetch[f].id /\ PassedRates(answer)
    <3>1. InstallHits(id)' = InstallHits(id) \cup {n}
      BY <1>1, <1>4, <1>7, <1>8, <2>2 DEF InstallHits
    <3>2. Tally(audit', InstallHits(id) \cup {n}, Hit(installRate, id), id, MaxPerInstall, entry.life)
      <4>1. /\ Admits(installRate, id, MaxPerInstall)
            /\ Tally(audit, InstallHits(id), installRate, id, MaxPerInstall, entry.life)
        BY <1>3, <1>4, <2>1, <2>2
      <4>2. MaxPerInstall \in Nat \ {0}
        BY SessionAssumption
      <4> QED BY <1>1, <1>4, <1>5, <1>8, <2>1, <4>1, <4>2, HitTallies
    <3> QED BY <1>2, <1>4, <2>2, <3>1, <3>2
  <2>3. CASE ~ (id = fetch[f].id /\ PassedRates(answer))
    <3>1. InstallHits(id)' = InstallHits(id)
      BY <1>1, <1>4, <1>7, <1>8, <2>3 DEF InstallHits
    <3>2. /\ id \in DOMAIN installRate' <=> id \in DOMAIN installRate
          /\ id \in DOMAIN installRate => installRate'[id] = installRate[id]
      BY <1>2, <2>3, OthersTally
    <3>3. \A j \in InstallHits(id) : audit'[j] = audit[j]
      BY <1>7, <2>1
    <3> QED BY <2>1, <3>1, <3>2, <3>3, SameHits
  <2> QED BY <2>2, <2>3
<1> QED BY <1>1, <1>6, <1>9, <1>10 DEF RatesOK

LEMMA NextRates == IInv /\ RatesOK /\ [Next]_vars => RatesOK'
<1> SUFFICES ASSUME IInv, RatesOK, [Next]_vars PROVE RatesOK'
  OBVIOUS
<1> USE DEF IInv
<1>1. ASSUME NEW f \in Fetches,
             ReadId(f) \/ SaveId(f) \/ ReadKey(f) \/ SaveKey(f) \/ Register(f) \/ Sign(f)
      PROVE  RatesOK'
  <2>1. UNCHANGED <<audit, ipRate, installRate, life>> /\ ~ At(f, "sent")
    BY <1>1 DEF ReadId, SaveId, ReadKey, SaveKey, Register, Sign, backend, At
  <2>2. \A g \in Fetches : g # f => fetch'[g] = fetch[g]
    BY <1>1 DEF ReadId, SaveId, ReadKey, SaveKey, Register, Sign, Goes, TypeOK
  <2> QED BY <2>1, <2>2, RatesFrame
<1>2. ASSUME NEW f \in Fetches, NEW a \in Addresses, Deliver(f, a) PROVE RatesOK'
  BY <1>2, DeliverRates
<1>3. CASE Restart
  BY <1>3, RestartRates
<1>4. CASE Tick
  BY <1>4, RatesFrame DEF Tick, backend
<1>5. CASE UNCHANGED vars
  BY <1>5, RatesFrame DEF vars, backend
<1> QED BY <1>1, <1>2, <1>3, <1>4, <1>5 DEF Next

LEMMA HeldRates == IInv /\ RatesOK => RatesHold
<1> SUFFICES ASSUME IInv, RatesOK, NEW i \in DOMAIN audit
             PROVE  LET byIp(j) == PassedIp(audit[j].answer) /\ audit[j].address = audit[i].address
                        byInstall(j) == /\ PassedRates(audit[j].answer)
                                        /\ fetch[audit[j].request].id = fetch[audit[i].request].id
                        Held(P(_), max) ==
                          P(i) => /\ Cardinality(Within(i, P)) < 2 * max
                                  /\ Quiet(i, P) => Cardinality(Within(i, P)) <= max
                    IN  Held(byIp, MaxPerIp) /\ Held(byInstall, MaxPerInstall)
  BY DEF RatesHold
<1> DEFINE a == audit[i].address
           id == fetch[audit[i].request].id
           WithinIp == {j \in i .. Len(audit) :
                          /\ audit[j].life = audit[i].life /\ audit[j].at < audit[i].at + Window
                          /\ PassedIp(audit[j].answer) /\ audit[j].address = a}
           WithinInstall == {j \in i .. Len(audit) :
                          /\ audit[j].life = audit[i].life /\ audit[j].at < audit[i].at + Window
                          /\ PassedRates(audit[j].answer) /\ fetch[audit[j].request].id = id}
<1>1. audit \in Seq(Entry) /\ DOMAIN audit = 1 .. Len(audit) /\ Len(audit) \in Nat
  BY DEF IInv, TypeOK
<1>2. a \in Addresses /\ id \in Fetches
  <2>1. audit[i] \in Entry /\ audit[i].request \in Fetches
    BY EntryType DEF IInv
  <2> QED BY <2>1 DEF IInv, FetchesOK, AuditOK, At, Entry
<1>3. WithinIp = Stretch(audit, IpHits(a), i)
  BY <1>1 DEF Stretch, IpHits
<1>4. WithinInstall = Stretch(audit, InstallHits(id), i)
  BY <1>1 DEF Stretch, InstallHits
<1>5. PassedIp(audit[i].answer) => HeldAt(audit, IpHits(a), i, MaxPerIp)
  BY <1>2 DEF RatesOK, Tally, IpHits
<1>6. PassedRates(audit[i].answer) => HeldAt(audit, InstallHits(id), i, MaxPerInstall)
  BY <1>2 DEF RatesOK, Tally, InstallHits
<1>7. (\A j \in 1 .. i - 1 :
         ~ (/\ audit[j].life = audit[i].life /\ audit[i].at < audit[j].at + Window
            /\ PassedIp(audit[j].answer) /\ audit[j].address = a))
        => Begins(audit, IpHits(a), i)
  BY <1>1 DEF Begins, IpHits
<1>8. (\A j \in 1 .. i - 1 :
         ~ (/\ audit[j].life = audit[i].life /\ audit[i].at < audit[j].at + Window
            /\ PassedRates(audit[j].answer) /\ fetch[audit[j].request].id = id))
        => Begins(audit, InstallHits(id), i)
  BY <1>1 DEF Begins, InstallHits
<1>9. PassedIp(audit[i].answer) =>
        /\ Cardinality(WithinIp) < 2 * MaxPerIp
        /\ (\A j \in 1 .. i - 1 :
              ~ (/\ audit[j].life = audit[i].life /\ audit[i].at < audit[j].at + Window
                 /\ PassedIp(audit[j].answer) /\ audit[j].address = a))
             => Cardinality(WithinIp) <= MaxPerIp
  BY <1>3, <1>5, <1>7 DEF HeldAt
<1>10. PassedRates(audit[i].answer) =>
        /\ Cardinality(WithinInstall) < 2 * MaxPerInstall
        /\ (\A j \in 1 .. i - 1 :
              ~ (/\ audit[j].life = audit[i].life /\ audit[i].at < audit[j].at + Window
                 /\ PassedRates(audit[j].answer) /\ fetch[audit[j].request].id = id))
             => Cardinality(WithinInstall) <= MaxPerInstall
  BY <1>4, <1>6, <1>8 DEF HeldAt
<1> QED BY <1>9, <1>10 DEF Within, Quiet

\* However requests are timed, an address or an install gets past its check, in one life of
\* the backend, less than twice its limit in any stretch of time as long as the window, and
\* no more than the limit if it was quiet before (sessionInit.ts, consumeRateLimitToken).
THEOREM RatesAreHeld == Spec => []RatesHold
<1>1. Init => IInv /\ RatesOK
  BY InitHolds, InitRates
<1>2. IInv /\ RatesOK /\ [Next]_vars => (IInv /\ RatesOK)'
  BY NextHolds, NextRates
<1>3. IInv /\ RatesOK => RatesHold
  BY HeldRates
<1> QED BY <1>1, <1>2, <1>3, PTL DEF Spec
=============================================================================
