---------------------------- MODULE SessionInit ----------------------------
(***************************************************************************)
(* How an extension gets a session: fetchSessionInitToken                  *)
(* (packages/extension/src/background/token.ts), which registers the       *)
(* install and then sends a signed request, and the backend's two handlers *)
(* (packages/backend/src/sessionInit.ts), which keep the registered keys,  *)
(* the used nonces and the rate limits in memory.                          *)
(*                                                                         *)
(* The network may lose a request or its answer, and may deliver a session *)
(* request any number of times.  A fetch makes up an install id, a key pair *)
(* and a nonce of its own: the fetch itself stands for each of the three.  *)
(***************************************************************************)
EXTENDS Integers, Sequences, FiniteSets

CONSTANTS
  Fetches,        \* calls of fetchSessionInitToken
  Browsers,       \* browsers, each with a chrome.storage.local
  BrowserOf,      \* the browser of each fetch
  Nothing,        \* what is not stored
  Addresses,      \* IP addresses
  Configs,        \* the environments the backend may be started with
  Skews,          \* how far a client's clock may be from the server's
  MaxAge,         \* REQUEST_MAX_AGE_MS
  NonceTtl,       \* NONCE_TTL_MS
  Window,         \* RATE_LIMIT_WINDOW_MS
  MaxPerIp,       \* RATE_LIMIT_MAX_PER_IP
  MaxPerInstall,  \* RATE_LIMIT_MAX_PER_INSTALL_ID
  Lifetime,       \* of a session credential, five minutes
  Second,         \* the clock's ticks in a second
  MaxTime,        \* bound: the clock
  MaxRequests,    \* bound: session requests the backend handles
  MaxLives        \* bound: starts of the backend

ASSUME SessionAssumption ==
  /\ BrowserOf \in [Fetches -> Browsers] /\ Nothing \notin Fetches
  /\ Skews \subseteq Int /\ Configs \subseteq [minting: BOOLEAN, ready: BOOLEAN]
  /\ MaxAge \in Nat \ {0} /\ NonceTtl \in Nat \ {0} /\ Window \in Nat \ {0}
  /\ MaxPerIp \in Nat \ {0} /\ MaxPerInstall \in Nat \ {0}
  /\ Lifetime \in Nat \ {0} /\ Second \in Nat \ {0}
  /\ MaxTime \in Nat /\ MaxRequests \in Nat /\ MaxLives \in Nat \ {0}

VARIABLES
  now,          \* Date.now() at the backend
  life,         \* how often the backend has been started
  config,       \* its environment: mints sessions, has a websocket URL
  keys,         \* installPublicKeys
  nonces,       \* usedNonces: when each of them expires
  ipRate,       \* ipRateLimitMap
  installRate,  \* installRateLimitMap
  audit,        \* history: the session requests handled, in order
  storage,      \* chrome.storage.local of each browser
  fetch         \* where each fetch is, and what it holds

backend == <<life, config, keys, nonces, ipRate, installRate, audit>>
vars == <<now, backend, storage, fetch>>

-----------------------------------------------------------------------------
(* The backend's maps                                                      *)

Put(map, key, value) == [k \in DOMAIN map \cup {key} |-> IF k = key THEN value ELSE map[k]]

\* Mutant: a nonce counts from the moment its request was signed.
ConsumeFromSigning(map, f) ==
  Put([n \in {m \in DOMAIN map : map[m] > now} |-> map[n]], f, fetch[f].timestamp + NonceTtl)

\* cleanupExpiredNonces and the rest of consumeNonce: the nonce is remembered from
\* now on.
Unexpired(map) == [n \in {m \in DOMAIN map : map[m] > now} |-> map[n]]
Consume(map, f) == Put(Unexpired(map), f, now + NonceTtl)

\* Mutant: one hit too many.
AdmitsOneMore(map, key, max) ==
  key \notin DOMAIN map \/ map[key].resetAt <= now \/ map[key].count <= max

\* consumeRateLimitToken: whether a hit is let through, and the map after one that is.
InWindow(map, key) == key \in DOMAIN map /\ map[key].resetAt > now
Admits(map, key, max) == InWindow(map, key) => map[key].count < max

Hit(map, key) ==
  Put(map, key, IF InWindow(map, key) THEN [map[key] EXCEPT !.count = @ + 1]
                ELSE [count |-> 1, resetAt |-> now + Window])

-----------------------------------------------------------------------------
(* The session-init handler                                                *)

Distance(a, b) == IF a >= b THEN a - b ELSE b - a
Stale(f) == Distance(now, fetch[f].timestamp) > MaxAge

Replayed(f) == f \in DOMAIN Unexpired(nonces)

\* The checks of a request, in the handler's order, and the answer each gives
\* when it is the first to fail.
Answer(f, address) ==
  LET id == fetch[f].id
  IN  IF ~config.minting THEN "service_disabled"
      ELSE IF ~Admits(ipRate, address, MaxPerIp) THEN "rate_limited_ip"
      ELSE IF ~Admits(installRate, id, MaxPerInstall) THEN "rate_limited_install"
      ELSE IF Stale(f) THEN "stale_timestamp"
      ELSE IF Replayed(f) THEN "replay_detected"
      ELSE IF id \notin DOMAIN keys THEN "unknown_install"
      ELSE IF keys[id] # fetch[f].key THEN "invalid_auth"
      ELSE IF ~config.ready THEN "not_ready"
      ELSE "minted"

\* How far a request got.
PassedIp(answer) == answer \notin {"service_disabled", "rate_limited_ip"}
PassedRates(answer) == PassedIp(answer) /\ answer # "rate_limited_install"
UsedNonce(answer) == answer \in {"unknown_install", "invalid_auth", "not_ready", "minted"}

\* The handler for one copy of the request of f: what it counts and remembers
\* on its way to the answer.
Handle(f, address) ==
  LET answer == Answer(f, address)
  IN  /\ Len(audit) < MaxRequests
      /\ ipRate' = IF PassedIp(answer) THEN Hit(ipRate, address) ELSE ipRate
      /\ installRate' = IF PassedRates(answer) THEN Hit(installRate, fetch[f].id)
                        ELSE installRate
      /\ nonces' = IF UsedNonce(answer) THEN Consume(nonces, f)
                   ELSE IF answer = "replay_detected" THEN Unexpired(nonces) ELSE nonces
      /\ audit' = Append(audit, [request |-> f, address |-> address, at |-> now,
                                 life |-> life, answer |-> answer])
      /\ UNCHANGED <<now, life, config, keys, storage>>

\* Mutant: the time a credential expires is rounded up.
RoundedUp(at) == ((at + Lifetime + Second - 1) \div Second) * Second

\* When the credential minted at a time expires: in whole seconds, rounded down.
Expiry(at) == ((at + Lifetime) \div Second) * Second

\* verifySessionCredential at time t, for a credential minted earlier.
Verifies(at, t) == t < Expiry(at)

-----------------------------------------------------------------------------
(* fetchSessionInitToken                                                   *)

At(f, pc) == fetch[f].pc = pc
Goes(f, pc) == fetch' = [fetch EXCEPT ![f].pc = pc]
Browser(f) == storage[BrowserOf[f]]
Store(f, field) == storage' = [storage EXCEPT ![BrowserOf[f]][field] = f]

\* getOrCreateInstallId, up to its first await and after it: two fetches may
\* both find nothing stored.
ReadId(f) ==
  /\ At(f, "new")
  /\ fetch' = [fetch EXCEPT ![f].id = IF Browser(f).id = Nothing THEN f ELSE Browser(f).id,
                            ![f].pc = IF Browser(f).id = Nothing THEN "saveId" ELSE "key"]
  /\ UNCHANGED <<now, backend, storage>>

SaveId(f) ==
  /\ At(f, "saveId") /\ Store(f, "id") /\ Goes(f, "key")
  /\ UNCHANGED <<now, backend>>

\* getOrCreateInstallKeypair, in the same way.
ReadKey(f) ==
  /\ At(f, "key")
  /\ fetch' = [fetch EXCEPT ![f].key = IF Browser(f).key = Nothing THEN f ELSE Browser(f).key,
                            ![f].pc = IF Browser(f).key = Nothing THEN "saveKey" ELSE "register"]
  /\ UNCHANGED <<now, backend, storage>>

SaveKey(f) ==
  /\ At(f, "saveKey") /\ Store(f, "key") /\ Goes(f, "register")
  /\ UNCHANGED <<now, backend>>

\* Mutant: a registered key is overwritten.
MayRegisterAgain(id) == TRUE

\* createInstallRegisterHandler registers an install only once, whatever the key.
MayRegister(id) == id \notin DOMAIN keys

\* Where a fetch goes whose registration is refused: registerInstall throws.
AfterRefusal == "refused"

\* registerInstall, with the handler it calls; the answer may be lost.
Register(f) ==
  /\ At(f, "register")
  /\ LET id == fetch[f].id
     IN  \/ /\ MayRegister(id) /\ keys' = Put(keys, id, fetch[f].key)
            /\ \/ fetch' = [fetch EXCEPT ![f].pc = "sign", ![f].registered = life]
               \/ Goes(f, "failed")
         \/ /\ ~MayRegister(id) /\ UNCHANGED keys
            /\ fetch' = [fetch EXCEPT ![f].pc = AfterRefusal, ![f].registered = life]
         \/ UNCHANGED keys /\ Goes(f, "failed")
  /\ UNCHANGED <<now, life, config, nonces, ipRate, installRate, audit, storage>>

\* The request is signed, with the client's time, and sent.
Sign(f) ==
  /\ At(f, "sign")
  /\ \E skew \in Skews :
       fetch' = [fetch EXCEPT ![f].pc = "sent", ![f].timestamp = now + skew]
  /\ UNCHANGED <<now, backend, storage>>

\* A copy of the request arrives, any number of times: what the client then
\* makes of an answer that reaches it is not part of this module.
Deliver(f, address) == At(f, "sent") /\ Handle(f, address) /\ UNCHANGED fetch

-----------------------------------------------------------------------------

\* The backend starts again, with nothing in memory, perhaps with another
\* environment.
Restart ==
  /\ life < MaxLives /\ life' = life + 1
  /\ config' \in Configs
  /\ keys' = <<>> /\ nonces' = <<>> /\ ipRate' = <<>> /\ installRate' = <<>>
  /\ UNCHANGED <<now, audit, storage, fetch>>

Tick ==
  /\ now < MaxTime /\ now' = now + 1
  /\ UNCHANGED <<backend, storage, fetch>>

Init ==
  /\ now = 0 /\ life = 1 /\ config \in Configs
  /\ keys = <<>> /\ nonces = <<>> /\ ipRate = <<>> /\ installRate = <<>>
  /\ audit = <<>>
  /\ storage = [b \in Browsers |-> [id |-> Nothing, key |-> Nothing]]
  /\ fetch = [f \in Fetches |-> [pc |-> "new", id |-> Nothing, key |-> Nothing,
                                 timestamp |-> 0, registered |-> 0]]

Next ==
  \/ \E f \in Fetches : ReadId(f) \/ SaveId(f) \/ ReadKey(f) \/ SaveKey(f)
                        \/ Register(f) \/ Sign(f)
  \/ \E f \in Fetches, a \in Addresses : Deliver(f, a)
  \/ Restart \/ Tick

Spec == Init /\ [][Next]_vars

-----------------------------------------------------------------------------
(* Properties                                                              *)

MapOf(map, S, T) == DOMAIN map \subseteq S /\ \A k \in DOMAIN map : map[k] \in T

Answers == {"service_disabled", "rate_limited_ip", "rate_limited_install", "stale_timestamp",
            "replay_detected", "unknown_install", "invalid_auth", "not_ready", "minted"}
Entry == [request: Fetches, address: Addresses, at: Nat, life: Nat, answer: Answers]
Places == {"new", "saveId", "key", "saveKey", "register", "sign", "sent", "refused",
           "failed"}
Fetch == [pc: Places, id: Fetches \cup {Nothing}, key: Fetches \cup {Nothing},
          timestamp: Int, registered: Nat]
Rate(max) == [count: 1 .. max, resetAt: Nat]

\* The type invariant; a rate limit is never counted beyond.
TypeOK ==
  /\ now \in Nat /\ life \in Nat \ {0}
  /\ config \in Configs
  /\ MapOf(keys, Fetches, Fetches) /\ MapOf(nonces, Fetches, Nat)
  /\ MapOf(ipRate, Addresses, Rate(MaxPerIp))
  /\ MapOf(installRate, Fetches, Rate(MaxPerInstall))
  /\ audit \in Seq(Entry)
  /\ storage \in [Browsers -> [id: Fetches \cup {Nothing}, key: Fetches \cup {Nothing}]]
  /\ fetch \in [Fetches -> Fetch]

Minted(i) == audit[i].answer = "minted"

\* Two sessions minted for copies of one request, by a backend that did not
\* restart in between, are at least a nonce's time apart.
MintedApart ==
  \A i, j \in DOMAIN audit :
    /\ i < j /\ Minted(i) /\ Minted(j)
    /\ audit[i].request = audit[j].request /\ audit[i].life = audit[j].life
    => audit[j].at >= audit[i].at + NonceTtl

\* A request is minted only near the time it was signed for.
MintedFresh ==
  \A i \in DOMAIN audit :
    Minted(i) => Distance(audit[i].at, fetch[audit[i].request].timestamp) <= MaxAge

\* The request that minted entry i mints entry j, too, later in the same life.
Repeats(i, j) ==
  /\ i < j /\ Minted(i) /\ Minted(j)
  /\ audit[i].request = audit[j].request /\ audit[i].life = audit[j].life

\* When a nonce is kept for at least the age a request may have (by default both are a
\* minute, config.ts), a request mints a second session only if it minted the first
\* no later than its timestamp, which is a client's clock that ran ahead, and never a fourth.
MintedFew ==
  NonceTtl >= MaxAge =>
    \A i, j \in DOMAIN audit : Repeats(i, j) =>
      /\ audit[i].at <= fetch[audit[i].request].timestamp
      /\ ~ \E k, l \in DOMAIN audit : Repeats(j, k) /\ Repeats(k, l)

\* All the sessions a backend mints for an install, until it restarts, answer
\* requests signed with one key, whatever other fetches register meanwhile.
OneKeyPerInstall ==
  \A i, j \in DOMAIN audit :
    /\ Minted(i) /\ Minted(j) /\ audit[i].life = audit[j].life
    /\ fetch[audit[i].request].id = fetch[audit[j].request].id
    => fetch[audit[i].request].key = fetch[audit[j].request].key

\* A client that registered is known by the key it signs with, unless the
\* backend has restarted since.
RegisteredIsKnown ==
  \A i \in DOMAIN audit :
    audit[i].answer \in {"unknown_install", "invalid_auth"} =>
      audit[i].life > fetch[audit[i].request].registered

\* A session is honoured for its five minutes, to within a second and never longer.
CredentialLifetime ==
  \A i \in DOMAIN audit : \A t \in audit[i].at .. audit[i].at + Lifetime + Second :
    Minted(i) => /\ Verifies(audit[i].at, t) => t < audit[i].at + Lifetime
                 /\ t <= audit[i].at + Lifetime - Second => Verifies(audit[i].at, t)

\* The entries from i on, and less than a window later, of which P holds.
Within(i, P(_)) ==
  {j \in i .. Len(audit) : /\ audit[j].life = audit[i].life
                           /\ audit[j].at < audit[i].at + Window /\ P(j)}

\* No hit of which P holds in the window's time before i.
Quiet(i, P(_)) ==
  ~ \E j \in 1 .. i - 1 :
      audit[j].life = audit[i].life /\ audit[i].at < audit[j].at + Window /\ P(j)

\* The limits are counted in windows that begin with a hit.  So, from one life
\* of the backend, an address or an install that was quiet gets no more than its
\* limit past the check in the next window's time, and in any stretch of time as
\* long as a window, wherever it begins, less than twice its limit.  (A restart
\* empties the maps: the next life counts anew.)
RatesHold ==
  \A i \in DOMAIN audit :
    LET byIp(j) == PassedIp(audit[j].answer) /\ audit[j].address = audit[i].address
        byInstall(j) == /\ PassedRates(audit[j].answer)
                        /\ fetch[audit[j].request].id = fetch[audit[i].request].id
        Held(P(_), max) ==
          P(i) => /\ Cardinality(Within(i, P)) < 2 * max
                  /\ Quiet(i, P) => Cardinality(Within(i, P)) <= max
    IN  Held(byIp, MaxPerIp) /\ Held(byInstall, MaxPerInstall)

=============================================================================
