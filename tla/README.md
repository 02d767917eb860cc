# Live Browser Agents: specifications and proofs

TLA+ specifications of the parts of this repository in which order, failure and
concurrency decide whether the program is right, the TLC runs that check them on
small instances, and TLAPS proofs of what matters most. Every definition is
translated from the code under `packages/`; `PROJECT.json` lists, for each, the
file and lines it stands for, for each property a mutant of the code that the
property catches, and for each hazard the property that watches it.

## 1. The system

A Chrome extension takes a user's speech, text and clicks; a backend mints
sessions for it and runs an agent graph that plans and acts on pages.

| component | state it keeps | operations | how it meets the others |
|---|---|---|---|
| agent graph (`orchestrator/src/graph`) | the LangGraph channels of `state.ts`: snapshot, tasks, cursor, decision, verdict, counters, status | one function per node, routed by `build.ts`, started by `runOrchestration` | calls the executor port and memory, publishes on the event bus; started by the backend route |
| action executor port (`ports/actionExecutor.ts`) | the page | `snapshot`, `execute` | called by perception, workers and the verifier's rollback |
| memory: writer, store, consolidation, retriever (`memory/`) | nodes, edges, supersession; the pause flag | `recordEvents`, `retrieve`, `forget`, `export`, `consolidate` | called by the graph's nodes and the backend's memory routes |
| knowledge graph in Postgres (`memory/postgresGraphStore.ts`) | the pool's clients, the promise of the migrations; tables `kg_node` and `kg_edge` | the port of the store, a batch as one transaction | called like the in-memory store; the database |
| event bus (`events.ts`) | history, finished runs and subscribers per run | `publish`, `subscribe`, `history` | written by the nodes, read by the event stream |
| backend: session (`sessionInit.ts`, `sessionAuth.ts`, `app.ts`) | install keys, used nonces, two rate-limit maps | register, session-init, verify a credential | called over HTTP by the extension |
| backend: runs (`orchestrateRoutes.ts`, `orchestratorRuntime.ts`) | running sessions, their buses | start a run, stream its events, memory routes | calls the graph and memory |
| extension: token (`token.ts`) | install id and key pair in `chrome.storage` | fetch a session | called by `start()` |
| extension: background (`background/orchestrator.ts`) | connection state, timer, action queue, executed and cancelled keys, pending requests, microphone chunks in flight | the popup's messages, the transport's callbacks, the content script's results | messages to and from popup and page; transport; storage |
| extension: transport (`transport.ts`, `index.ts`) | the socket, `setupComplete`, `connectPromise`, the transport in use | `connect`, `disconnect`, `send`; socket events | calls back into the background |
| extension: replay buffer (`storage.ts`) | events in `chrome.storage` | append, load, clear | called by the background |
| extension: content script (`content/`) | cancelled keys of the page | click, cancel, snapshot | messages from and to the background |
| popup (`popup/index.ts`) and the background's `micActive` | the checkbox, the media stream, playback nodes; `micActive` | click on the microphone, state messages, audio chunks, barge-in | messages to and from the background; `getUserMedia` |
| audio, snapshot scoring, schemas, PII, crypto, configuration | none, or none that outlives a call | | |

What is hard in it:

- JavaScript handlers are interrupted at every `await`. Checks made before an await
  (queue limit, executed keys, connection state, replay buffer, install id) are used after it.
- Sockets, timers, promises and storage calls of one attempt outlive it and meet
  the state of the next.
- The worker, the popup and a page can each end and begin again while the others live on.
- Statements of two transactions see different moments of the database, and wait for each other's rows.
- Actions on a page cannot all be undone, may fail after having happened, and may
  lead elsewhere than intended; the graph retries, rolls back and goes on.
- Requests may be delivered twice or late, and the backend forgets everything when it restarts.
- Budgets, attempts, windows, times to live and buffers are compared at boundaries.

What makes each component correct:

- *agent graph*: no action without its votes, none on a page known to be blocked, tasks in plan
  order, budgets that bound all calls, only verified effects left behind, every run ends.
- *action dispatch*: every action answered, honestly, at most once, in order, and never after its
  cancellation.
- *session*: a request mints a session only while fresh, and again only after the nonce's time; one key per
  install; limits hold; credentials expire.
- *connection*: an event is delivered or kept, once; a stop is final; a step of `start()` that is shown is taken.
- *event stream*: a subscriber sees every event of its run once and in order.
- *memory*: one node per natural key, no edge to a deleted node, nothing of a forgotten domain left as earlier calls stored it, an
  action in one episode, a preference with one value, no link lost in a merge.
- *store in Postgres*: each call applied as a whole or not at all, in some order; every call settles.
- *microphone*: checkbox, background and capture agree; no stream that cannot be stopped; a
  barge-in silences what was said before it.

## 2. The modules

    AgentGraph        <- MCAgentGraph        AgentGraphProofs
    ActionDispatch    <- MCActionDispatch    ActionDispatchProofs
      Executor                               (abstract: ActionDispatch implements it)
    SessionInit       <- MCSessionInit       SessionInitProofs
    Connection        <- MCConnection        ConnectionProofs
    KnowledgeGraph    <- MCKnowledgeGraph
      Consolidation   <- MCConsolidation     KnowledgeGraphProofs (proves about both)
    RunEvents         <- MCRunEvents         RunEventsProofs
      EventLog                               (abstract: RunEvents implements it)
    PostgresStore     <- MCPostgresStore     PostgresStoreProofs
      AtomicStore                            (abstract: PostgresStore implements it)
    MicCapture        <- MCMicCapture        MicCaptureProofs

The `MC` modules only define constants and symmetry for TLC. Definitions headed
*Mutant* are altered copies of the definition that follows them; nothing in the
models uses them. The components meet as follows: `RunEvents` has the phases of a run of
`AgentGraph` and none of its data; `Connection` has the sessions that `SessionInit` mints as a
promise that settles; `PostgresStore` stands behind the same port as the maps of
`KnowledgeGraph`, and `AtomicStore` says what either may promise.

### AgentGraph

One action per node: `Perception` and `Researcher` (in parallel), `Join`,
`PlannerPlan`/`PlannerAdvance`/`PlannerStop`/`PlannerDone` (the planner's exits),
`Critic`, `Worker`, `VerifierPass`/`VerifierFail`, `Memory`. `frontier` is the set of
nodes LangGraph still has to run in the superstep; a node's partial update and the
edge it takes are one step, because LangGraph applies updates at the end of the
superstep. `NodeThrows` is a rejected await in any node that has one: the
checkpointed state stays, the page may have changed already. `Rerun` is a second
`runOrchestration` of the session, with the default checkpointer (a fresh state)
or a shared one (`durable`). `Outcomes` says what may become of an executor's call: it
meets the expectation or not, it leads to a blocked page or not, and its result shows where the page
is or not. The last matters because the verifier knows a redirect by `postState?.url` only (nodes.ts:279), which the
port does not ask for: the repository's executor gives none after a fill or a submit (actionExecutor.ts:105, 129), and
the result of a rollback is not looked at. `unseen` is history: the page is on a blocked address that no
snapshot and no result has shown. An intent is what `decomposeIntent`'s patterns find in it.

### ActionDispatch

`rt` is the closure of `createRuntimeOrchestrator` as far as actions go: queue,
processor flag, executed and cancelled keys, pending and in-flight maps. The
operators `Clean`, `Kick`, `TakeNext`, `Expect`, `AfterDispatch` are the code's
helpers as functions of it, and an action is the code between two awaits:
`ReceiveExecute`, `UrlKnown`, `ProcessorResumes`, `ReceiveCancel`, `HandlerResumes`,
`ContentResult`. The page is `PageHandles` (its result may overtake the answer to
the call) and `PageUnreachable`; `PageChanges` shows the next page, whose content script starts with
no cancelled keys. What `policy.ts` makes of the URL is left open (`UrlKnown` may refuse or let pass): it judges the
URL a query of the tabs returned, and the page may be another one when the handler resumes and again when
the action reaches it. `Restart` ends the worker: `rt` is lost, its callers get an error, and the
messages it has sent are still handled.

The content script is injected before each message. Injecting it twice is taken to leave
one listener, as the second copy of a classic script with top-level `const` ends in an error.

`Executor` is what queue and processor promise: the actions wait in one line, the first is sent when the one before
has been answered, each is sent once, and an answer is final. It has no keys, clocks, maps or flags, and its line is a relation
(who waits ahead of whom). The refinement mapping is `Promise`: `StageOf` reads the stage of an action off the closure
(answered, being sent, in the queue, let in or not), `ahead` is the order of the queue, `way` the calls that have not settled, and
`seen` what the page has handled. `ServesInOrder` is the refinement.

### SessionInit

A fetch goes through the awaits of `fetchSessionInitToken` (`Prepare`, `Register`,
`Sign`); `Deliver` hands a signed request to the session-init handler, at any time
after it was sent and any number of times; `Restart` empties the backend's maps and
picks a new environment. `audit` is the history the properties speak of. The clock
of the server never goes back; a client's differs from it by a constant skew.
Requests whose payload is malformed change nothing and are left out.

### Connection

`bg` is the rest of the background's closure together with the transport's: state,
timers, the starts in progress, the socket, `setupComplete`, `connectPromise`.
`socks` are the websockets themselves, which live on when the closure has gone over
to another one. `Begin`, `TokenArrives`, `GeminiConnect`, `SetupCompletes`, `Replay` are
`start()` cut at the awaits that suspend; `SocketFails` is `onerror` and then `onclose`,
as browsers deliver them; a failed Gemini connect continues with the stub
(`Fallback`). `queue` holds the unanswered calls of `chrome.storage`. Chrome serves an
extension's storage calls in order, so the call and the code that awaited it are
one step at the head of the queue (`StorageReplies`); the value read and the calls
that come later are the same as when the reply is delayed. `Restart` is the
service worker being ended and started again.

The timer's delay is left out (a timer may fire at any time), and with it
`reconnectAttempt`, which sets nothing else. The resumption handle is passed on
and never read; only the wait for it to be stored is modelled. A microphone chunk
that arrives while the microphone is off is ignored, and is not an event here.

### KnowledgeGraph

`nodes` and `edges` are the maps of one install's tenant. Installs share nothing, so one
is enough. A call of the store is atomic (`applyBatch` says so itself), and all code
between two calls works on what the calls returned. So an action is one store
call and the code up to the next: `RecordEvents` begins a write, whose events are laid
out as the calls they lead to (`CallsFor`); `Primary`, `Anchor`, `Supersede`, `RollUp`,
`ResolveEntity`, `Corefer` take them one by one with the write's local maps in
`write[w]`; `Commit` is the batch, `WriteFails` a rejected await, after which nothing is
written. `ForgetNode` and `ForgetEdge` are one call; forgetting a domain is three
(`ListDomain`, `FindDomain`, `DeleteListed`), a time range two. `before`, `origin`, `makers`, `gone` and
`forgot` are history: which calls had ended when another began, who stored the node that
is there, who ever put it there when it was missing, who was at work when a node was
removed, what had ended when a domain was listed for forgetting. They let a property say
*these calls overlapped*.

The weight of a node (importance, confidence, times and counts of access) is left out, and
so is the retriever's `touch`. An embedding is represented by the label it is made
from: labels that embed alike are one label, `Related` holds the pairs that are close. Labels
are what the PII gate leaves of them. `refs` of an event are never set by the callers in
this repository. A time range is everything up to now. The three results `vectorSearch`
is limited to are more than the alike entities of an instance.

### Consolidation

It extends `KnowledgeGraph` with `job`, the locals of each `consolidate()`, and the six
jobs in their order. A job lists what it works on, and then reads and writes piece by
piece: `Ready` is the state between the read and the batch that uses it, which is where
writes, requests to forget and a second consolidation get in between. Which nodes have decayed
or expired and which preference is the most confident are free choices. `JobFails` leaves
what was written before. `Where` is JavaScript's `filter` and `GroupsBy` the maps that the jobs
collect nodes in. The name of a consolidated episode is one of the names there are
(`ConsolidationAssumption`), so that its node is a node.

### RunEvents

`history`, `finished` and `subscribers` are the bus's maps. `Publish` is `publish` with every callback
it calls: append, trim, mark the run, write to each stream, and end the streams
at the end of the run, which unsubscribes them. A run is `Start` (the request), its two
parallel nodes (`NodeStarts`, `NodeFinishes`), the sequential rest (`NodeWorks`), and `Finish` or
`Fail`. When one parallel node rejects, the run is over and the other one still publishes.
`Open` is the stream's handler, with its refusals; `Close` the end of its connection. `log`, all
that was published, is history.

`EventLog` is the promise: a log per run, and readers that are given its newest entries and
then each later one as it is appended. It has no subscribers and no flags.

### PostgresStore

A call takes a client of the pool, waits for the migrations, and issues its statements:
`BEGIN`, the upserts in the order of the batch, the two deletions, `COMMIT` or `ROLLBACK`
(`Statements`). The database is modelled from how the code uses it. No statement asks for
another isolation level, so it is READ COMMITTED: a statement works on what was
committed when it began (`Issue`), takes its rows one by one (`TakeRow`), waits for the
transaction that holds one, and looks at what that one left. A call that waits in a circle is aborted
(`Deadlocked`). Any database call may be rejected (`QueryFails`, `ConnectFails`), and the answer to `COMMIT` may be lost after it took
effect. A single statement is its own transaction.

`AtomicStore` is the port of `graphStore.ts`: a call is applied as a whole or rejected. With `TornDeletes` a
deletion may pass over rows that calls wrote while it ran. `AppliesBatches` says that the code
implements that; `Serializable` says what the port promises without it. The in-memory store, whose calls
are atomic, would implement it with `TornDeletes = FALSE`.

### MicCapture

The popup's page (checkbox, `mediaStream`, playback nodes), the pending calls of `getUserMedia`, the streams
whose tracks were not stopped, the background's `micActive`, and the two queues of messages between them, which
Chrome delivers in order. The popup may close and be opened again; the worker may end, and is woken by
the next message. `excuses` is history: the interleavings after which checkbox and capture are known to
part. The properties are stated for behaviours without them, so that each excuse is a named finding
and everything else must hold.

## 3. The runs

| run | what it shows | bounds |
|---|---|---|
| `agent_graph` | types, budgets, rollbacks, quorum, blocked pages, plan order, termination | four intents that yield one to four tasks; ample budget and one tight in each dimension; two snapshots; two attempts; two runs; one failing call |
| `action_dispatch` | honest answers, cancellation, duplicates | two actions with one key, one with another, a cancellation; two pages; queue of one; key and request lifetimes 2 and 1 on a clock to 2; one failing call or restart |
| `action_dispatch_live` | queue and processor implement `Executor`; every action is answered | three actions and a snapshot, queue of two, one failing call or restart; time does not pass |
| `session_init` | nonce distance, one key, credential lifetime, rate limits | two fetches of one browser, three requests delivered, two lives, a clock to 3 with windows of 2 and 3, clients on time and four ticks ahead |
| `connection` | a step of `start()` that is shown is taken; a stop that finds nothing under way is final | two starts, two sockets, two timers, one event, one rejected storage call |
| `replay_buffer` | each event delivered or kept exactly once unless storage sections overlap | three chunks, two in flight, a buffer of two, one start, one socket |
| `knowledge_graph` | no duplicate keys, no edge to a missing node, nothing of a forgotten domain, unless calls overlapped | two writes out of five batches, two requests to forget of any scope, pausing at any time; one domain, five entity names |
| `consolidation` | one episode per action, one value in force per preference, no link lost in a merge | a write out of four batches (one for each job), a request to forget a node, two consolidations; thresholds of two; decay reaches one node a run |
| `run_events` | the bus implements `EventLog`; it holds exactly the open streams; a stream learns the end of its run; every stream ends | two runs of at most six events before the end, a history of three, two streams of two installs |
| `postgres_store` | the store implements `AtomicStore` with torn deletions; every call settles | three calls that write, forget and touch two nodes and an edge, or nothing; two clients; one rejected database call |
| `postgres_serial` | *violated*: a call is applied at one moment | a batch and a deletion |
| `mic_capture` | checkbox, background and capture agree; no stray stream; barge-in silences | three clicks, two prompts, two openings of the popup, one restart, one broadcast |

Why the bounds are enough: each is the least at which the case the properties are
about happens. A second attempt and a second run are what retries and resumption
need, a second action with the same key what a duplicate needs, a queue of one or
two what the limit needs, a third chunk what the limit on two needs, a history shorter
than a run what trimming needs, two clients and three calls what waiting for a client, for a row and in
a circle need. Constants such
as lifetimes keep the order they have in the code (the request's time to live is
less than the key's, the nonce's is the request's maximum age). That the bounds are
not vacuous is shown by the mutants: for each property a bug of the kind one makes
in that code is found within them.

`CHECK_DEADLOCK FALSE` stands where a behaviour may end: a session is over and no run
is left, all requests have been answered, the clock has reached its bound, all calls of
the memory have returned, all streams have ended, the user has no clicks left. A
`Connection` can always be restarted, and its runs check deadlock. In `PostgresStore` a circle of waiting calls
would be found as a violation of `EveryCallSettles`.

**Fairness.** `AgentGraph`: weak fairness of `GraphStep`, since LangGraph schedules the
frontier while a run is in progress and the awaited calls settle; nobody has to
begin a run. `ActionDispatch`: weak fairness of `Progress`, since the browser settles
every call and the event loop resumes every handler; nobody has to send a request and
time need not pass. `RunEvents`: weak fairness of each run's `RunStep`, since the calls that its
nodes await settle; no client has to leave. `PostgresStore`: weak fairness of the migrations
and of each call, since the database answers or rejects; a statement that waits for a row is not
enabled until its holder ends. `SessionInit` and `Connection` claim safety only: their
networks may lose everything. `KnowledgeGraph` and `Consolidation` do too: each call is a finite
sequence of steps, and what matters is in which order they meet. `MicCapture` does because nobody
has to answer the browser's question.

**What the violation shows.** `graphStore.ts` says that a batch is applied atomically and that deleting nodes
cascades to all incident edges. The Postgres store deletes edges in one statement and nodes in the
next, and each sees the moment it begins in. A batch that commits an edge to the node in between leaves the
edge without its node, which neither order of the two calls would. The quotes and lines are in
`PROJECT.json`.

**What else the models show.** No run is spent on these; they are how the code behaves.

The dispatch and the session: a key counts as executed only after its dispatch, so a second request with it that
arrives before is executed too (`NoLateDuplicate` states what is kept; the popup makes a fresh
key for each click). The domain policy is applied to the page that is shown when an action is asked for. By the time
it is dispatched another page may be shown, and nothing checks it again: docs/RELEASE_CHECKLIST.md:15 ("Restricted domains
require explicit confirmation") does not hold then, and the model promises nothing about it. A known install is always refused with 409, and the
extension registers before every session request, so an install gets one session per life
of the backend. Two starts replay the same buffer before either clears it; `ExactlyOnce` states
what is kept. The `Domain` node is looked up by its natural key, but the key is not
stored with it, so every page visit makes another one; `OneNodePerKey` is about the
nodes that do carry their key.

`AgentGraph` showed four differences from the documents. A page that leads to a blocked address without the
result saying so is not noticed, and the next task is executed there, although `ORCH_BLOCKED_DOMAINS` are "domains the Critic hard-vetoes"
(README.md:233 of the repository); `NeverActsOnBlocked` states what is kept. The tool
budget is compared with `>` on entry to the planner, so the call beyond it is made, and
rollbacks are not counted; `BudgetCaps` states the bound the code does keep. A task that
was running when a call failed stays `running`, so a run resumed from a shared
checkpointer passes over it and reports completion. A failed verification is
routed to the planner, so the branch of `buildMemoryEvents` that records failures never runs.

Modelling `Connection` also showed behaviours no document speaks of, recorded as
hazards: a socket closed without an error during its handshake leaves `start()`
waiting for ever in `connecting`, and later starts return at once; a start in
progress carries on after a stop; a second disconnect leaks the first timer, which
no stop can clear; an old socket's error resets the `connectPromise` of a new one,
after which events can be sent on a socket that is not set up; a failed send sets
`reconnecting` without a timer; falling back to the stub erases the resumption handle.

Modelling the knowledge graph showed: a write under way when recording is paused or a
domain forgotten still stores what it has; a batch written back over a node that was
forgotten, cooled or superseded meanwhile restores the old one (decay reads
everything before it writes); a node that is found by its key keeps its first
properties, whatever the later event says; `findByNaturalKey`
finds the oldest of a preference's versions, so the versions in between stay in force
until a consolidation; concepts are formed anew by every consolidation; and all e-mail
addresses have the label the gate leaves, so different accounts are merged into one entity.

`PostgresStore`: when the migrations fail once, the rejected promise is kept and every later call fails
with it; batches that upsert the same rows in opposite orders deadlock, and the one that is aborted is lost, because
nobody tries again; `exportAll` and `neighbors` are two statements each and may return an edge without its
node.

`MicCapture` (these are its excuses): when the box is unchecked while `getUserMedia` asks, capture begins
with the microphone off and goes on; on, off and on again during one question makes two streams, of which one cannot be
stopped; a restarted worker has forgotten `micActive` while the popup captures; a popup closed with the
microphone on shows it on when it is opened again, and does not capture. Also, `stop` leaves `micActive` as it is, and
`bargeIn` broadcasts the interruption that `setMicActive(true)` has already broadcast.

`RunEvents`: nothing is ever removed from `history` and `finished` but by trimming, so they grow with every run. With a history of
one event a late stream would miss the end of a run whose other parallel node finished after it; that is why
`EndSeen` below assumes more than one (the code has 1000).

A limit of `action_dispatch`: a result counts as reported when it is handed to the
transport. The Gemini transport has no message for `domSnapshot` and `uiActionResult`
events and drops them.

## 4. What is proved

TLAPS proves these for every value of the constants that satisfies the named
assumption of the module (`AgentAssumption`, `DispatchAssumption`, `SessionAssumption`, `ConnectionAssumption`, `EventsAssumption`,
`MemoryAssumption` and `ConsolidationAssumption`, `StoreAssumption`, `MicAssumption`), which only says what sort of value each constant has.

| theorem | statement |
|---|---|
| `AgentGraphProofs!TypeCorrect` | `Spec => []TypeOK` |
| `AgentGraphProofs!BudgetHolds` | `Spec => []BudgetCaps` |
| `AgentGraphProofs!BackstopHolds` | `Spec => []BackstopUnreached` |
| `AgentGraphProofs!QuorumHolds` | `Spec => QuorumBeforeAct` |
| `AgentGraphProofs!OrderHolds` | `Spec => InPlanOrder` |
| `AgentGraphProofs!PagesHold` | `Spec => NeverActsOnBlocked` |
| `AgentGraphProofs!EffectsHold` | `Spec => []OnlyVerifiedEffects` |
| `ActionDispatchProofs!TypeCorrect` | `Spec => []TypeOK` |
| `ActionDispatchProofs!AnswersAreHonest` | `Spec => []AnswersHonest` |
| `ActionDispatchProofs!LateDuplicatesStopped` | `Spec => []NoLateDuplicate` |
| `ActionDispatchProofs!CancellationsHold` | `Spec => CancelHolds` |
| `ActionDispatchProofs!Implements` | `Spec => ServesInOrder`, the refinement of `Executor` |
| `SessionInitProofs!TypeCorrect` | `Spec => []TypeOK` |
| `SessionInitProofs!NonceHolds` | `Spec => []MintedApart` |
| `SessionInitProofs!FreshnessHolds` | `Spec => []MintedFresh` |
| `SessionInitProofs!RepeatsAreFew` | `Spec => []MintedFew` |
| `SessionInitProofs!KeyHolds` | `Spec => []OneKeyPerInstall` |
| `SessionInitProofs!RegistrationHolds` | `Spec => []RegisteredIsKnown` |
| `SessionInitProofs!RatesAreHeld` | `Spec => []RatesHold` |
| `SessionInitProofs!LifetimeHolds` | `Spec => []CredentialLifetime` |
| `RunEventsProofs!TypeCorrect` | `Spec => []TypeOK` |
| `RunEventsProofs!StreamsHeld` | `Spec => []HoldsOpenStreams` |
| `RunEventsProofs!EndSeen` | `MaxHistory > 1 => (Spec => []EndIsSeen)` |
| `RunEventsProofs!Implements` | `Spec => ReadsTheLog`, the refinement of `EventLog` |
| `PostgresStoreProofs!TypeCorrect` | `Spec => []TypeOK` |
| `PostgresStoreProofs!Implements` | `Spec => AppliesBatches`, the refinement of `AtomicStore` |
| `ConnectionProofs!TypeCorrect` | `Spec => []TypeOK` |
| `ConnectionProofs!ProgressHolds` | `Spec => []ProgressIsReal` |
| `ConnectionProofs!StopHolds` | `Spec => QuietStop` |
| `ConnectionProofs!EventsOnce` | `Spec => []ExactlyOnce` |
| `KnowledgeGraphProofs!TypeCorrect` | `Spec => []TypeOK` |
| `KnowledgeGraphProofs!KeysAreShared` | `Spec => []OneNodePerKey` |
| `KnowledgeGraphProofs!EdgesLead` | `Spec => []CascadeHolds` |
| `KnowledgeGraphProofs!ForgettingLasts` | `Spec => []ForgottenStays` |
| `KnowledgeGraphProofs!AllTypeCorrect` | `SpecAll => []TypeOK`, with the consolidations |
| `KnowledgeGraphProofs!AllKeysAreShared` | `SpecAll => []OneNodePerKey` |
| `KnowledgeGraphProofs!AllEdgesLead` | `SpecAll => []CascadeHolds` |
| `KnowledgeGraphProofs!AllForgettingLasts` | `SpecAll => []ForgottenStays` |
| `KnowledgeGraphProofs!EpisodesAreOnce` | `SpecAll => []OneEpisodePerAction` |
| `KnowledgeGraphProofs!ValuesAreResolved` | `SpecAll => []OneValueInForce` |
| `KnowledgeGraphProofs!LinksAreKept` | `SpecAll => LinksSurvive` |
| `MicCaptureProofs!StreamsHeld` | `Spec => []NoStrayStream` |
| `MicCaptureProofs!MicIsHonest` | `Spec => []MicAgrees` |
| `MicCaptureProofs!Silenced` | `Spec => []BargeInSilences` |

`BackstopUnreached`, `MintedFresh`, `MintedFew` and `RegisteredIsKnown` are defined in the modules of
proofs' components and checked by no run: the theorems say more than a run would. `SessionInit`'s `TypeOK` is left to its theorem too;
what it says of the limits, `RatesHold` says in the runs.

**AgentGraph.** The inductive invariant is
`LoopInv == TypeInv /\ SpendingOK /\ PaceOK /\ VotesOK`.

- `TypeInv` adds to `TypeOK` which nodes may be in the frontier together and that the
  cursor points into the plan whenever a node reads the current task.
- `SpendingOK` bounds steps, calls and cost more tightly while the planner has let a
  task through (`Committed`): one call is still within its rights. `BudgetCaps` alone
  is not inductive, because it forgets that the planner has just checked.
- `PaceOK` ties the supersteps of a run to its planner steps: between two entries
  of the planner lie at most four other supersteps. That is why a limit of
  `8 * maxSteps + 20` is never reached, on any path, veto and rerun included.
- `VotesOK` says that the task in front of a worker is the one the critic has just
  endorsed.

Each node has a typing lemma and an effect lemma for the counters; the theorems
combine them over the disjuncts of `Next`.

The order of the tasks and the pages rest on `PlaceInv == TypeInv /\ OrderOK /\ PageOK`.

- `OrderOK`: once the planner has let a task through, no earlier task is pending, because its
  cursor is the first pending task and only the planner moves it.
- `PageOK` follows the page, and what is known of it, through the nodes (`Unknown`: if the page is blocked, nobody has been
  shown that). A blocked page that a snapshot or a result has shown has raised an
  anomaly by the time the planner is entered, and the planner ends the run on one; a worker is entered
  on a page that is blocked only unseen, and for a navigation with a target that the critic did not object to;
  and while the verifier has a result to judge, a redirect that was shown is there to be seen. What a call or a rollback
  that shows nothing makes of the page leaves it so (`HiddenUnknown`). `NeverActsOnBlocked` alone is not inductive,
  because it says nothing of the page between two actions.

What verified tasks leave on the page rests on `EffectsOK`, for the first run while no call has failed outright
(`Unhurt`). `AtRest` is `OnlyVerifiedEffects` at every node that acts on the page or is about to, not at the planner alone.
`InDoubt` is the page in front of the verifier: it may hold one effect more, that of the current task,
and the undo the worker recorded takes back exactly that, unless it was there before. The two meet in the verifier,
which either counts the task as done or rolls back. The set of done tasks only grows, because
the current task is pending and what is replanned has failed (`SameDone` and its neighbours).

**ActionDispatch.** The inductive invariant `Inv` joins the types with five parts.

- `Placed`: each action request is in one place only: before `onMessage` has let it through, in the queue, being sent, or
  answered; and the answer agrees with what became of its call. No property implies it, and all need it: an
  item that stood in the queue and was being sent would be performed twice.
- `Processing`: the queue holds no request twice, and the processor runs exactly while it sends one.
- `Counted`: the page has handled a request as often as its call says. With `Placed` it gives `AnswersHonest`.
- `Remembered`: the key of an action answered ok stays in `executed` for its time; `LateRefused`: a late
  duplicate has been turned away. `NoLateDuplicate` alone is not inductive: a late request might still be queued.

`TakeNext` takes, cleans, answers and sends in one step. `Advanced` says what a caller needs of it, and `Serves`
what every handler that touches the queue has in common; `ServingKeeps` shows once that serving the queue keeps all
parts, and sends nothing whose cancellation is in force. What `Filter` returns (the items at the given places, in
their order) is shown by induction on the prefix of the queue (`FilterMeans`): the induction is over a set of numbers
(`SetInduction`), from the fact that `<` is well-founded on them.

`Implements` needs the order of the queue, which no part of `Inv` speaks of. `Ahead` is that order as a relation; `Kept` says
that one queue is what is left of another in its order, and follows for all that is picked from a sequence from its head to its end
(`PickedInOrder`), which is all that `Filter`, `Tail` and `SubSeq` do. `InTurn` says of a step that serves the queue that
who left it was refused, has failed, or is being sent after all that were ahead of it; `Overstayed`, that only who has waited
for too long fails, so that a request does not fail while it is let in. With `Placed` the stages of the
actions before and after a step follow from the closure (`StageMeans`), and there is one lemma for each action of the model: it
is an `Ask`, `Accept`, `Answer`, `Leave`, `Reach`, `Lose` or `Restart` of the executor, or leaves it as it is.

**SessionInit.** The inductive invariant is `IInv`: the properties themselves and four
connections between the history and the maps: `FetchesOK` (a fetch that has
signed has what it signed with, and one that registered since the backend started is known), `AuditOK` (requests are handled after
they were sent and before now, in this life or an earlier one),
`Remembered` (every session of this life has its nonce in the map until its time is up),
`KeysKept` (the key a session was minted for stays registered in this life). `MintedApart` follows from `Remembered` at the moment of
the second session. A request may be accepted from `MaxAge` before to `MaxAge` after its timestamp, and with the
defaults of `config.ts` (both 60 000 ms) the request of a client whose clock is ahead outlives its nonce.
`RepeatsAreFew` says what is left of "once" then: a request accepted after its timestamp is accepted no more, and no request
more than three times, because three nonces in a row reach past its last moment. `LifetimeHolds` needs no
more than `TypeOK` and what rounding down to whole seconds does (`RoundsDown`).

`RatesHold` looks at any stretch of time as long as a window, the code at its own windows, and forgets each
of them when the next begins. `RatesOK` connects the two. Requests are in the order of their times (`Sorted`), and
`Tally` says of every key what its rate knows of the history (`Tells`): it counts exactly the hits of the
window it ends, which began with one of them, and of what came before that window any stretch that still reaches
into it has less than the limit, and did not begin after a quiet window. So a stretch meets two windows at
most, and only one if it began quietly. The lemmas are about any sequence of requests and any set
of hits in it, and are used once for the addresses and once for the installs.

**RunEvents.** The inductive invariant `Inv` joins the properties with four parts: `PhasesOK` (a run is
finished when its phase says so and when its log has an end, and at most one node is left by then),
`HistoryKept` (the history is the log, trimmed), `StreamsOK`, and `EndsLast` (the end is the last event of
a log, or the last but one and nobody is left to publish). Most of the work is in lemmas about sequences: trimming what
was trimmed already forgets no more (`TrimAgain`), and what a step appends can be read off the new log
(`NewsOfConcat`). `HistoryKept` then gives the refinement: what a joining stream is written is the newest part of
`EventLog`'s log, `PhasesOK` that it follows the run exactly when there is more to come, and
`HoldsOpenStreams` that those who hear an event are those who follow.

**PostgresStore.** The inductive invariant is `Inv == TypeOK /\ PoolOK /\ LocksOK /\ CursorOK /\ WorkOK`.

- `PoolOK` counts: the free clients, the calls in a transaction and the migrations add up to the pool.
  Without it nothing bounds what `RolledBack` gives back.
- `LocksOK`: a row is held by one call at most, and only by a call in a transaction.
- `CursorOK`: a call is at one of its statements, or has made them all when it comes to `COMMIT`.
- `WorkOK` says, row by row, what a call has made so far of the rows it is about. Written rows are held; a
  row that was to be deleted is gone, unless a call that was committed meanwhile has written it; any other row is as it was.
  It needs that a batch writes before it deletes (`StatementsMean`), so that a deletion is never undone by the
  same batch, and that a held row is not changed by the commit of another call (`LocksOK`).

At `COMMIT` all statements have been made, so `WorkOK` says what the call publishes, and `CommitApplies` that
this is the batch as a whole on what the earlier calls left: `AtomicStore`'s `Apply`. Every other step maps to
`Begin`, `Fail` or a stutter. The proof does not depend on deadlock detection: a circle of waits endangers
`EveryCallSettles` alone.

**Connection.** The inductive invariant is
`Inv == TypeInv /\ Progress(bg) /\ LoadsOK(queue, bg.start) /\ HandshakesOK(socks, bg.start)`.

- `TypeInv` adds to `TypeOK` that calls which read or write the buffer are a handler's.
- `LoadsOK`: a call that `start()` awaits was made by a start which is at that point, and no start awaits two.
  Without it the answer to one call could end a start that still waits, and leave `setupPending` standing.
- `HandshakesOK`: a start waits for every handshake in progress. `TypeInv` and `ProgressIsReal` do not say
  so, and `QuietStop` needs it: with nobody waiting, no socket can complete its setup and persist a handle.

A quiet step that is not the user's start or a new worker keeps its four parts one by one (`QuietStep`): with
`manualStop` set `onDisconnected` schedules nothing, and a failing socket has no start to fall back for.

`ExactlyOnce` rests on `OnceInv`, which needs `Inv`. A call that an event's handler waits for belongs to a busy handler, and no
handler has two (`HandlersOK`). What a replay is about to clear, the transport has taken (`SentOK`). `EventsOK` adds to
the property that an event whose handler is not done is neither sent nor stored: without it a handler
that ends could end twice. Both are claimed unless `torn`; the invariant therefore shows what the excuse is
for: in every step that is not torn, a section that writes the buffer writes what it read,
and something appended or removed.

**KnowledgeGraph.** The inductive invariant `IInv` joins the four properties with five parts.

- `WriteOK`, of one write: the calls it has left are in their order (the search for a like entity follows
  the lookup of its name), what it has staged under its own ids is new and is found in its map by its key,
  what it has staged under another's id was stored and is so still, unless something that removes nodes
  was under way meanwhile (`Robbed`), and its edges lead to what it has staged, to what is stored, or to what was removed
  under its eyes. At the commit the last of these is `CascadeHolds`.
- `KeysOK`: when a stored node clashes with a staged one (one key, two ids), the makers of the two
  overlapped, or the stored one came after the write began (`Late`). `OneNodePerKey` says nothing of
  what is not stored yet, and is not inductive without it.
- `ForgetOK`: whatever a request to forget must remove is among the ids it has listed, or was stored since.
- `CopiesOK`: copies of one node, stored or staged by however many writes, agree in type, key and domain. Without it
  the batch of one write could change the key of another's node.
- `HistoryOK`: what the history calls ended has ended, and only those who committed are makers.

`IInv` holds parts of many writes, and a step is one call's. So each step is split in two: what the caller's
own parts become (one lemma per action), and what the others' parts make of it. `Extends` and `Fits` say what a write's
own step may do to its locals, `Forward` what a step may do to the calls and to the history (ended calls stay
ended, nobody leaves `makers`), and `Outside` that the locals of the others are untouched and what may have come to or gone
from the store beside them; the parts of everybody else follow from these alone. What `Filter` returns, and that the calls `FlattenSeq` lays out for a batch are in order, is
shown by induction on sets of numbers (`SetInduction`).

The proof changed the property. `OneNodePerKey` used to name the two calls by `origin`, who stored the node that
is there now. With three writes that is false, which TLC shows only on an instance larger than
the run's: two overlapping writes make two entities of one name, the first is forgotten, and a third write, which had found it
and began after the second ended, puts its copy back. The third is then the origin, and overlapped nobody who
made the other. The calls that are to blame are among those who *ever* put the node there,
and with `makers` the property is true.

**Consolidation.** `JInv` is `IInv` and what the jobs know; with it the theorems about writes and requests to
forget hold again while consolidations run. What a job has read it writes back or links to later, whatever has
happened to it, so most of `JInv` is about the distance between the two.

- `RecordOK` types the locals of a job, job by job: the groups are of distinct nodes and not empty, a merge
  is of two nodes.
- `HeldOK`: what a job may write back was stored once, and clashes with nothing that is stored unless its
  makers overlapped or a call that overlaps the job has put the clashing node there. Without it `Merge`, `Cool`
  and `Compact`, which put back what was forgotten meanwhile, would break `OneNodePerKey`.
- `RefsOK`: what it may link to without writing it is stored, or was removed under its eyes (`CascadeHolds`).
- `SkillOK`: a skill looked up in vain is still missing, unless a call that overlaps has stored it.
- `JobsAlike`: the copies that jobs hold agree with each other and with those that are stored or staged.

As above, a step is split into what it makes of the job's own parts and what it makes of the others'. `Reads` and
`Stored` say what a job's step may do: it leaves the graph alone and lists nodes that are there, or it
puts nodes that it holds or makes, adds edges between such nodes, and removes. All that does not concern the
job itself follows from these two. What a job lists is given by `Where`, `GroupsBy` and `Clusters`; the first two are shown to return the
distinct members they should (`GroupsMean`), the clusters, a recursive function, by induction over a set of numbers.

The three properties of the consolidation itself rest on one layer each over `JInv`.

- `ValueOK`: two values in force, while an undisturbed consolidation resolves contradictions, are in one of the groups it
  has still to resolve, and afterwards there are none and decay writes back only what is stored. It needs the group
  to hold *all* values in force of its preference, and each resolution to leave the others' groups as they are.
- `LinkOK`: what an undisturbed merge has read of the duplicate's edges is what is there when it writes.
- `EpisodesOK`, while consolidations run one at a time, whatever is written and forgotten meanwhile: what is derived
  into an episode is an action, marked as compacted in the store and in every copy that any job holds; a job about to compact has none
  that an episode has; and no merge touches such an edge. A copy without the mark would be the way back: a job that
  wrote it would let the next consolidation compact the action again.

The proof of the last of the three changed the property. `LinksSurvive` used to say that every link of the duplicate survives. An
edge can be stored whose other end was forgotten while the write that made it was under way; `neighbors` does not return
it, because that end is missing, so the merge does not move it, and it is deleted with the duplicate. This needs a
write, a request to forget and then a consolidation in a row, all with embedded entities that are alike, which the instance of the run
does not reach. The property now speaks of edges with both ends stored.

**MicCapture.** The inductive invariant is `Inv == TypeInv /\ CaptureOK /\ Covered(toPopup, popup.playing, stale)`.
`TypeInv` adds to the types that a closed popup hears, plays, asks for and captures nothing. `CaptureOK`: unless
calls of `getUserMedia` overlapped, one at most is asking, and only while the page has no stream, so that
what is granted never hides a live one. `Covered`: an old chunk in the queue has an interruption behind it, and if one
is playing there is an interruption in the queue. Messages are delivered in order, so the interruption that a barge-in
sends covers all that was sent before it (`AddInterruption`), and later messages do no harm, since a new chunk
is not old (`AddHarmless`).

`MicAgrees` speaks of empty queues only. `AgreeInv` says what the queues *will* make of the two
flags: `WillShow`, that the last state under way to the popup, or its checkbox if there is none, is the background's
`micActive`; `WillTell`, that a state will be sent to this page; `WillBe`, that the last request under way, or
`micActive` if there is none, is what the capture is. `ShownOK` joins the first two, `OnOK` and `OffOK` are the last
for a capture that is on and one that is off, each with its own excuses, and `HeldStream` says that the stream which
the checkbox will stop is live.

**Only model-checked**: `EveryRunEnds`, `EveryActionAnswered`, `StreamsEnd` and `EveryCallSettles`: liveness is out of the
prover's reach. Every other property of a passing run is a theorem.
`RECURSIVE` operators cannot be used in proofs here, nor can induction theorems with an operator as parameter: the modules
use recursive functions, and the proofs induction over sets of numbers.

## 5. What is not modelled

Page snapshots, audio conversion and message schemas keep no state that outlives a
call, and their work is in floating-point numbers or text. The retriever ranks by floating-point scores, and nothing it returns steers
the graph. PII patterns, encryption, embeddings and the chat model are calls whose
results the graph does not branch on. The memory routes pass one call each on to the memory system. The
reads of the Postgres store and the conversion of its rows are left out: they change nothing.
Configuration and entry points appear as constants. The popup's other buttons send one message each, which are the inputs of
`ActionDispatch` and `Connection`.

## 6. Plan

Done: the loop and its proofs; the dispatch with restarts and changes of page, and its proofs; sessions and their proofs; the connection and its proofs; the
memory and its proofs; the consolidation and its proofs; the Postgres store, the event bus, the executor, their abstract
specifications, and the proofs that they are implemented; the microphone and its proofs.

What is left:

- an abstract `BudgetedLoop` (steps and calls against budgets) that `AgentGraph` implements; `BudgetCaps` and
  `QuorumBeforeAct` say most of it already.

## 7. Running

    tlc -workers 2 -config AgentGraph.cfg MCAgentGraph.tla
    tlapm AgentGraphProofs.tla
