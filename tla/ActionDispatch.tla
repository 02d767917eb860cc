---------------------------- MODULE ActionDispatch ----------------------------
(***************************************************************************)
(* Actions on the page: how the background service worker of the extension *)
(* (packages/extension/src/background/orchestrator.ts) takes the popup's   *)
(* executeAction, cancelAction and requestDomSnapshot messages, queues and *)
(* dispatches them to the content script of the active tab                 *)
(* (content/index.ts), and matches the results that come back.             *)
(*                                                                         *)
(* JavaScript runs a handler without interruption up to its next await, so *)
(* a step of the model is the code between two awaits.  A call that is     *)
(* awaited (chrome.tabs, chrome.scripting) may settle at any later time.   *)
(* The user may go to another page, and Chrome may end the worker and      *)
(* start it again, between any two steps.                                  *)
(***************************************************************************)
EXTENDS Integers, Sequences

CONSTANTS
  Executes,      \* popup.executeAction requests
  Cancels,       \* popup.cancelAction requests
  Snapshots,     \* popup.requestDomSnapshot requests
  Keys,          \* idempotency keys
  KeyOf,         \* the key of each execute and cancel request
  Pages,         \* the pages that are shown one after the other: 1, 2 and so on
  None,          \* no request
  MaxQueued,     \* MAX_QUEUED_ACTIONS
  KeyTtl,        \* IDEMPOTENCY_KEY_TTL_MS
  RequestTtl,    \* PENDING_REQUEST_TTL_MS
  MaxTime,       \* bound: the clock
  MaxFaults      \* bound: chrome calls that reject, and restarts of the worker

Requests == Executes \cup Cancels \cup Snapshots

ASSUME DispatchAssumption ==
  /\ Executes \cap Cancels = {} /\ Executes \cap Snapshots = {} /\ Cancels \cap Snapshots = {}
  /\ None \notin Requests
  /\ 1 \in Pages /\ Pages \subseteq Nat
  /\ KeyOf \in [Executes \cup Cancels -> Keys]
  /\ MaxQueued \in Nat /\ MaxTime \in Nat /\ MaxFaults \in Nat
  /\ KeyTtl \in Nat \ {0} /\ RequestTtl \in Nat \ {0}

VARIABLES
  rt,          \* the closure state of createRuntimeOrchestrator, and the answers it gave
  at,          \* where onMessage is with each request: "new", "url", "waiting", "thrown"
  calls,       \* sendToActiveTab for each request: "none", "calling", "resolved", "rejected"
  now,         \* Date.now()
  shown,       \* the page of the active tab
  cancelledOnPage, \* the content script's cancelledIdempotencyKeys
  results,     \* requests whose content result is on its way to the background
  handled,     \* requests the content script has handled, and how many times
  performed,   \* times the content script went on to each action: it may still refuse the
               \* selector, or find no target
  faults,      \* chrome calls that have rejected, and restarts
  okAt, late   \* history: when a request was answered ok by this worker; requests that
               \* arrived less than KeyTtl after one with their key was answered ok

vars == <<rt, at, calls, now, shown, cancelledOnPage, results, handled, performed,
          faults, okAt, late>>
page == <<shown, cancelledOnPage, results, handled, performed>>

-----------------------------------------------------------------------------
(* The maps and the queue                                                  *)

\* Map.set and Map.delete on a function whose domain is the map's keys.
Put(map, key, value) == [k \in DOMAIN map \cup {key} |-> IF k = key THEN value ELSE map[k]]
Without(map, keys) == [k \in DOMAIN map \ keys |-> map[k]]

\* sendResponse, directly or through the promise of a queued request.
Reply(r, requests, answer) ==
  [r EXCEPT !.reply = [x \in Requests |-> IF x \in requests THEN answer ELSE @[x]]]

\* Array.filter: what stands at the places of a sequence, in its order.
Filter(seq, places) ==
  LET kept[i \in 0 .. Len(seq)] ==
        IF i = 0 THEN <<>>
        ELSE IF i \in places THEN Append(kept[i - 1], seq[i]) ELSE kept[i - 1]
  IN  kept[Len(seq)]

Expired(item) == item.queuedAt + RequestTtl <= now
Items(queue) == {queue[i].request : i \in DOMAIN queue}
Unexpired(queue) == Filter(queue, {i \in DOMAIN queue : ~Expired(queue[i])})
Uncancelled(queue, key) == Filter(queue, {i \in DOMAIN queue : KeyOf[queue[i].request] # key})

Overdue(r) == {x \in DOMAIN r.pending : r.pending[x] + RequestTtl <= now}

\* Requests whose result is overdue are forgotten.
DropOverdue(r) ==
  [r EXCEPT !.pending = Without(@, Overdue(r)), !.inFlight = Without(@, Overdue(r))]

\* cleanupExpiredEntries: drop what has outlived its time, answering the
\* requests that waited in the queue for too long.
Clean(r) ==
  LET queue == Unexpired(r.queue)
  IN  Reply([DropOverdue(r) EXCEPT
               !.executed = Without(@, {k \in DOMAIN @ : @[k] <= now}),
               !.cancelled = Without(@, {k \in DOMAIN @ : @[k] <= now}),
               !.queue = queue],
            Items(r.queue) \ Items(queue), "action_dispatch_failed")

\* The first request of a queue whose key is not cancelled, 0 if there is none.
FirstLive(queue, cancelled) ==
  LET live(i) == KeyOf[queue[i].request] \notin DOMAIN cancelled
  IN  IF \E i \in DOMAIN queue : live(i)
      THEN CHOOSE i \in DOMAIN queue : live(i) /\ \A j \in 1 .. i - 1 : ~live(j)
      ELSE 0

\* Mutant: the head is sent whether or not it was cancelled.
TakeHead(r) ==
  IF r.queue = <<>> THEN [r EXCEPT !.processing = FALSE, !.sending = None]
  ELSE LET c == Clean([r EXCEPT !.queue = Tail(@)])
       IN  [c EXCEPT !.processing = TRUE, !.sending = Head(r.queue).request]

\* The loop of processActionQueue up to its next await: the head is taken
\* before the rest is cleaned, cancelled requests are answered and skipped,
\* the first other one is sent; with none left the processor stops.
TakeNext(r) ==
  IF r.queue = <<>> THEN [r EXCEPT !.processing = FALSE, !.sending = None]
  ELSE LET c == Clean([r EXCEPT !.queue = Tail(@)])
           queue == <<Head(r.queue)>> \o c.queue
           next == FirstLive(queue, c.cancelled)
           skipped == IF next = 0 THEN Items(queue)
                      ELSE {queue[i].request : i \in 1 .. next - 1}
       IN  Reply([c EXCEPT
                    !.queue = IF next = 0 THEN <<>> ELSE SubSeq(queue, next + 1, Len(queue)),
                    !.processing = next # 0,
                    !.sending = IF next = 0 THEN None ELSE queue[next].request],
                 skipped, "action_cancelled")

\* Mutant: it is not looked whether it is running.
KickAgain(r) == TakeNext(r)

\* processActionQueue() called while it may already be running.
Kick(r) == IF r.processing THEN r ELSE TakeNext(r)

-----------------------------------------------------------------------------
(* The popup's requests (onMessage)                                        *)

\* sendToActiveTab begins for the request the processor has just taken.
Calling == calls' = IF rt'.sending \notin {None, rt.sending}
                    THEN [calls EXCEPT ![rt'.sending] = "calling"] ELSE calls

Waiting(x) == at' = [at EXCEPT ![x] = "waiting"]

\* executeAction arrives: a cancelled or executed key is answered at once,
\* otherwise the active tab's URL is asked for.
ReceiveExecute(x) ==
  /\ at[x] = "new"
  /\ LET c == Clean(rt)
     IN  \/ /\ KeyOf[x] \in DOMAIN c.cancelled
            /\ rt' = Reply(c, {x}, "action_cancelled") /\ Waiting(x)
         \/ /\ KeyOf[x] \in DOMAIN c.executed \ DOMAIN c.cancelled
            /\ rt' = Reply(c, {x}, "duplicate") /\ Waiting(x)
         \/ /\ KeyOf[x] \notin DOMAIN c.cancelled \cup DOMAIN c.executed
            /\ rt' = c /\ at' = [at EXCEPT ![x] = "url"]
  /\ late' = late \cup {x : y \in {y \in DOMAIN okAt : KeyOf[y] = KeyOf[x] /\ okAt[y] + KeyTtl > now}}
  /\ UNCHANGED <<calls, now, page, faults, okAt>>

HasRoom(queue) == Len(queue) < MaxQueued

\* The URL that the query returned is known: policy.ts lets the action pass or refuses it
\* (as "blocked_domain" or "confirmation_required").  What it makes of the URL and the
\* selector is left open: the page may have changed since the query, and may change again
\* before the action reaches it.  Then the queue limit is checked, and the request queued.
UrlKnown(x) ==
  /\ at[x] = "url" /\ Waiting(x)
  /\ \/ rt' = Reply(rt, {x}, "refused")
     \/ ~HasRoom(rt.queue) /\ rt' = Reply(rt, {x}, "action_queue_full")
     \/ /\ HasRoom(rt.queue)
        /\ rt' = Kick([rt EXCEPT !.queue = Append(@, [request |-> x, queuedAt |-> now])])
  /\ Calling
  /\ UNCHANGED <<now, page, faults, okAt, late>>

\* cancelAction arrives: remember the key, answer the queued requests that
\* have it, and pass the cancellation on to the page.
ReceiveCancel(x) ==
  /\ at[x] = "new" /\ Waiting(x)
  /\ LET c == Clean(rt)
         queue == Uncancelled(c.queue, KeyOf[x])
     IN  rt' = Reply([c EXCEPT !.cancelled = Put(@, KeyOf[x], now + KeyTtl), !.queue = queue],
                     Items(c.queue) \ Items(queue), "action_cancelled")
  /\ calls' = [calls EXCEPT ![x] = "calling"]
  /\ UNCHANGED <<now, page, faults, okAt, late>>

ReceiveSnapshot(x) ==
  /\ at[x] = "new" /\ Waiting(x)
  /\ rt' = Clean(rt)
  /\ calls' = [calls EXCEPT ![x] = "calling"]
  /\ UNCHANGED <<now, page, faults, okAt, late>>

-----------------------------------------------------------------------------
(* The background resumes after sendToActiveTab                            *)

\* The result of x is awaited from the page.
Expect(r, x) ==
  [r EXCEPT !.pending = Put(@, x, now),
            !.inFlight = IF x \in Executes THEN Put(@, x, KeyOf[x]) ELSE @]

\* Mutant: a dispatch that failed is answered as if it had succeeded.
OkAfterFailure(r, x) == TakeNext(Reply(r, {x}, "ok"))

\* Mutant: the processor returns after a failure and leaves its flag set.
StopsAfterFailure(r, x) == Reply([r EXCEPT !.sending = None], {x}, "action_dispatch_failed")

\* The dispatch of x was rejected: answer, and go on with the queue.
AfterFailure(r, x) == TakeNext(Reply(r, {x}, "action_dispatch_failed"))

\* Mutant: the key is not remembered as executed.
ForgetsKey(r, x) == TakeNext(Reply(Expect(r, x), {x}, "ok"))

\* The dispatch of x was accepted: remember its key, and go on.
AfterDispatch(r, x) ==
  TakeNext(Reply(Expect([r EXCEPT !.executed = Put(@, KeyOf[x], now + KeyTtl)], x), {x}, "ok"))

\* processActionQueue after its await.
ProcessorResumes(x) ==
  /\ rt.sending = x
  /\ \/ /\ calls[x] = "resolved"
        /\ rt' = AfterDispatch(rt, x)
        /\ okAt' = Put(okAt, x, now)
     \/ /\ calls[x] = "rejected"
        /\ rt' = AfterFailure(rt, x)
        /\ UNCHANGED okAt
  /\ Calling
  /\ UNCHANGED <<at, now, page, faults, late>>

\* Mutant: a cancellation, too, is registered for a result.
AlwaysAwaits(x) == TRUE

\* Whether the page will send a result for a request that is not an action.
AwaitsResult(x) == x \in Snapshots

\* onMessage after the call of a cancellation or a snapshot request; nothing
\* catches a rejection, so such a request is never answered.
HandlerResumes(x) ==
  /\ x \notin Executes /\ at[x] = "waiting" /\ rt.reply[x] = "none"
  /\ \/ /\ calls[x] = "resolved"
        /\ rt' = Reply(IF AwaitsResult(x) THEN Expect(rt, x) ELSE rt, {x}, "ok")
        /\ UNCHANGED at
     \/ /\ calls[x] = "rejected"
        /\ at' = [at EXCEPT ![x] = "thrown"]
        /\ UNCHANGED rt
  /\ UNCHANGED <<calls, now, page, faults, okAt, late>>

-----------------------------------------------------------------------------
(* The page, and what comes back from it                                   *)

Settle(x, outcome) == calls' = [calls EXCEPT ![x] = outcome]

\* Whether the content script acts on an executeAction message at all.
NotCancelledOnPage(x) == KeyOf[x] \notin cancelledOnPage

\* The content script's listener: remember a cancellation, send a snapshot, or
\* click the target (there may be none).  Its result is sent before the
\* call it answers is settled, and travels separately.  The answer is lost
\* when the click unloads the page.
PageHandles(x) ==
  /\ calls[x] = "calling"
  /\ cancelledOnPage' = IF x \in Cancels THEN cancelledOnPage \cup {KeyOf[x]} ELSE cancelledOnPage
  /\ results' = IF x \in Cancels THEN results ELSE results \cup {x}
  /\ handled' = [handled EXCEPT ![x] = @ + 1]
  /\ performed' = IF x \in Executes /\ NotCancelledOnPage(x)
                  THEN [performed EXCEPT ![x] = @ + 1] ELSE performed
  /\ \/ Settle(x, "resolved") /\ UNCHANGED faults
     \/ Settle(x, "rejected") /\ faults < MaxFaults /\ faults' = faults + 1
  /\ UNCHANGED <<rt, at, now, shown, okAt, late>>

\* No active tab, or a tab that scripts may not be injected into.
PageUnreachable(x) ==
  /\ calls[x] = "calling" /\ faults < MaxFaults
  /\ Settle(x, "rejected") /\ faults' = faults + 1
  /\ UNCHANGED <<rt, at, now, page, okAt, late>>

\* chrome.tabs.query rejects before an action is queued: onMessage throws.
UrlUnknown(x) ==
  /\ at[x] = "url" /\ faults < MaxFaults
  /\ at' = [at EXCEPT ![x] = "thrown"] /\ faults' = faults + 1
  /\ UNCHANGED <<rt, calls, now, page, okAt, late>>

\* onContentMessage: a result that is awaited is passed on, any other dropped.
\* (A result always has the kind its request awaits.)
ContentResult(x) ==
  /\ x \in results /\ results' = results \ {x}
  /\ LET c == Clean(rt)
     IN  \/ /\ x \in DOMAIN c.pending
            /\ rt' = [c EXCEPT !.pending = Without(@, {x}), !.inFlight = Without(@, {x})]
         \/ /\ x \notin DOMAIN c.pending
            /\ rt' = c
  /\ UNCHANGED <<at, calls, now, shown, cancelledOnPage, handled, performed, faults, okAt, late>>

\* Another page becomes the active one, with a content script of its own.
PageChanges ==
  /\ shown + 1 \in Pages /\ shown' = shown + 1 /\ cancelledOnPage' = {}
  /\ UNCHANGED <<rt, at, calls, now, results, handled, performed, faults, okAt, late>>

Tick ==
  /\ now < MaxTime /\ now' = now + 1
  /\ UNCHANGED <<rt, at, calls, page, faults, okAt, late>>

-----------------------------------------------------------------------------

\* The closure of a worker that has just been started, and what has been answered.
FreshRuntime(replies) ==
  [queue |-> <<>>, processing |-> FALSE, sending |-> None, executed |-> <<>>,
   cancelled |-> <<>>, pending |-> <<>>, inFlight |-> <<>>, reply |-> replies]

\* A request whose worker has ended gets an error instead of an answer.
Unanswered(x) == IF at[x] # "new" /\ rt.reply[x] = "none" THEN "lost" ELSE rt.reply[x]

\* Chrome ends the worker and starts it again.  Nothing that the closure holds is kept
\* in storage.  Its messages may be on their way to the page, or were never sent.
Restart ==
  /\ faults < MaxFaults /\ faults' = faults + 1
  /\ rt' = FreshRuntime([x \in Requests |-> Unanswered(x)])
  /\ at' = [x \in Requests |-> IF at[x] = "new" THEN "new" ELSE "waiting"]
  /\ \E unsent \in SUBSET {x \in Requests : calls[x] = "calling"} :
       calls' = [x \in Requests |-> IF x \in unsent THEN "rejected" ELSE calls[x]]
  /\ okAt' = <<>>
  /\ UNCHANGED <<now, page, late>>

-----------------------------------------------------------------------------

Init ==
  /\ rt = FreshRuntime([x \in Requests |-> "none"])
  /\ at = [x \in Requests |-> "new"] /\ calls = [x \in Requests |-> "none"]
  /\ now = 0 /\ faults = 0 /\ shown = 1
  /\ cancelledOnPage = {} /\ results = {}
  /\ handled = [x \in Requests |-> 0] /\ performed = [x \in Requests |-> 0]
  /\ okAt = <<>> /\ late = {}

\* What the browser and the event loop do once a request has arrived.
Progress ==
  \/ \E x \in Requests : PageUnreachable(x) \/ PageHandles(x) \/ HandlerResumes(x)
  \/ \E x \in Executes : UrlUnknown(x) \/ UrlKnown(x) \/ ProcessorResumes(x)
  \/ \E x \in Executes \cup Snapshots : ContentResult(x)

Arrive ==
  \/ \E x \in Executes : ReceiveExecute(x)
  \/ \E x \in Cancels : ReceiveCancel(x)
  \/ \E x \in Snapshots : ReceiveSnapshot(x)

Next == Progress \/ Arrive \/ PageChanges \/ Tick \/ Restart

Spec == Init /\ [][Next]_vars

\* The browser settles every call and runs every resumed handler; nobody has
\* to send a request, and time need not pass.
FairSpec == Spec /\ WF_vars(Progress)

-----------------------------------------------------------------------------
(* The abstract specification                                              *)

\* Which request of a queue is ahead of which.
Ahead(queue) ==
  {<<queue[p[1]].request, queue[p[2]].request>> :
     p \in {q \in (DOMAIN queue) \X (DOMAIN queue) : q[1] < q[2]}}

Verdict(answer) ==
  IF answer \in {"ok", "lost"} THEN answer
  ELSE IF answer = "action_dispatch_failed" THEN "failed" ELSE "refused"

\* How far an action request has come.
StageOf(x) ==
  IF rt.reply[x] # "none" THEN Verdict(rt.reply[x])
  ELSE IF x = rt.sending THEN "sent"
  ELSE IF x \in Items(rt.queue) THEN "waiting"
  ELSE IF at[x] = "new" THEN "new" ELSE "asked"

Promise == INSTANCE Executor WITH
  Actions <- Executes,
  stage <- [x \in Executes |-> StageOf(x)],
  ahead <- Ahead(rt.queue),
  way <- {x \in Executes : calls[x] = "calling"},
  seen <- [x \in Executes |-> handled[x]]

-----------------------------------------------------------------------------
(* Properties                                                              *)

Answers == {"none", "ok", "duplicate", "action_cancelled", "action_dispatch_failed",
            "refused", "action_queue_full", "lost"}

\* A Map from some of S to T.
MapOf(map, S, T) == DOMAIN map \subseteq S /\ \A k \in DOMAIN map : map[k] \in T

\* The type invariant of the closure state, the requests and the page.
TypeOK ==
  /\ DOMAIN rt = {"queue", "processing", "sending", "executed", "cancelled", "pending",
                  "inFlight", "reply"}
  /\ rt.queue \in Seq([request: Executes, queuedAt: Nat])
  /\ rt.processing \in BOOLEAN /\ rt.sending \in Executes \cup {None}
  /\ MapOf(rt.executed, Keys, Nat) /\ MapOf(rt.cancelled, Keys, Nat)
  /\ MapOf(rt.pending, Executes \cup Snapshots, Nat) /\ MapOf(rt.inFlight, Executes, Keys)
  /\ rt.reply \in [Requests -> Answers]
  /\ at \in [Requests -> {"new", "url", "waiting", "thrown"}]
  /\ calls \in [Requests -> {"none", "calling", "resolved", "rejected"}]
  /\ now \in Nat /\ faults \in Nat
  /\ shown \in Pages
  /\ cancelledOnPage \subseteq Keys /\ results \subseteq Requests
  /\ handled \in [Requests -> Nat] /\ performed \in [Requests -> Nat]
  /\ MapOf(okAt, Executes, Nat) /\ late \subseteq Executes

\* The queue and its processor keep the executor's promise: actions are sent to the page
\* one at a time, in the order in which they were queued, each once; an answer is
\* final, and is "ok" only if the page has handled the action.
ServesInOrder == Promise!Spec

\* The popup is told what happened: an action answered ok reached the page
\* exactly once, and one refused, cancelled or called a duplicate never did
\* and never will.
AnswersHonest ==
  \A x \in Executes :
    /\ handled[x] <= 1 /\ performed[x] <= handled[x]
    /\ rt.reply[x] = "ok" => handled[x] = 1
    /\ rt.reply[x] \in Answers \ {"none", "ok", "action_dispatch_failed", "lost"} => handled[x] = 0
    /\ rt.reply[x] = "action_dispatch_failed" /\ faults = 0 => handled[x] = 0

\* Once cancelAction has been handled, and until the key expires, the page is
\* handed no further action with that key: the exceptions are a dispatch already
\* under way, and a worker that has lost its keys in a restart.
CancelHolds ==
  [][\A x \in Executes :
       calls[x] = "none" /\ calls'[x] = "calling" =>
         ~ \E k \in DOMAIN rt.cancelled : k = KeyOf[x] /\ rt.cancelled[k] > now]_vars

\* A request that arrives after one with its key was answered ok is not
\* executed again for as long as the key is remembered, and the worker lives.
NoLateDuplicate ==
  \A x \in late : handled[x] = 0

\* Every action request that arrives is eventually answered, by an error if its worker
\* ends, unless the query for the URL itself failed.
EveryActionAnswered ==
  []<>(\A x \in Executes : at[x] \in {"new", "thrown"} \/ rt.reply[x] # "none")

=============================================================================
