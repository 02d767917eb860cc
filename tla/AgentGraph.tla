------------------------------ MODULE AgentGraph ------------------------------
(***************************************************************************)
(* The backend's agent loop: the LangGraph graph of                        *)
(* packages/orchestrator/src/graph, one action per node (nodes.ts), routed *)
(* by the edges of build.ts, driven by runOrchestration (run.ts), acting   *)
(* on a page through the ActionExecutor port.                              *)
(*                                                                         *)
(* LangGraph runs the graph in supersteps: the nodes of the frontier run,  *)
(* their partial updates are applied together at the end of the superstep, *)
(* and a node that throws fails the whole run and leaves the checkpointed  *)
(* state as it was.  Only what the node did outside (the page) remains.    *)
(***************************************************************************)
EXTENDS Integers, Sequences

CONSTANTS
  Urls,          \* page addresses
  BlockedUrls,   \* the ones isBlockedDomain accepts
  NoUrl,         \* an absent URL
  Destructive,   \* the targets (URLs or selectors) a destructivePattern matches
  ElementSets,   \* what a snapshot may show: sets of [selector, role]
  Intents,       \* what decomposeIntent sees in an intent (see IntentShape)
  Budgets,       \* session budgets a run may be given
  CallCost,      \* TOOL_CALL_COST_MICROS + MODEL_CALL_COST_MICROS
  MaxAttempts,   \* deps.maxAttempts
  MaxRuns,       \* bound: runs of one session
  MaxFaults      \* bound: executor or memory calls that fail

Defaults == {"#search", "#submit", "#field"}
Selectors == Defaults \cup {e.selector : e \in UNION ElementSets}
Targets == Urls \cup {NoUrl} \cup Selectors
BlastRadii == {"low", "medium", "high"}
WorkerAgents == {"navigator", "form", "extractor"}

\* Which of decomposeIntent's patterns match the intent text; "risky" says
\* that the search query itself matches a destructive pattern.
IntentShape ==
  [url: Urls \cup {NoUrl}, search: BOOLEAN, form: BOOLEAN, buy: BOOLEAN,
   read: BOOLEAN, risky: BOOLEAN]

ASSUME AgentAssumption ==
  /\ BlockedUrls \subseteq Urls
  /\ NoUrl \notin Urls
  /\ \A es \in ElementSets : \A e \in es :
       /\ DOMAIN e = {"selector", "role"}
       /\ e.selector \in STRING /\ e.role \in STRING
  /\ Intents \subseteq IntentShape
  /\ Budgets \subseteq [maxSteps: Nat, maxToolCalls: Nat, maxCostMicros: Nat]
  /\ CallCost \in Nat
  /\ MaxAttempts \in Nat
  /\ MaxRuns \in Nat
  /\ MaxFaults \in Nat

VARIABLES
  intent, budget, durable,  \* the session's input; durable: config.checkpointer is shared by its runs
  state,                    \* the OrchestratorState channels
  frontier,                 \* the nodes of the current superstep still to run
  perceived,                \* perception's buffered write
  page,                     \* the page the executor acts on
  outcome,                  \* "running", "finished" (run_finished) or "error"
  supersteps,               \* supersteps of this run
  runs, faults,             \* runs begun in this session, failed port calls
  calls, executed,          \* executor calls, and calls per task, since the state was fresh
  unseen                    \* history: no snapshot or result has shown the blocked page it is on

vars == <<intent, budget, durable, state, frontier, perceived, page, outcome,
          supersteps, runs, faults, calls, executed, unseen>>
session == <<intent, budget, durable, runs>>

-----------------------------------------------------------------------------
(* Policy (policy.ts) and plan construction (nodes.ts, buildPlan)          *)

IsBlocked(url) == url \in BlockedUrls

IsDestructive(task) == task.risky \/ task.target \in Destructive

\* The blast radius, from the action kind and the destructive patterns.
ClassifyBlastRadius(task) ==
  IF task.kind = "submit" \/ IsDestructive(task) THEN "high"
  ELSE IF task.kind \in {"fill", "navigate"} THEN "medium"
  ELSE "low"

Rank(b) == CASE b = "low" -> 0 [] b = "medium" -> 1 [] b = "high" -> 2
MaxBlast(a, b) == IF Rank(a) >= Rank(b) THEN a ELSE b

\* The verifier's vote: the target of an element action is in the snapshot.
FeasibilityPrecheck(task, snapshot) ==
  task.kind \in {"click", "fill", "submit"} =>
    \E e \in snapshot.elements : e.selector = task.target

MakeTask(agent, kind, target, risky, blast) ==
  [agent |-> agent, kind |-> kind, target |-> target, risky |-> risky,
   blast |-> blast, status |-> "pending", attempts |-> 0,
   approvals |-> [planner |-> TRUE, verifier |-> FALSE, critic |-> FALSE]]

SelectorForRole(snapshot, role, default) ==
  IF \E e \in snapshot.elements : e.role = role
  THEN (CHOOSE e \in snapshot.elements : e.role = role).selector
  ELSE default

When(cond, seq) == IF cond THEN seq ELSE <<>>

\* decomposeIntent: the tasks the matching patterns ask for, in the code's
\* order; an intent that matches nothing else is an extraction.
DecomposeIntent(i, snapshot) ==
  LET box(default) == SelectorForRole(snapshot, "textbox", default)
      button == SelectorForRole(snapshot, "button", "#submit")
      acting == i.url # NoUrl \/ i.search \/ i.form \/ i.buy
  IN  When(i.url # NoUrl,
           <<MakeTask("navigator", "navigate", i.url, FALSE, "medium")>>)
      \o When(i.search,
           <<MakeTask("form", "fill", box("#search"), i.risky, "low"),
             MakeTask("navigator", "click", button, FALSE, "low")>>)
      \o When(i.form /\ ~i.search,
           <<MakeTask("form", "fill", box("#field"), FALSE, "medium")>>)
      \o When(i.buy,
           <<MakeTask("form", "submit", button, FALSE, "high")>>)
      \o When(i.read \/ ~acting,
           <<MakeTask("extractor", "extract", snapshot.url, FALSE, "low")>>)

\* A learned skill found in procedural memory is tried first.
BuildPlan(i, snapshot, skillHit) ==
  When(skillHit,
       <<MakeTask("extractor", "extract", snapshot.url, FALSE, "low")>>)
  \o DecomposeIntent(i, snapshot)

-----------------------------------------------------------------------------
(* The ActionExecutor port: what SimulatedActionExecutor does to the page, *)
(* with any reported outcome (its "forced" ones), and a page that may lead *)
(* the call on to a blocked address, whether the result shows it or not.   *)

NoUndo == [kind |-> "none", target |-> NoUrl, set |-> FALSE]

ApplyAction(p, kind, target, set) ==
  CASE kind = "navigate" -> [p EXCEPT !.url = target]
    [] kind = "fill" -> [p EXCEPT !.filled = IF set THEN @ \cup {target}
                                                   ELSE @ \ {target}]
    [] kind = "submit" -> [p EXCEPT !.submitted = TRUE]
    [] OTHER -> p

\* Mutant: undoing a fill writes the new value again.
UndoRefills(p, task) ==
  CASE task.kind = "navigate" ->
         [kind |-> "navigate", target |-> p.url, set |-> FALSE]
    [] task.kind = "fill" -> [kind |-> "fill", target |-> task.target, set |-> TRUE]
    [] OTHER -> NoUndo

\* navigate and fill are reversible; what a click or an extract leaves needs
\* no undo and a submission has none.
UndoOf(p, task) ==
  CASE task.kind = "navigate" ->
         [kind |-> "navigate", target |-> p.url, set |-> FALSE]
    [] task.kind = "fill" ->
         [kind |-> "fill", target |-> task.target, set |-> task.target \in p.filled]
    [] OTHER -> NoUndo

\* What may become of a call: whether its result is ok and meets the
\* expectation (the verifier asks for both), the blocked address the page led
\* to, and whether the result shows where the page is.  The port asks for no
\* URL: SimulatedActionExecutor gives none after a fill or a submit, a forced
\* post-state may lack it, and a page may go on after the result was taken.
Outcomes == [met: BOOLEAN, redirect: BlockedUrls \cup {NoUrl}, shown: BOOLEAN]

Redirected(p, url) == IF url = NoUrl THEN p ELSE [p EXCEPT !.url = url]

PageAfter(task, redirect) ==
  Redirected(ApplyAction(page, task.kind, task.target, TRUE), redirect)

\* The blocked address a result that shows page p, or does not, speaks of.
Shown(p, shown) == IF shown /\ IsBlocked(p.url) THEN p.url ELSE NoUrl

\* The page, now p, is on a blocked address that nobody has been shown.
Hidden(p) == IsBlocked(p.url) /\ (unseen \/ p.url # page.url)

-----------------------------------------------------------------------------
(* The graph state                                                         *)

NoSnapshot == [url |-> NoUrl, elements |-> {}]
NoResult == [met |-> FALSE, redirect |-> NoUrl, undo |-> NoUndo]

\* The channels' defaults (state.ts).
FreshState ==
  [phase |-> "start", snapshot |-> NoSnapshot, tasks |-> <<>>, cursor |-> 1,
   result |-> NoResult, verdict |-> [task |-> 0, passed |-> FALSE],
   decision |-> [task |-> 0, approved |-> FALSE],
   steps |-> 0, toolCalls |-> 0, costMicros |-> 0, status |-> "running",
   reason |-> "none", needsReplan |-> FALSE, anomaly |-> FALSE,
   memoryEvents |-> {}]

Current == state.tasks[state.cursor]

\* The plan with the current task replaced, or with a new status.
WithCurrent(task) == [state.tasks EXCEPT ![state.cursor] = task]
WithStatus(status) == WithCurrent([Current EXCEPT !.status = status])

IsPending(tasks, i) == i \in DOMAIN tasks /\ tasks[i].status = "pending"

\* Mutants of FirstPending: findIndex's -1 kept as a cursor; the last pending task.
FirstPendingRaw(tasks) ==
  LET first(i) == IsPending(tasks, i) /\ \A j \in 1 .. i - 1 : ~IsPending(tasks, j)
  IN  IF \E i \in DOMAIN tasks : first(i) THEN CHOOSE i \in DOMAIN tasks : first(i) ELSE -1
LastPending(tasks) ==
  LET last(i) == IsPending(tasks, i) /\ \A j \in DOMAIN tasks : j > i => ~IsPending(tasks, j)
  IN  IF \E i \in DOMAIN tasks : last(i) THEN CHOOSE i \in DOMAIN tasks : last(i) ELSE 0

\* The first pending task, 0 if there is none.
FirstPending(tasks) ==
  LET first(i) == IsPending(tasks, i) /\ \A j \in 1 .. i - 1 : ~IsPending(tasks, j)
  IN  IF \E i \in DOMAIN tasks : first(i) THEN CHOOSE i \in DOMAIN tasks : first(i) ELSE 0

\* Backstop passed to LangGraph, in supersteps.
RecursionLimit == budget.maxSteps * 8 + 20

\* One superstep ends; the counter saturates just above the backstop.
Superstep == supersteps' = IF supersteps > RecursionLimit THEN supersteps
                                                          ELSE supersteps + 1
GoTo(node) == frontier' = {node} /\ Superstep /\ UNCHANGED outcome
Finish == frontier' = {} /\ Superstep /\ outcome' = "finished"

\* The planner's terminate(): status, reason and phase together.
Terminate(st, reason) ==
  [st EXCEPT !.status = IF reason = "completed" THEN "done" ELSE "terminated",
             !.reason = reason, !.phase = "done"]

\* Mutant: the tool-call budget is not checked.
CheckStepsAndCost(steps) ==
  IF steps > budget.maxSteps THEN "budget_steps"
  ELSE IF state.costMicros > budget.maxCostMicros THEN "budget_cost"
  ELSE "none"

CheckBudget(steps) ==
  IF steps > budget.maxSteps THEN "budget_steps"
  ELSE IF state.toolCalls > budget.maxToolCalls THEN "budget_tool_calls"
  ELSE IF state.costMicros > budget.maxCostMicros THEN "budget_cost"
  ELSE "none"

-----------------------------------------------------------------------------
(* Nodes                                                                   *)

Idle == UNCHANGED <<page, calls, executed, faults, perceived, unseen>>

\* Mutant: perception waits for a page that is not blocked.
PerceptionWaits(elements) ==
  /\ "perception" \in frontier
  /\ frontier' = IF IsBlocked(page.url) THEN frontier ELSE frontier \ {"perception"}
  /\ perceived' = <<[url |-> page.url, elements |-> elements]>>
  /\ unseen' = FALSE
  /\ UNCHANGED <<session, state, page, outcome, supersteps, faults, calls, executed>>

\* perceptionNode: snapshot the page; the update is buffered until the join.
Perception(elements) ==
  /\ "perception" \in frontier
  /\ frontier' = frontier \ {"perception"}
  /\ perceived' = <<[url |-> page.url, elements |-> elements]>>
  /\ unseen' = FALSE
  /\ UNCHANGED <<session, state, page, outcome, supersteps, faults, calls, executed>>

\* researcherNode: grounds the run; nothing it returns steers the graph.
Researcher ==
  /\ "researcher" \in frontier
  /\ frontier' = frontier \ {"researcher"}
  /\ UNCHANGED <<session, state, perceived, page, outcome, supersteps, faults, calls, executed,
                 unseen>>

\* Both have finished: their updates are applied and the planner runs once.
Join ==
  /\ outcome = "running" /\ frontier = {}
  /\ state' = [state EXCEPT !.snapshot = perceived[1],
                            !.anomaly = @ \/ IsBlocked(perceived[1].url)]
  /\ perceived' = <<>>
  /\ GoTo("planner")
  /\ UNCHANGED <<session, page, faults, calls, executed, unseen>>

\* Mutant: the anomaly flag is ignored.
StopOnBudgetOnly == CheckBudget(state.steps + 1)

\* Why the planner stops on entry, an anomaly first: "none" if it goes on.
StopReason ==
  IF state.anomaly THEN "anomaly" ELSE CheckBudget(state.steps + 1)

\* plannerNode, entered after a veto or in a session that already ended.
PlannerDone ==
  /\ frontier = {"planner"} /\ state.status # "running"
  /\ state' = [state EXCEPT !.phase = "done"]
  /\ Finish /\ Idle /\ UNCHANGED session

PlannerStop ==
  /\ frontier = {"planner"} /\ state.status = "running"
  /\ StopReason # "none"
  /\ state' = Terminate([state EXCEPT !.steps = @ + 1], StopReason)
  /\ Finish /\ Idle /\ UNCHANGED session

\* First entry: build the plan and start at its first task.
PlannerPlan(skillHit) ==
  /\ frontier = {"planner"} /\ state.status = "running"
  /\ StopReason = "none" /\ state.phase = "start"
  /\ LET tasks == BuildPlan(intent, state.snapshot, skillHit)
     IN  /\ state' = [state EXCEPT !.steps = @ + 1, !.tasks = tasks,
                                   !.cursor = FirstPending(tasks), !.phase = "act"]
         /\ executed' = [i \in DOMAIN tasks |-> 0]
  /\ GoTo("critic")
  /\ UNCHANGED <<session, page, faults, calls, perceived, unseen>>

\* A failed task is retried while attempts remain and it looks feasible.
Replan(task) ==
  LET attempts == task.attempts + 1
      retry == attempts < MaxAttempts /\ FeasibilityPrecheck(task, state.snapshot)
  IN  [task EXCEPT !.attempts = attempts,
                   !.status = IF retry THEN "pending" ELSE "failed"]

\* The plan the planner re-enters with.
Replanned ==
  IF state.needsReplan
  THEN [state.tasks EXCEPT ![state.verdict.task] = Replan(@)]
  ELSE state.tasks

\* Re-entry: go to the first pending task, or end as completed.
PlannerAdvance ==
  /\ frontier = {"planner"} /\ state.status = "running"
  /\ StopReason = "none" /\ state.phase # "start"
  /\ LET tasks == Replanned
         cursor == FirstPending(tasks)
         next == [state EXCEPT !.steps = @ + 1, !.tasks = tasks, !.needsReplan = FALSE]
     IN  \/ /\ cursor = 0
            /\ state' = Terminate([next EXCEPT !.cursor = 1], "completed")
            /\ Finish
         \/ /\ cursor # 0
            /\ state' = [next EXCEPT !.cursor = cursor, !.phase = "act"]
            /\ GoTo("critic")
  /\ Idle /\ UNCHANGED session

\* The page the critic judges: a navigation's target, otherwise the page seen
\* by perception, once, at the start of the run.
JudgedUrl(task) == IF task.kind = "navigate" THEN task.target ELSE state.snapshot.url

\* The task with its effective blast radius and the votes cast on it.
Vetted(task) ==
  LET blast == MaxBlast(task.blast, ClassifyBlastRadius(task))
  IN  [task EXCEPT !.blast = blast,
         !.approvals = [planner |-> @.planner,
                        critic |-> ~IsBlocked(JudgedUrl(task)),
                        verifier |-> IF blast = "high"
                                     THEN FeasibilityPrecheck(task, state.snapshot)
                                     ELSE @.verifier]]

\* Mutant: the critic decides alone, whatever the blast radius.
CriticAlone(vetted) == vetted.approvals.critic

\* The critic's vote, and for a high blast radius the whole quorum's.
Approved(vetted) ==
  /\ vetted.approvals.critic
  /\ vetted.blast = "high" => vetted.approvals.planner /\ vetted.approvals.verifier

\* routeFromCritic: an approved task to its worker, a veto to the planner.
RouteFromCritic(task, approved) == IF approved THEN task.agent ELSE "planner"

\* criticNode: approve the current task, or veto it and end the run.
Critic ==
  /\ frontier = {"critic"}
  /\ LET vetted == Vetted(Current)
         decided == [state EXCEPT !.decision = [task |-> state.cursor,
                                                approved |-> Approved(vetted)]]
     IN  \/ /\ Approved(vetted)
            /\ state' = [decided EXCEPT !.tasks = WithCurrent(vetted)]
            /\ GoTo(RouteFromCritic(vetted, TRUE))
         \/ /\ ~Approved(vetted)
            /\ state' = [decided EXCEPT
                           !.tasks = WithCurrent([vetted EXCEPT !.status = "skipped"]),
                           !.status = "terminated",
                           !.reason = IF vetted.approvals.critic THEN "quorum_failed"
                                      ELSE "critic_veto"]
            /\ GoTo(RouteFromCritic(vetted, FALSE))
  /\ Idle /\ UNCHANGED session

\* workerNode: execute the task's action, whatever it reports, and account for it.
Worker(agent) ==
  /\ frontier = {agent}
  /\ \E o \in Outcomes :
       /\ page' = PageAfter(Current, o.redirect)
       /\ unseen' = (~o.shown /\ Hidden(page'))
       /\ state' = [state EXCEPT
                      !.toolCalls = @ + 1, !.costMicros = @ + CallCost,
                      !.tasks = WithStatus("running"),
                      !.result = [met |-> o.met, redirect |-> Shown(page', o.shown),
                                  undo |-> UndoOf(page, Current)]]
  /\ calls' = calls + 1
  /\ executed' = [executed EXCEPT ![state.cursor] = @ + 1]
  /\ GoTo("verifier")
  /\ UNCHANGED <<session, faults, perceived>>

Passed(r) == r.met /\ r.redirect = NoUrl

\* verifierNode, post-state as expected.
VerifierPass ==
  /\ frontier = {"verifier"} /\ Passed(state.result)
  /\ state' = [state EXCEPT !.tasks = WithStatus("done"),
                            !.verdict = [task |-> state.cursor, passed |-> TRUE]]
  /\ GoTo("memory")
  /\ Idle /\ UNCHANGED session

\* The rollback: the undo action is executed and its result ignored, so an
\* undo the executor refuses (a fault) goes unnoticed, and so does a redirect.
RollBack ==
  LET undo == state.result.undo
  IN  \/ /\ undo = NoUndo
         /\ UNCHANGED <<page, calls, faults, unseen>>
      \/ /\ undo # NoUndo
         /\ calls' = calls + 1
         /\ \/ /\ \E url \in BlockedUrls \cup {NoUrl} :
                    page' = Redirected(ApplyAction(page, undo.kind, undo.target, undo.set), url)
               /\ unseen' = Hidden(page')
               /\ UNCHANGED faults
            \/ faults < MaxFaults /\ faults' = faults + 1 /\ UNCHANGED <<page, unseen>>

\* verifierNode, post-state diverged.
VerifierFail ==
  /\ frontier = {"verifier"} /\ ~Passed(state.result)
  /\ RollBack
  /\ state' = [state EXCEPT !.tasks = WithStatus("failed"),
                            !.verdict = [task |-> state.cursor, passed |-> FALSE],
                            !.needsReplan = TRUE,
                            !.anomaly = @ \/ state.result.redirect # NoUrl]
  /\ GoTo("planner")
  /\ UNCHANGED <<session, executed, perceived>>

\* What buildMemoryEvents derives from the current task.
MemoryEvents(task, i) ==
  {[kind |-> "action_taken", task |-> i]}
  \cup (IF task.status = "failed" THEN {[kind |-> "failure", task |-> i]} ELSE {})
  \cup (IF task.status = "done" THEN {[kind |-> "skill_candidate", task |-> i]} ELSE {})

\* memoryNode: record the current task's events, then back to the planner.
Memory ==
  /\ frontier = {"memory"}
  /\ state' = [state EXCEPT !.memoryEvents = @ \cup MemoryEvents(Current, state.cursor)]
  /\ GoTo("planner")
  /\ Idle /\ UNCHANGED session

-----------------------------------------------------------------------------
(* Runs                                                                    *)

\* The nodes that await something that may reject: the executor (snapshot,
\* execute) or the memory store (retrieve, recordEvents).
MayThrow(node) ==
  \/ node \in {"perception", "researcher", "memory"} \cup WorkerAgents
  \/ node = "planner" /\ state.status = "running" /\ state.phase = "start"
       /\ StopReason = "none"
  \/ node = "verifier" /\ ~Passed(state.result) /\ state.result.undo # NoUndo

\* What a throwing node may already have done to the page.
PartialEffects(node) ==
  {page} \cup
  CASE node \in WorkerAgents ->
         {PageAfter(Current, url) : url \in BlockedUrls \cup {NoUrl}}
    [] node = "verifier" ->
         LET undo == state.result.undo
         IN  {Redirected(ApplyAction(page, undo.kind, undo.target, undo.set), url) :
                url \in BlockedUrls \cup {NoUrl}}
    [] OTHER -> {}

\* graph.invoke rejects: runOrchestration publishes "error" and rethrows.
NodeThrows(node) ==
  /\ node \in frontier /\ MayThrow(node) /\ faults < MaxFaults
  /\ faults' = faults + 1
  /\ page' \in PartialEffects(node)
  /\ unseen' = Hidden(page')
  /\ calls' = IF node \in WorkerAgents \cup {"verifier"} THEN calls + 1 ELSE calls
  /\ executed' = IF node \in WorkerAgents
                 THEN [executed EXCEPT ![state.cursor] = @ + 1] ELSE executed
  /\ frontier' = {} /\ perceived' = <<>> /\ outcome' = "error"
  /\ UNCHANGED <<session, state, supersteps>>

\* runOrchestration again for the same session: a shared checkpointer hands
\* back the channels of the last run, the default one starts afresh.
Rerun ==
  /\ outcome # "running" /\ runs < MaxRuns
  /\ runs' = runs + 1
  /\ outcome' = "running" /\ frontier' = {"perception", "researcher"}
  /\ supersteps' = 0
  /\ IF durable THEN UNCHANGED <<state, calls, executed>>
     ELSE state' = FreshState /\ calls' = 0 /\ executed' = <<>>
  /\ UNCHANGED <<intent, budget, durable, perceived, page, faults, unseen>>

Init ==
  /\ intent \in Intents /\ budget \in Budgets /\ durable \in BOOLEAN
  /\ state = FreshState
  /\ frontier = {"perception", "researcher"} /\ perceived = <<>>
  /\ page \in [url: Urls, filled: {{}}, submitted: {FALSE}]
  /\ outcome = "running" /\ supersteps = 0
  /\ runs = 1 /\ faults = 0 /\ calls = 0 /\ executed = <<>>
  /\ unseen = FALSE

Planner == PlannerDone \/ PlannerStop \/ PlannerAdvance
           \/ \E skillHit \in BOOLEAN : PlannerPlan(skillHit)

\* The graph working through a run, with no call failing outright.
GraphStep ==
  \/ \E elements \in ElementSets : Perception(elements)
  \/ Researcher \/ Join
  \/ Planner \/ Critic
  \/ \E agent \in WorkerAgents : Worker(agent)
  \/ VerifierPass \/ VerifierFail \/ Memory

Nodes == {"perception", "researcher", "planner", "critic", "verifier", "memory"}
         \cup WorkerAgents

Next == GraphStep \/ (\E node \in Nodes : NodeThrows(node)) \/ Rerun

Spec == Init /\ [][Next]_vars

\* LangGraph schedules the frontier as long as a run is in progress and every
\* awaited call settles; nobody has to start another run.
FairSpec == Spec /\ WF_vars(GraphStep)

-----------------------------------------------------------------------------
(* Properties                                                              *)

Approvals == [planner: BOOLEAN, verifier: BOOLEAN, critic: BOOLEAN]
Task ==
  [agent: WorkerAgents, kind: {"navigate", "fill", "click", "submit", "extract"},
   target: Targets, risky: BOOLEAN, blast: BlastRadii,
   status: {"pending", "running", "done", "failed", "skipped"},
   attempts: Nat, approvals: Approvals]
Snapshot == [url: Targets, elements: ElementSets \cup {{}}]
Page == [url: Targets, filled: SUBSET Targets, submitted: BOOLEAN]
Undo == [kind: {"none", "navigate", "fill"}, target: Targets, set: BOOLEAN]
Result == [met: BOOLEAN, redirect: BlockedUrls \cup {NoUrl}, undo: Undo]
Verdict == [task: Nat, passed: BOOLEAN]
Decision == [task: Nat, approved: BOOLEAN]
MemoryEvent == [kind: {"action_taken", "failure", "skill_candidate"}, task: Nat]
Phases == {"start", "act", "done"}
RunStatuses == {"running", "done", "terminated"}
Reasons == {"none", "completed", "budget_steps", "budget_tool_calls", "budget_cost",
            "critic_veto", "quorum_failed", "anomaly"}
State ==
  [phase: Phases, snapshot: Snapshot, tasks: Seq(Task), cursor: Nat, result: Result,
   verdict: Verdict, decision: Decision, steps: Nat, toolCalls: Nat, costMicros: Nat,
   status: RunStatuses, reason: Reasons, needsReplan: BOOLEAN, anomaly: BOOLEAN,
   memoryEvents: SUBSET MemoryEvent]

\* The type invariant: what the channels of state.ts, the page and the
\* counters may hold.
TypeOK ==
  /\ intent \in Intents /\ budget \in Budgets /\ durable \in BOOLEAN
  /\ state \in State
  /\ frontier \in SUBSET Nodes
  /\ perceived \in {<<>>} \cup {<<s>> : s \in Snapshot}
  /\ page \in Page
  /\ outcome \in {"running", "finished", "error"}
  /\ supersteps \in Nat /\ runs \in Nat /\ faults \in Nat /\ calls \in Nat
  /\ executed \in Seq(Nat)
  /\ unseen \in BOOLEAN

\* A session's budget is a cap the loop overshoots by at most one call: the
\* planner checks it on entry only, so the call that crosses a limit is made
\* and the next planner entry ends the run.  Rollbacks are executor calls the
\* budget never sees, at most one per counted call.
BudgetCaps ==
  /\ state.steps <= budget.maxSteps + 1
  /\ state.toolCalls <= budget.maxToolCalls + 1
  /\ state.toolCalls <= budget.maxSteps
  /\ state.costMicros <= budget.maxCostMicros + CallCost
  /\ calls <= 2 * state.toolCalls + faults

\* The recursion limit is a backstop "well above" the step budget (run.ts):
\* no run is ever cut off by it, whatever path it takes through the nodes.
BackstopUnreached == supersteps <= RecursionLimit

\* The action of task i is being executed in this step.
Executes(i) ==
  /\ i \in DOMAIN executed \cap DOMAIN executed'
  /\ executed'[i] > executed[i]

\* No action is executed without the critic's vote on that very task, and a
\* high-blast one only with all three votes, on first attempts, retries,
\* later tasks and resumed sessions alike.
QuorumBeforeAct ==
  [][\A i \in DOMAIN executed : Executes(i) =>
       LET task == state.tasks[i]
       IN  /\ task.approvals.critic
           /\ ClassifyBlastRadius(task) = "high" =>
                task.approvals = [planner |-> TRUE, verifier |-> TRUE, critic |-> TRUE]
    ]_vars

\* No navigation to a blocked address is executed, and once a snapshot or the
\* result of a call has shown the page to be on one nothing is executed there,
\* through rollbacks, retries, failed calls and resumed sessions.  Where the
\* page was led without any result showing it, by a call or by a rollback, the
\* run goes on (nodes.ts:279 knows the page by the result's postState.url only).
NeverActsOnBlocked ==
  [][\A i \in DOMAIN executed : Executes(i) =>
       /\ IsBlocked(page.url) => unseen
       /\ state.tasks[i].kind = "navigate" => ~IsBlocked(state.tasks[i].target)
    ]_vars

\* Tasks are executed in plan order: one starts (or is retried) only when no
\* earlier task is still pending.
InPlanOrder ==
  [][\A i \in DOMAIN executed : Executes(i) =>
       \A j \in 1 .. i - 1 : state.tasks[j].status # "pending"]_vars

\* Between tasks the page holds only the effects of verified tasks: every
\* diverged fill or navigation has been rolled back.  (A submission cannot be
\* undone, and a redirect leaves the page on the blocked address it led to.)
OnlyVerifiedEffects ==
  faults = 0 /\ runs = 1 /\ frontier = {"planner"} =>
    LET done(kind) == {state.tasks[i].target : i \in
                         {j \in DOMAIN state.tasks : /\ state.tasks[j].status = "done"
                                                     /\ state.tasks[j].kind = kind}}
    IN  /\ page.filled \subseteq done("fill")
        /\ page.url \in {state.snapshot.url} \cup done("navigate") \cup BlockedUrls

\* Every run ends, finished or with an error.
EveryRunEnds == outcome = "running" ~> outcome # "running"

=============================================================================
