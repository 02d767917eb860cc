--------------------------- MODULE AgentGraphProofs ---------------------------
(* Proofs about AgentGraph, for every value of its constants.              *)
EXTENDS AgentGraph, TLAPS

Steady == {"critic", "verifier", "memory"} \cup WorkerAgents

\* What is scheduled, and what perception has buffered for the join.
FrontierOK ==
  \/ /\ outcome = "running" /\ "perception" \in frontier
     /\ frontier \in SUBSET {"perception", "researcher"} /\ perceived = <<>>
  \/ /\ outcome = "running" /\ frontier \in SUBSET {"researcher"}
     /\ \E s \in Snapshot : perceived = <<s>>
  \/ /\ outcome = "running" /\ perceived = <<>>
     /\ \E n \in {"planner"} \cup Steady : frontier = {n}
  \/ outcome \in {"finished", "error"} /\ frontier = {} /\ perceived = <<>>

\* The cursor points at a task while one is being worked on.
CursorOK ==
  /\ frontier \cap Steady # {} => /\ state.cursor \in DOMAIN state.tasks
                                  /\ state.status = "running"
  /\ Len(executed) = Len(state.tasks)

TypeInv == TypeOK /\ FrontierOK /\ CursorOK

-----------------------------------------------------------------------------
(* Types of the operators                                                  *)

\* The first pending task is a task of the plan, pending, with none before it.
LEMMA FirstPendingProp ==
  ASSUME NEW tasks \in Seq(Task)
  PROVE  /\ FirstPending(tasks) \in Nat
         /\ FirstPending(tasks) # 0 =>
              /\ FirstPending(tasks) \in DOMAIN tasks
              /\ tasks[FirstPending(tasks)].status = "pending"
              /\ \A j \in 1 .. FirstPending(tasks) - 1 : tasks[j].status # "pending"
<1> DEFINE first(i) == IsPending(tasks, i) /\ \A j \in 1 .. i - 1 : ~IsPending(tasks, j)
<1>1. CASE \E i \in DOMAIN tasks : first(i)
  <2>1. FirstPending(tasks) \in DOMAIN tasks /\ first(FirstPending(tasks))
    <3>1. FirstPending(tasks) = CHOOSE i \in DOMAIN tasks : first(i)
      BY <1>1 DEF FirstPending
    <3> HIDE DEF first
    <3>2. QED  BY <1>1, <3>1
  <2>2. DOMAIN tasks = 1 .. Len(tasks)
    OBVIOUS
  <2>3. QED  BY <2>1, <2>2 DEF IsPending
<1>2. CASE ~ \E i \in DOMAIN tasks : first(i)
  BY <1>2 DEF FirstPending
<1>3. QED  BY <1>1, <1>2

PendingTask == {t \in Task : t.status = "pending"}

LEMMA MakeTaskType ==
  ASSUME NEW agent \in WorkerAgents,
         NEW kind \in {"navigate", "fill", "click", "submit", "extract"},
         NEW target \in Targets, NEW risky \in BOOLEAN, NEW blast \in BlastRadii
  PROVE  MakeTask(agent, kind, target, risky, blast) \in PendingTask
<1>1. MakeTask(agent, kind, target, risky, blast) \in Task
  BY DEF MakeTask, Task, Approvals
<1>2. MakeTask(agent, kind, target, risky, blast).status = "pending"
  BY DEF MakeTask
<1>3. QED  BY <1>1, <1>2 DEF PendingTask

LEMMA SelectorType ==
  ASSUME NEW s \in Snapshot, NEW role, NEW default \in Defaults
  PROVE  SelectorForRole(s, role, default) \in Targets
<1>1. CASE \E e \in s.elements : e.role = role
  <2>1. PICK e \in s.elements : /\ e = CHOOSE x \in s.elements : x.role = role
                                /\ e.role = role
    BY <1>1
  <2>2. e \in UNION ElementSets
    BY DEF Snapshot
  <2>3. QED  BY <1>1, <2>1, <2>2 DEF SelectorForRole, Targets, Selectors
<1>2. CASE ~ \E e \in s.elements : e.role = role
  BY <1>2 DEF SelectorForRole, Targets, Selectors
<1>3. QED  BY <1>1, <1>2

LEMMA WhenType ==
  ASSUME NEW S, NEW cond \in BOOLEAN, NEW seq \in Seq(S)
  PROVE  When(cond, seq) \in Seq(S)
BY DEF When

\* Every plan is a nonempty sequence of well-formed pending tasks.
LEMMA PlanType ==
  ASSUME NEW i \in IntentShape, NEW s \in Snapshot, NEW skillHit \in BOOLEAN
  PROVE  BuildPlan(i, s, skillHit) \in Seq(PendingTask) /\ BuildPlan(i, s, skillHit) # <<>>
<1> DEFINE box(default) == SelectorForRole(s, "textbox", default)
           button == SelectorForRole(s, "button", "#submit")
           acting == i.url # NoUrl \/ i.search \/ i.form \/ i.buy
           nav == MakeTask("navigator", "navigate", i.url, FALSE, "medium")
           fill == MakeTask("form", "fill", box("#search"), i.risky, "low")
           click == MakeTask("navigator", "click", button, FALSE, "low")
           form == MakeTask("form", "fill", box("#field"), FALSE, "medium")
           buy == MakeTask("form", "submit", button, FALSE, "high")
           read == MakeTask("extractor", "extract", s.url, FALSE, "low")
           part1 == When(i.url # NoUrl, <<nav>>)
           part2 == When(i.search, <<fill, click>>)
           part3 == When(i.form /\ ~i.search, <<form>>)
           part4 == When(i.buy, <<buy>>)
           part5 == When(i.read \/ ~acting, <<read>>)
           part0 == When(skillHit, <<read>>)
<1>1. box("#search") \in Targets /\ box("#field") \in Targets /\ button \in Targets
  BY SelectorType DEF Defaults
<1>2. i.url \in Targets /\ s.url \in Targets /\ i.risky \in BOOLEAN
  BY DEF IntentShape, Snapshot, Targets
<1>3. /\ nav \in PendingTask /\ fill \in PendingTask /\ click \in PendingTask
      /\ form \in PendingTask /\ buy \in PendingTask /\ read \in PendingTask
  <2> HIDE DEF box, button
  <2>1. QED  BY <1>1, <1>2, MakeTaskType DEF WorkerAgents, BlastRadii
<1>4. DecomposeIntent(i, s) = part1 \o part2 \o part3 \o part4 \o part5
  BY DEF DecomposeIntent
<1>5. BuildPlan(i, s, skillHit) = part0 \o DecomposeIntent(i, s)
  BY DEF BuildPlan
<1> HIDE DEF nav, fill, click, form, buy, read
<1>6. /\ part0 \in Seq(PendingTask) /\ part1 \in Seq(PendingTask)
      /\ part2 \in Seq(PendingTask) /\ part3 \in Seq(PendingTask)
      /\ part4 \in Seq(PendingTask) /\ part5 \in Seq(PendingTask)
  <2>1. /\ <<nav>> \in Seq(PendingTask) /\ <<fill, click>> \in Seq(PendingTask)
        /\ <<form>> \in Seq(PendingTask) /\ <<buy>> \in Seq(PendingTask)
        /\ <<read>> \in Seq(PendingTask)
    BY <1>3
  <2>2. QED  BY <2>1 DEF When
<1>7. Len(part1) + Len(part2) + Len(part3) + Len(part4) + Len(part5) > 0
  <2>1. CASE i.url # NoUrl
    BY <1>6, <2>1 DEF When
  <2>2. CASE i.search
    BY <1>6, <2>2 DEF When
  <2>3. CASE i.form /\ ~i.search
    BY <1>6, <2>3 DEF When
  <2>4. CASE i.buy
    BY <1>6, <2>4 DEF When
  <2>5. CASE ~acting
    BY <1>6, <2>5 DEF When
  <2>6. QED  BY <2>1, <2>2, <2>3, <2>4, <2>5
<1> HIDE DEF part0, part1, part2, part3, part4, part5
<1>8. QED  BY <1>4, <1>5, <1>6, <1>7

-----------------------------------------------------------------------------
(* Type correctness                                                        *)

LEMMA FreshType == FreshState \in State
<1>1. NoSnapshot \in Snapshot
  BY DEF NoSnapshot, Snapshot, Targets
<1>2. NoResult \in Result
  BY DEF NoResult, Result, NoUndo, Undo, Targets
<1>3. QED  BY <1>1, <1>2 DEF FreshState, State, Verdict, Decision, Phases, RunStatuses, Reasons

LEMMA InitTypeInv == Init => TypeInv
<1> SUFFICES ASSUME Init PROVE TypeInv
  OBVIOUS
<1>1. TypeOK
  <2>1. page \in Page
    BY DEF Init, Page, Targets
  <2>2. frontier \in SUBSET Nodes
    BY DEF Init, Nodes
  <2>3. unseen \in BOOLEAN
    BY DEF Init
  <2>4. QED  BY <2>1, <2>2, <2>3, FreshType DEF Init, TypeOK
<1>2. FrontierOK
  BY DEF Init, FrontierOK
<1>3. CursorOK
  BY DEF Init, CursorOK, Steady, WorkerAgents, FreshState
<1>4. QED  BY <1>1, <1>2, <1>3 DEF TypeInv

\* The facts about GoTo and Finish every node needs.
LEMMA GoToType ==
  ASSUME TypeInv, NEW n \in {"planner"} \cup Steady, outcome = "running", GoTo(n),
         perceived' = <<>>
  PROVE  /\ frontier' \in SUBSET Nodes /\ outcome' = "running"
         /\ supersteps' \in Nat /\ FrontierOK'
BY DEF TypeInv, TypeOK, GoTo, Superstep, FrontierOK, Nodes, Steady, WorkerAgents

LEMMA FinishType ==
  ASSUME TypeInv, Finish, perceived' = <<>>
  PROVE  /\ frontier' \in SUBSET Nodes /\ outcome' = "finished"
         /\ supersteps' \in Nat /\ FrontierOK'
BY DEF TypeInv, TypeOK, Finish, Superstep, FrontierOK, Nodes, Steady, WorkerAgents

\* A node other than perception and researcher runs in a run in progress.
LEMMA NodeRunning ==
  ASSUME TypeInv, NEW n \in {"planner"} \cup Steady, frontier = {n}
  PROVE  outcome = "running" /\ perceived = <<>>
         /\ (n \in Steady => state.cursor \in DOMAIN state.tasks /\ state.status = "running")
BY DEF TypeInv, FrontierOK, CursorOK, Steady, WorkerAgents

Statuses == {"pending", "running", "done", "failed", "skipped"}

\* Replacing the current task keeps the plan a plan of the same length.
LEMMA WithCurrentType ==
  ASSUME state \in State, state.cursor \in DOMAIN state.tasks, NEW task \in Task
  PROVE  /\ WithCurrent(task) \in Seq(Task)
         /\ Len(WithCurrent(task)) = Len(state.tasks)
         /\ DOMAIN WithCurrent(task) = DOMAIN state.tasks
BY DEF WithCurrent, State

LEMMA WithStatusType ==
  ASSUME state \in State, state.cursor \in DOMAIN state.tasks, NEW status \in Statuses
  PROVE  /\ Current \in Task
         /\ WithStatus(status) \in Seq(Task)
         /\ Len(WithStatus(status)) = Len(state.tasks)
         /\ DOMAIN WithStatus(status) = DOMAIN state.tasks
<1>1. Current \in Task
  BY DEF Current, State
<1>2. [Current EXCEPT !.status = status] \in Task
  BY <1>1 DEF Task, Statuses
<1>3. QED  BY <1>1, <1>2, WithCurrentType DEF WithStatus

\* Where a redirect leads is a page, which holds what the page held.
LEMMA RedirectedType ==
  ASSUME NEW p \in Page, NEW url \in BlockedUrls \cup {NoUrl}
  PROVE  /\ Redirected(p, url) \in Page
         /\ Redirected(p, url).filled = p.filled
         /\ Redirected(p, url).url = IF url = NoUrl THEN p.url ELSE url
BY AgentAssumption DEF Redirected, Page, Targets

\* What an undo leads to is a page.
LEMMA UndoType ==
  ASSUME page \in Page, NEW undo \in Undo
  PROVE  ApplyAction(page, undo.kind, undo.target, undo.set) \in Page
BY SMTT(30) DEF ApplyAction, Undo, Page

LEMMA WorkerType ==
  ASSUME TypeInv, NEW agent \in WorkerAgents, Worker(agent)
  PROVE  TypeInv'
<1>1. /\ outcome = "running" /\ perceived = <<>> /\ state.cursor \in DOMAIN state.tasks
      /\ state.status = "running" /\ state \in State
  BY NodeRunning DEF Worker, Steady, TypeInv, TypeOK
<1>2. Current \in Task /\ WithStatus("running") \in Seq(Task)
      /\ Len(WithStatus("running")) = Len(state.tasks)
      /\ DOMAIN WithStatus("running") = DOMAIN state.tasks
  BY <1>1, WithStatusType DEF Statuses
<1>3. PICK o \in Outcomes :
        /\ page' = PageAfter(Current, o.redirect)
        /\ unseen' = (~o.shown /\ Hidden(page'))
        /\ state' = [state EXCEPT
                      !.toolCalls = @ + 1, !.costMicros = @ + CallCost,
                      !.tasks = WithStatus("running"),
                      !.result = [met |-> o.met, redirect |-> Shown(page', o.shown),
                                  undo |-> UndoOf(page, Current)]]
  BY DEF Worker
<1>4. UndoOf(page, Current) \in Undo
  BY <1>2 DEF TypeInv, TypeOK, UndoOf, Undo, NoUndo, Task, Targets, Page
<1>5. [met |-> o.met, redirect |-> Shown(page', o.shown), undo |-> UndoOf(page, Current)]
        \in Result
  <2>1. Shown(page', o.shown) \in BlockedUrls \cup {NoUrl}
    BY DEF Shown, IsBlocked
  <2> QED BY <1>4, <2>1 DEF Outcomes, Result
<1>6. state.toolCalls + 1 \in Nat /\ state.costMicros + CallCost \in Nat
  BY <1>1, AgentAssumption DEF State
<1>7. state' \in State /\ state'.cursor = state.cursor /\ state'.status = "running"
      /\ state'.tasks = WithStatus("running")
  BY <1>1, <1>2, <1>3, <1>5, <1>6 DEF State
<1>8. page' \in Page
  <2>1. page \in Page /\ o.redirect \in BlockedUrls \cup {NoUrl}
    BY DEF TypeInv, TypeOK, Outcomes
  <2>2. ApplyAction(page, Current.kind, Current.target, TRUE) \in Page
    BY ZenonT(30), <1>2, <2>1 DEF ApplyAction, Task, Page
  <2> QED BY <1>3, <2>1, <2>2, RedirectedType DEF PageAfter
<1>9. executed' \in Seq(Nat) /\ Len(executed') = Len(executed) /\ calls' \in Nat
  BY SMTT(30), <1>1 DEF Worker, TypeInv, TypeOK, CursorOK, State
<1>10. QED
  <2>1. GoTo("verifier") /\ perceived' = <<>> /\ UNCHANGED <<session, faults>>
    BY <1>1 DEF Worker
  <2>2. frontier' \in SUBSET Nodes /\ outcome' = "running" /\ supersteps' \in Nat
        /\ FrontierOK'
    BY <1>1, <2>1, GoToType DEF Steady
  <2>3. TypeOK'
    BY <1>3, <1>7, <1>8, <1>9, <2>1, <2>2 DEF TypeInv, TypeOK, session
  <2>4. CursorOK'
    BY <1>1, <1>2, <1>7, <1>9 DEF TypeInv, CursorOK
  <2>5. QED  BY <2>2, <2>3, <2>4 DEF TypeInv

\* A planner entry that ends the run leaves only the state to check.
LEMMA FinishedType ==
  ASSUME TypeInv, Finish, Idle, UNCHANGED session, frontier = {"planner"},
         state' \in State, Len(state'.tasks) = Len(state.tasks)
  PROVE  TypeInv'
<1>1. perceived' = <<>>
  BY NodeRunning DEF Idle
<1>2. frontier' \in SUBSET Nodes /\ outcome' = "finished" /\ supersteps' \in Nat /\ FrontierOK'
  BY <1>1, FinishType
<1>3. TypeOK'
  BY <1>2 DEF TypeInv, TypeOK, Idle, session, Finish, FrontierOK
<1>4. CursorOK'
  BY <1>2 DEF TypeInv, CursorOK, Idle, Finish, Steady
<1>5. QED  BY <1>2, <1>3, <1>4 DEF TypeInv

\* A node that goes on to n leaves only the state and the cursor to check.
LEMMA GoesOnType ==
  ASSUME TypeInv, NEW n \in {"planner"} \cup Steady, GoTo(n), outcome = "running",
         perceived = <<>>, UNCHANGED <<session, perceived, executed>>,
         faults' \in Nat, calls' \in Nat, page' \in Page, state' \in State, unseen' \in BOOLEAN,
         Len(state'.tasks) = Len(state.tasks),
         n \in Steady => state'.cursor \in DOMAIN state'.tasks /\ state'.status = "running"
  PROVE  TypeInv'
<1>1. frontier' \in SUBSET Nodes /\ outcome' = "running" /\ supersteps' \in Nat /\ FrontierOK'
  BY GoToType
<1>2. TypeOK'
  BY <1>1 DEF TypeInv, TypeOK, session, FrontierOK
<1>3. CursorOK'
  <2>1. frontier' = {n}
    BY DEF GoTo
  <2>2. QED  BY <2>1 DEF TypeInv, CursorOK
<1>4. QED  BY <1>1, <1>2, <1>3 DEF TypeInv

LEMMA TerminateType ==
  ASSUME NEW st \in State, NEW reason \in Reasons
  PROVE  /\ Terminate(st, reason) \in State
         /\ Terminate(st, reason).tasks = st.tasks
BY ZenonT(30) DEF Terminate, State, Phases, RunStatuses, Reasons

LEMMA StepCounted == ASSUME TypeInv PROVE state.steps + 1 \in Nat
BY DEF TypeInv, TypeOK, State

LEMMA PlannerDoneType == ASSUME TypeInv, PlannerDone PROVE TypeInv'
<1>1. state' \in State /\ state'.tasks = state.tasks
  BY DEF PlannerDone, TypeInv, TypeOK, State, Phases
<1>2. QED  BY <1>1, FinishedType DEF PlannerDone

LEMMA PlannerStopType == ASSUME TypeInv, PlannerStop PROVE TypeInv'
<1> DEFINE st == [state EXCEPT !.steps = @ + 1]
<1>1. st \in State /\ st.tasks = state.tasks
  BY StepCounted DEF TypeInv, TypeOK, State
<1>2. StopReason \in Reasons
  BY DEF StopReason, CheckBudget, Reasons
<1>3. state' = Terminate(st, StopReason)
  BY DEF PlannerStop
<1>4. state' \in State /\ state'.tasks = state.tasks
  <2> HIDE DEF st
  <2>1. QED  BY <1>1, <1>2, <1>3, TerminateType
<1>5. QED  BY <1>4, FinishedType DEF PlannerStop

\* Replanning keeps the plan's length and its tasks' shape.
LEMMA ReplannedType ==
  ASSUME state \in State
  PROVE  Replanned \in Seq(Task) /\ Len(Replanned) = Len(state.tasks)
<1>1. ASSUME NEW t \in Task PROVE Replan(t) \in Task
  <2> DEFINE status == IF t.attempts + 1 < MaxAttempts /\ FeasibilityPrecheck(t, state.snapshot)
                       THEN "pending" ELSE "failed"
             attempts == t.attempts + 1
  <2>1. attempts \in Nat
    BY DEF Task
  <2>2. status \in Statuses
    BY DEF Statuses
  <2>3. Replan(t) = [t EXCEPT !.attempts = attempts, !.status = status]
    BY DEF Replan
  <2> HIDE DEF attempts, status
  <2>4. QED  BY <2>1, <2>2, <2>3 DEF Task, Statuses
<1>2. state.tasks \in Seq(Task) /\ state.verdict.task \in Nat
  BY DEF State, Verdict
<1>3. CASE state.needsReplan
  <2> DEFINE v == state.verdict.task
  <2>1. CASE v \in DOMAIN state.tasks
    <3>1. state.tasks[v] \in Task
      BY <1>2, <2>1
    <3>2. Replan(state.tasks[v]) \in Task
      BY <1>1, <3>1
    <3>3. Replanned = [state.tasks EXCEPT ![v] = Replan(state.tasks[v])]
      BY <1>3, <2>1 DEF Replanned
    <3>4. QED  BY <1>2, <2>1, <3>2, <3>3
  <2>2. CASE v \notin DOMAIN state.tasks
    <3>1. Replanned = [state.tasks EXCEPT ![v] = Replan(state.tasks[v])]
      BY <1>3 DEF Replanned
    <3>2. Replanned = state.tasks
      BY <1>2, <2>2, <3>1
    <3>3. QED  BY <1>2, <3>2
  <2>3. QED  BY <2>1, <2>2
<1>4. CASE ~state.needsReplan
  BY <1>2, <1>4 DEF Replanned
<1>5. QED  BY <1>3, <1>4

LEMMA PlannerAdvanceType == ASSUME TypeInv, PlannerAdvance PROVE TypeInv'
<1> DEFINE tasks == Replanned
           cursor == FirstPending(tasks)
           next == [state EXCEPT !.steps = @ + 1, !.tasks = tasks, !.needsReplan = FALSE]
<1>1. state \in State /\ tasks \in Seq(Task) /\ Len(tasks) = Len(state.tasks)
  BY ReplannedType DEF TypeInv, TypeOK
<1>2. next \in State /\ next.tasks = tasks /\ next.status = state.status
  <2> HIDE DEF tasks
  <2>1. QED  BY <1>1, StepCounted DEF State
<1>3. cursor \in Nat /\ (cursor # 0 => cursor \in DOMAIN tasks)
  BY <1>1, FirstPendingProp
<1>4. CASE cursor = 0
  <2> DEFINE last == [next EXCEPT !.cursor = 1]
  <2>1. last \in State /\ last.tasks = tasks
    <3> HIDE DEF next
    <3>1. QED  BY <1>2 DEF State
  <2>2. state' = Terminate(last, "completed") /\ Finish /\ Idle /\ UNCHANGED session
    BY <1>4 DEF PlannerAdvance
  <2>3. state' \in State /\ state'.tasks = tasks
    <3> HIDE DEF last
    <3>1. QED  BY <2>1, <2>2, TerminateType DEF Reasons
  <2>4. QED  BY <1>1, <2>2, <2>3, FinishedType DEF PlannerAdvance
<1>5. CASE cursor # 0
  <2>1. state' = [next EXCEPT !.cursor = cursor, !.phase = "act"] /\ GoTo("critic")
        /\ Idle /\ UNCHANGED session /\ frontier = {"planner"} /\ state.status = "running"
    BY <1>5 DEF PlannerAdvance
  <2>2. state' \in State /\ state'.tasks = tasks /\ state'.cursor = cursor
        /\ state'.status = "running"
    <3> HIDE DEF next, cursor, tasks
    <3>1. QED  BY <1>2, <1>3, <2>1 DEF State, Phases
  <2>3. outcome = "running" /\ perceived = <<>>
    BY <2>1, NodeRunning
  <2>4. state'.cursor \in DOMAIN state'.tasks
    BY <1>3, <1>5, <2>2
  <2>5. "critic" \in Steady /\ "critic" \in {"planner"} \cup Steady
    BY DEF Steady
  <2>6. page' \in Page /\ calls' \in Nat /\ faults' \in Nat
        /\ UNCHANGED <<session, perceived, executed>> /\ unseen' \in BOOLEAN
    BY <2>1 DEF Idle, TypeInv, TypeOK
  <2>7. QED  BY <1>1, <2>1, <2>2, <2>3, <2>4, <2>5, <2>6, GoesOnType
<1>6. QED  BY <1>4, <1>5

LEMMA PlannerPlanType ==
  ASSUME TypeInv, NEW skillHit \in BOOLEAN, PlannerPlan(skillHit)
  PROVE  TypeInv'
<1> DEFINE tasks == BuildPlan(intent, state.snapshot, skillHit)
           cursor == FirstPending(tasks)
<1>1. state \in State /\ intent \in IntentShape /\ state.snapshot \in Snapshot
  BY AgentAssumption DEF TypeInv, TypeOK, State
<1>2. tasks \in Seq(PendingTask) /\ tasks # <<>>
  BY <1>1, PlanType
<1>3. state' = [state EXCEPT !.steps = @ + 1, !.tasks = tasks, !.cursor = cursor,
                             !.phase = "act"]
      /\ executed' = [i \in DOMAIN tasks |-> 0] /\ GoTo("critic")
      /\ frontier = {"planner"} /\ state.status = "running"
      /\ UNCHANGED <<session, page, faults, calls, perceived, unseen>>
  BY DEF PlannerPlan
<1> HIDE DEF tasks
<1>4. tasks \in Seq(Task) /\ IsPending(tasks, 1)
  <2>1. 1 \in DOMAIN tasks /\ tasks[1] \in PendingTask
    BY <1>2
  <2>2. QED  BY <1>2, <2>1 DEF PendingTask, IsPending
<1>5. cursor \in DOMAIN tasks
  <2> DEFINE first(i) == IsPending(tasks, i) /\ \A j \in 1 .. i - 1 : ~IsPending(tasks, j)
  <2>1. first(1) /\ 1 \in DOMAIN tasks
    BY <1>4 DEF IsPending
  <2>2. cursor = CHOOSE i \in DOMAIN tasks : first(i)
    BY <2>1 DEF FirstPending
  <2> HIDE DEF first
  <2>3. QED  BY <2>1, <2>2
<1>6. state' \in State /\ state'.tasks = tasks /\ state'.cursor = cursor
      /\ state'.status = "running"
  <2>1. cursor \in Nat
    BY <1>4, <1>5
  <2> HIDE DEF cursor
  <2>2. QED  BY <1>1, <1>3, <1>4, <2>1, StepCounted DEF State, Phases
<1>7. outcome = "running" /\ perceived' = <<>>
  BY <1>3, NodeRunning
<1>8. frontier' \in SUBSET Nodes /\ outcome' = "running" /\ supersteps' \in Nat /\ FrontierOK'
  BY <1>3, <1>7, GoToType DEF Steady
<1>9. executed' \in Seq(Nat) /\ Len(executed') = Len(tasks)
  BY <1>3, <1>4
<1>10. TypeOK'
  BY <1>3, <1>6, <1>8, <1>9 DEF TypeInv, TypeOK, session
<1>11. CursorOK'
  BY <1>5, <1>6, <1>9 DEF CursorOK
<1>12. QED  BY <1>8, <1>10, <1>11 DEF TypeInv

LEMMA VettedType == ASSUME state \in State, NEW t \in Task PROVE Vetted(t) \in Task
<1> DEFINE blast == MaxBlast(t.blast, ClassifyBlastRadius(t))
           verifier == IF blast = "high" THEN FeasibilityPrecheck(t, state.snapshot)
                       ELSE t.approvals.verifier
           critic == ~IsBlocked(JudgedUrl(t))
<1>1. blast \in BlastRadii
  BY DEF MaxBlast, ClassifyBlastRadius, BlastRadii, Task
<1>2. critic \in BOOLEAN
  OBVIOUS
<1>3. verifier \in BOOLEAN
  BY DEF Task, Approvals, FeasibilityPrecheck
<1>4. [planner |-> t.approvals.planner, critic |-> critic, verifier |-> verifier] \in Approvals
  <2> HIDE DEF verifier, critic
  <2>1. QED  BY <1>2, <1>3 DEF Task, Approvals
<1>5. Vetted(t) = [t EXCEPT !.blast = blast,
                     !.approvals = [planner |-> t.approvals.planner, critic |-> critic,
                                    verifier |-> verifier]]
  BY DEF Vetted
<1>6. QED
  <2> HIDE DEF blast, verifier, critic
  <2>1. QED  BY <1>1, <1>4, <1>5 DEF Task

LEMMA CriticType == ASSUME TypeInv, Critic PROVE TypeInv'
<1> DEFINE vetted == Vetted(Current)
           decided == [state EXCEPT !.decision = [task |-> state.cursor,
                                                  approved |-> Approved(vetted)]]
<1>1. /\ outcome = "running" /\ perceived = <<>> /\ state.cursor \in DOMAIN state.tasks
      /\ state.status = "running" /\ state \in State /\ Current \in Task
  BY NodeRunning, WithStatusType DEF Critic, Steady, TypeInv, TypeOK, Statuses
<1>2. vetted \in Task
  BY <1>1, VettedType
<1>3. [vetted EXCEPT !.status = "skipped"] \in Task
  <2> HIDE DEF vetted
  <2>1. QED  BY <1>2 DEF Task
<1>4. decided \in State /\ decided.cursor = state.cursor /\ decided.status = state.status
      /\ decided.tasks = state.tasks
  <2>1. state.cursor \in Nat /\ Approved(vetted) \in BOOLEAN
    BY <1>1 DEF State, Approved
  <2>2. [task |-> state.cursor, approved |-> Approved(vetted)] \in Decision
    BY <2>1 DEF Decision
  <2>3. QED  BY <1>1, <2>2 DEF State
<1>5. UNCHANGED <<session, perceived, executed>> /\ page' \in Page /\ calls' \in Nat
      /\ unseen' \in BOOLEAN
      /\ faults' \in Nat
  BY DEF Critic, Idle, TypeInv, TypeOK
<1>6. CASE /\ Approved(vetted)
           /\ state' = [decided EXCEPT !.tasks = WithCurrent(vetted)]
           /\ GoTo(RouteFromCritic(vetted, TRUE))
  <2> HIDE DEF decided
  <2>1. vetted.agent \in WorkerAgents /\ RouteFromCritic(vetted, TRUE) = vetted.agent
    BY <1>2 DEF Task, RouteFromCritic
  <2>2. WithCurrent(vetted) \in Seq(Task) /\ Len(WithCurrent(vetted)) = Len(state.tasks)
        /\ DOMAIN WithCurrent(vetted) = DOMAIN state.tasks
    BY <1>1, <1>2, WithCurrentType
  <2>3. state' \in State /\ state'.cursor = state.cursor /\ state'.status = "running"
        /\ state'.tasks = WithCurrent(vetted)
    BY <1>1, <1>4, <1>6, <2>2 DEF State
  <2> HIDE DEF vetted
  <2>4. vetted.agent \in Steady /\ GoTo(vetted.agent)
    BY <1>6, <2>1 DEF Steady
  <2>5. QED  BY <1>1, <1>5, <2>2, <2>3, <2>4, GoesOnType
<1>7. CASE \E reason \in {"quorum_failed", "critic_veto"} :
             /\ state' = [decided EXCEPT
                            !.tasks = WithCurrent([vetted EXCEPT !.status = "skipped"]),
                            !.status = "terminated", !.reason = reason]
             /\ GoTo("planner")
  <2> DEFINE skipped == [vetted EXCEPT !.status = "skipped"]
  <2> HIDE DEF decided
  <2>2. WithCurrent(skipped) \in Seq(Task) /\ Len(WithCurrent(skipped)) = Len(state.tasks)
    BY <1>1, <1>3, WithCurrentType
  <2>3. state' \in State /\ state'.tasks = WithCurrent(skipped)
    BY ZenonT(30), <1>4, <1>7, <2>2 DEF State, RunStatuses, Reasons
  <2>4. "planner" \notin Steady
    BY DEF Steady, WorkerAgents
  <2>5. QED  BY <1>1, <1>5, <1>7, <2>2, <2>3, <2>4, GoesOnType
<1>8. QED  BY <1>6, <1>7 DEF Critic, RouteFromCritic

LEMMA VerifierPassType == ASSUME TypeInv, VerifierPass PROVE TypeInv'
<1>1. /\ outcome = "running" /\ perceived = <<>> /\ state.cursor \in DOMAIN state.tasks
      /\ state.status = "running" /\ state \in State
  BY NodeRunning DEF VerifierPass, Steady, TypeInv, TypeOK
<1>2. WithStatus("done") \in Seq(Task) /\ Len(WithStatus("done")) = Len(state.tasks)
      /\ DOMAIN WithStatus("done") = DOMAIN state.tasks
  BY <1>1, WithStatusType DEF Statuses
<1>3. [task |-> state.cursor, passed |-> TRUE] \in Verdict
  BY <1>1 DEF State, Verdict
<1>4. state' = [state EXCEPT !.tasks = WithStatus("done"),
                             !.verdict = [task |-> state.cursor, passed |-> TRUE]]
  BY DEF VerifierPass
<1>5. state' \in State /\ state'.tasks = WithStatus("done") /\ state'.cursor = state.cursor
      /\ state'.status = "running"
  BY <1>1, <1>2, <1>3, <1>4 DEF State
<1>6. UNCHANGED <<session, perceived, executed>> /\ page' \in Page /\ calls' \in Nat
      /\ unseen' \in BOOLEAN
      /\ faults' \in Nat /\ GoTo("memory") /\ "memory" \in Steady
  BY DEF VerifierPass, Idle, TypeInv, TypeOK, Steady
<1>7. QED  BY <1>1, <1>2, <1>5, <1>6, GoesOnType

LEMMA VerifierFailType == ASSUME TypeInv, VerifierFail PROVE TypeInv'
<1> DEFINE anomaly == state.anomaly \/ state.result.redirect # NoUrl
<1>1. /\ outcome = "running" /\ perceived = <<>> /\ state.cursor \in DOMAIN state.tasks
      /\ state.status = "running" /\ state \in State
  BY NodeRunning DEF VerifierFail, Steady, TypeInv, TypeOK
<1>2. WithStatus("failed") \in Seq(Task) /\ Len(WithStatus("failed")) = Len(state.tasks)
  BY <1>1, WithStatusType DEF Statuses
<1>3. [task |-> state.cursor, passed |-> FALSE] \in Verdict /\ anomaly \in BOOLEAN
  BY <1>1 DEF State, Verdict
<1>4. state' = [state EXCEPT !.tasks = WithStatus("failed"),
                             !.verdict = [task |-> state.cursor, passed |-> FALSE],
                             !.needsReplan = TRUE, !.anomaly = anomaly]
  BY DEF VerifierFail
<1>5. state' \in State /\ state'.tasks = WithStatus("failed")
  <2> HIDE DEF anomaly
  <2>1. QED  BY <1>1, <1>2, <1>3, <1>4 DEF State
<1>6. page' \in Page
  <2>1. state.result.undo \in Undo
    BY <1>1 DEF State, Result
  <2>2. page \in Page
    BY DEF TypeInv, TypeOK
  <2>3. QED  BY <2>1, <2>2, UndoType, RedirectedType DEF VerifierFail, RollBack
<1>7. /\ calls' \in Nat /\ faults' \in Nat
      /\ unseen' \in BOOLEAN
  <2>1. calls' \in Nat /\ faults' \in Nat
    BY DEF VerifierFail, RollBack, TypeInv, TypeOK
  <2>2. unseen' = unseen \/ unseen' = Hidden(page')
    BY DEF VerifierFail, RollBack
  <2>3. unseen \in BOOLEAN /\ Hidden(page') \in BOOLEAN
    BY DEF Hidden, TypeInv, TypeOK
  <2> QED BY <2>1, <2>2, <2>3
<1>8. UNCHANGED <<session, perceived, executed>> /\ GoTo("planner") /\ "planner" \notin Steady
  BY DEF VerifierFail, Steady, WorkerAgents
<1>9. QED  BY <1>1, <1>2, <1>5, <1>6, <1>7, <1>8, GoesOnType

LEMMA MemoryType == ASSUME TypeInv, Memory PROVE TypeInv'
<1>1. /\ outcome = "running" /\ perceived = <<>> /\ state \in State
  BY NodeRunning DEF Memory, Steady, TypeInv, TypeOK
<1>2. state.memoryEvents \cup MemoryEvents(Current, state.cursor) \in SUBSET MemoryEvent
  BY <1>1 DEF State, MemoryEvents, MemoryEvent
<1>3. state' \in State /\ state'.tasks = state.tasks
  BY <1>1, <1>2 DEF Memory, State
<1>4. UNCHANGED <<session, perceived, executed>> /\ page' \in Page /\ calls' \in Nat
      /\ unseen' \in BOOLEAN
      /\ faults' \in Nat /\ GoTo("planner") /\ "planner" \notin Steady
  BY DEF Memory, Idle, TypeInv, TypeOK, Steady, WorkerAgents
<1>5. QED  BY <1>1, <1>3, <1>4, GoesOnType

LEMMA FanOutType ==
  ASSUME TypeInv, Researcher \/ \E elements \in ElementSets : Perception(elements)
  PROVE  TypeInv'
<1>1. CASE Researcher
  <2>1. FrontierOK'
    BY <1>1 DEF Researcher, TypeInv, FrontierOK, Steady, WorkerAgents
  <2>2. CursorOK'
    BY <1>1 DEF Researcher, TypeInv, CursorOK
  <2>3. TypeOK'
    BY <1>1 DEF Researcher, TypeInv, TypeOK, session
  <2>4. QED  BY <2>1, <2>2, <2>3 DEF TypeInv
<1>2. ASSUME NEW elements \in ElementSets, Perception(elements) PROVE TypeInv'
  <2>1. [url |-> page.url, elements |-> elements] \in Snapshot
    BY DEF TypeInv, TypeOK, Page, Snapshot
  <2>2. FrontierOK'
    BY <1>2, <2>1 DEF Perception, TypeInv, FrontierOK, Steady, WorkerAgents
  <2>3. CursorOK'
    BY <1>2 DEF Perception, TypeInv, CursorOK
  <2>4. TypeOK'
    BY <1>2, <2>1 DEF Perception, TypeInv, TypeOK, session
  <2>5. QED  BY <2>2, <2>3, <2>4 DEF TypeInv
<1>3. QED  BY <1>1, <1>2

LEMMA JoinType == ASSUME TypeInv, Join PROVE TypeInv'
<1>1. PICK s \in Snapshot : perceived = <<s>>
  BY DEF Join, TypeInv, FrontierOK
<1>2. state \in State
  BY DEF TypeInv, TypeOK
<1> DEFINE anomaly == state.anomaly \/ IsBlocked(s.url)
<1>3. anomaly \in BOOLEAN
  BY <1>2 DEF State
<1>4. state' = [state EXCEPT !.snapshot = s, !.anomaly = anomaly]
  BY <1>1 DEF Join
<1>5. state' \in State /\ state'.tasks = state.tasks
  <2> HIDE DEF anomaly
  <2>1. QED  BY <1>2, <1>3, <1>4 DEF State
<1>6. GoTo("planner") /\ outcome = "running" /\ perceived' = <<>>
      /\ UNCHANGED <<session, page, faults, calls, executed, unseen>>
  BY DEF Join
<1>7. frontier' \in SUBSET Nodes /\ outcome' = "running" /\ supersteps' \in Nat /\ FrontierOK'
  BY <1>6, GoToType
<1>8. TypeOK'
  BY <1>5, <1>6, <1>7 DEF TypeInv, TypeOK, session
<1>9. CursorOK'
  BY <1>5, <1>6 DEF TypeInv, CursorOK, GoTo, Steady, WorkerAgents
<1>10. QED  BY <1>7, <1>8, <1>9 DEF TypeInv

LEMMA NodeThrowsType ==
  ASSUME TypeInv, NEW node \in Nodes, NodeThrows(node)
  PROVE  TypeInv'
<1>1. FrontierOK' /\ frontier' \in SUBSET Nodes
  BY DEF NodeThrows, FrontierOK
<1>2. executed' \in Seq(Nat) /\ Len(executed') = Len(executed)
  <2>1. CASE node \in WorkerAgents
    <3>1. state.cursor \in DOMAIN state.tasks /\ state \in State
      BY <2>1 DEF NodeThrows, TypeInv, TypeOK, CursorOK, Steady
    <3>2. QED  BY <2>1, <3>1 DEF NodeThrows, TypeInv, TypeOK, CursorOK, State
  <2>2. CASE node \notin WorkerAgents
    BY <2>2 DEF NodeThrows, TypeInv, TypeOK
  <2>3. QED  BY <2>1, <2>2
<1>3. CursorOK'
  BY <1>2 DEF NodeThrows, TypeInv, CursorOK
<1>4. page' \in Page
  <2>1. CASE node \in WorkerAgents
    <3>1. Current \in Task
      <4>1. state.cursor \in DOMAIN state.tasks /\ state \in State
        BY <2>1 DEF NodeThrows, TypeInv, TypeOK, CursorOK, Steady
      <4>2. QED  BY <4>1, WithStatusType DEF Statuses
    <3>2. page' \in {page} \cup {PageAfter(Current, url) : url \in BlockedUrls \cup {NoUrl}}
      <4> DEFINE after == {PageAfter(Current, url) : url \in BlockedUrls \cup {NoUrl}}
      <4>1. PartialEffects(node) = {page} \cup after
        BY <2>1 DEF PartialEffects, WorkerAgents
      <4>2. QED  BY <4>1 DEF NodeThrows
    <3>3. ASSUME NEW url \in BlockedUrls \cup {NoUrl} PROVE PageAfter(Current, url) \in Page
      <4>1. page \in Page
        BY DEF TypeInv, TypeOK
      <4>2. ApplyAction(page, Current.kind, Current.target, TRUE) \in Page
        BY ZenonT(30), <3>1, <4>1 DEF ApplyAction, Task, Page
      <4> QED BY <4>2, RedirectedType DEF PageAfter
    <3>4. page \in Page
      BY DEF TypeInv, TypeOK
    <3>5. QED  BY <3>2, <3>3, <3>4
  <2>2. CASE node = "verifier"
    <3>1. state.result.undo \in Undo
      BY DEF TypeInv, TypeOK, State, Result
    <3> DEFINE undone == ApplyAction(page, state.result.undo.kind,
                                     state.result.undo.target, state.result.undo.set)
    <3>2. PartialEffects(node) =
            {page} \cup {Redirected(undone, url) : url \in BlockedUrls \cup {NoUrl}}
      BY <2>2 DEF PartialEffects, WorkerAgents
    <3>3. page \in Page /\ undone \in Page
      BY <3>1, UndoType DEF TypeInv, TypeOK
    <3> HIDE DEF undone
    <3>4. QED  BY <3>2, <3>3, RedirectedType DEF NodeThrows
  <2>3. CASE node \notin WorkerAgents \cup {"verifier"}
    BY <2>3 DEF NodeThrows, PartialEffects, TypeInv, TypeOK
  <2>4. QED  BY <2>1, <2>2, <2>3
<1>5. TypeOK'
  BY <1>1, <1>2, <1>4 DEF NodeThrows, Hidden, IsBlocked, TypeInv, TypeOK, session
<1>6. QED  BY <1>1, <1>3, <1>5 DEF TypeInv

LEMMA RerunType == ASSUME TypeInv, Rerun PROVE TypeInv'
<1>1. perceived' = <<>> /\ outcome' = "running" /\ frontier' = {"perception", "researcher"}
  BY DEF Rerun, TypeInv, FrontierOK
<1>2. FrontierOK' /\ frontier' \in SUBSET Nodes
  BY <1>1 DEF FrontierOK, Nodes
<1>3. CASE durable
  <2>1. CursorOK'
    BY <1>1, <1>3 DEF Rerun, TypeInv, CursorOK, Steady, WorkerAgents
  <2>2. TypeOK'
    BY <1>1, <1>2, <1>3 DEF Rerun, TypeInv, TypeOK
  <2>3. QED  BY <1>2, <2>1, <2>2 DEF TypeInv
<1>4. CASE ~durable
  <2>1. CursorOK'
    BY <1>1, <1>4 DEF Rerun, CursorOK, Steady, WorkerAgents, FreshState
  <2>2. TypeOK'
    BY <1>1, <1>2, <1>4, FreshType DEF Rerun, TypeInv, TypeOK
  <2>3. QED  BY <1>2, <2>1, <2>2 DEF TypeInv
<1>5. QED  BY <1>3, <1>4

LEMMA NextTypeInv == TypeInv /\ [Next]_vars => TypeInv'
<1>1. TypeInv /\ Next => TypeInv'
  BY FanOutType, JoinType, PlannerDoneType, PlannerStopType, PlannerPlanType,
     PlannerAdvanceType, CriticType, WorkerType, VerifierPassType, VerifierFailType,
     MemoryType, NodeThrowsType, RerunType
  DEF Next, GraphStep, Planner
<1>2. TypeInv /\ UNCHANGED vars => TypeInv'
  BY DEF vars, TypeInv, TypeOK, FrontierOK, CursorOK
<1>3. QED  BY <1>1, <1>2

LEMMA AlwaysTypeInv == Spec => []TypeInv
BY InitTypeInv, NextTypeInv, PTL DEF Spec

\* The channels of the graph state, the page and the counters keep their
\* types, whatever the nodes return, throw or resume from.
THEOREM TypeCorrect == Spec => []TypeOK
<1>1. TypeInv => TypeOK
  BY DEF TypeInv
<1>2. QED  BY <1>1, AlwaysTypeInv, PTL

-----------------------------------------------------------------------------
(* The budget, the backstop and the votes                                  *)

\* The nodes between the planner's budget check and the executor call.
Committed == {"critic"} \cup WorkerAgents

\* What the session may have spent at any point.
WithinLimits ==
  /\ state.steps <= budget.maxSteps + 1
  /\ state.status = "running" => state.steps <= budget.maxSteps
  /\ state.toolCalls <= state.steps /\ state.toolCalls <= budget.maxSteps
  /\ state.toolCalls <= budget.maxToolCalls + 1
  /\ state.costMicros <= budget.maxCostMicros + CallCost

\* A planner entry pays for at most one call, and commits to it only within
\* every limit; its rollback is paid for only at the next entry.
SpendingOK ==
  /\ WithinLimits
  /\ calls <= 2 * state.toolCalls + faults
  /\ frontier \cap Committed # {} =>
       /\ state.toolCalls < state.steps
       /\ state.toolCalls <= budget.maxToolCalls
       /\ state.costMicros <= budget.maxCostMicros
  /\ frontier = {"verifier"} => calls < 2 * state.toolCalls + faults

\* Five supersteps at most from one planner entry to the next: how far each
\* node may lie ahead of them.
Lead(node) ==
  CASE node = "planner" -> 1
    [] node = "critic" -> -3
    [] node \in WorkerAgents -> -2
    [] node = "verifier" -> -1
    [] node = "memory" -> 0

PaceOK ==
  /\ supersteps <= 5 * state.steps + 2
  /\ outcome = "running" /\ frontier \subseteq {"perception", "researcher"} => supersteps = 0
  /\ \A n \in {"planner"} \cup Steady : frontier = {n} => supersteps <= 5 * state.steps + Lead(n)

\* The votes QuorumBeforeAct asks for.
Endorsed(task) ==
  /\ task.approvals.critic
  /\ ClassifyBlastRadius(task) = "high" =>
       task.approvals = [planner |-> TRUE, verifier |-> TRUE, critic |-> TRUE]

\* A worker is scheduled only with an endorsed task.
VotesOK == frontier \cap WorkerAgents # {} => Endorsed(Current)

LoopInv == TypeInv /\ SpendingOK /\ PaceOK /\ VotesOK

-----------------------------------------------------------------------------
(* What each action does to the accounts                                   *)

Accounts(st) == <<st.steps, st.toolCalls, st.costMicros>>

LEMMA AccountsType ==
  ASSUME TypeInv
  PROVE  /\ state \in State
         /\ state.steps \in Nat /\ state.toolCalls \in Nat /\ state.costMicros \in Nat
         /\ supersteps \in Nat /\ calls \in Nat /\ faults \in Nat
         /\ budget.maxSteps \in Nat /\ budget.maxToolCalls \in Nat
         /\ budget.maxCostMicros \in Nat /\ CallCost \in Nat
BY AgentAssumption DEF TypeInv, TypeOK, State

\* An action that counts no planner entry and makes no counted call.
LEMMA FreeEffect ==
  ASSUME TypeInv,
         \/ Researcher \/ \E elements \in ElementSets : Perception(elements)
         \/ Join \/ PlannerDone \/ Critic \/ VerifierPass \/ VerifierFail \/ Memory
         \/ \E node \in Nodes : NodeThrows(node)
  PROVE  Accounts(state') = Accounts(state)
<1>1. state \in State
  BY AccountsType
<1>2. CASE Critic
  BY <1>1, <1>2 DEF Critic, Accounts, State
<1>3. CASE Join \/ PlannerDone \/ VerifierPass \/ VerifierFail \/ Memory
  BY <1>1, <1>3 DEF Join, PlannerDone, VerifierPass, VerifierFail, Memory, Accounts, State
<1>4. CASE \/ Researcher \/ \E elements \in ElementSets : Perception(elements)
           \/ \E node \in Nodes : NodeThrows(node)
  BY <1>4 DEF Researcher, Perception, NodeThrows, Accounts
<1>5. QED  BY <1>2, <1>3, <1>4

\* A planner entry in a live session counts one step.
LEMMA EntryEffect ==
  ASSUME TypeInv, PlannerStop \/ PlannerAdvance \/ \E hit \in BOOLEAN : PlannerPlan(hit)
  PROVE  Accounts(state') = <<state.steps + 1, state.toolCalls, state.costMicros>>
<1>1. state \in State
  BY AccountsType
<1>2. CASE PlannerStop
  BY <1>1, <1>2 DEF PlannerStop, Terminate, Accounts, State
<1>3. CASE PlannerAdvance
  <2> DEFINE next == [state EXCEPT !.steps = @ + 1, !.tasks = Replanned, !.needsReplan = FALSE]
             cursor == FirstPending(Replanned)
  <2>1. Accounts(next) = <<state.steps + 1, state.toolCalls, state.costMicros>>
        /\ DOMAIN next = DOMAIN state
    BY <1>1 DEF Accounts, State
  <2>2. \/ state' = Terminate([next EXCEPT !.cursor = 1], "completed")
        \/ state' = [next EXCEPT !.cursor = cursor, !.phase = "act"]
    BY <1>3 DEF PlannerAdvance
  <2>3. DOMAIN state = DOMAIN FreshState
    BY <1>1 DEF State, FreshState
  <2> HIDE DEF next, cursor
  <2>4. QED  BY <2>1, <2>2, <2>3 DEF Terminate, Accounts, FreshState
<1>4. ASSUME NEW hit \in BOOLEAN, PlannerPlan(hit)
      PROVE  Accounts(state') = <<state.steps + 1, state.toolCalls, state.costMicros>>
  BY <1>1, <1>4 DEF PlannerPlan, Accounts, State
<1>5. QED  BY <1>2, <1>3, <1>4

\* A worker makes one counted call.
LEMMA WorkerEffect ==
  ASSUME TypeInv, NEW agent \in WorkerAgents, Worker(agent)
  PROVE  /\ Accounts(state') = <<state.steps, state.toolCalls + 1, state.costMicros + CallCost>>
         /\ state'.status = state.status
<1>1. state \in State
  BY AccountsType
<1>2. QED  BY <1>1 DEF Worker, Accounts, State

\* The planner goes on only within every limit, and only then is the session
\* still live after a counted entry.
LEMMA EntryWithinBudget ==
  ASSUME StopReason = "none"
  PROVE  /\ ~(state.steps + 1 > budget.maxSteps)
         /\ ~(state.toolCalls > budget.maxToolCalls)
         /\ ~(state.costMicros > budget.maxCostMicros)
BY DEF StopReason, CheckBudget

LEMMA StatusEffect ==
  ASSUME TypeInv,
         \/ Researcher \/ \E elements \in ElementSets : Perception(elements)
         \/ Join \/ PlannerDone \/ Critic \/ VerifierPass \/ VerifierFail \/ Memory
         \/ \E node \in Nodes : NodeThrows(node)
  PROVE  state'.status = "running" => state.status = "running"
<1>1. state \in State
  BY AccountsType
<1>2. CASE Critic
  BY <1>2, NodeRunning DEF Critic, Steady
<1>3. CASE Join \/ PlannerDone \/ VerifierPass \/ VerifierFail \/ Memory
  BY <1>1, <1>3 DEF Join, PlannerDone, VerifierPass, VerifierFail, Memory, State
<1>4. CASE \/ Researcher \/ \E elements \in ElementSets : Perception(elements)
           \/ \E node \in Nodes : NodeThrows(node)
  BY <1>4 DEF Researcher, Perception, NodeThrows
<1>5. QED  BY <1>2, <1>3, <1>4

LEMMA FreeSpending ==
  ASSUME TypeInv, SpendingOK, UNCHANGED budget,
         \/ Researcher \/ \E elements \in ElementSets : Perception(elements)
         \/ Join \/ PlannerDone \/ Critic \/ VerifierPass \/ VerifierFail \/ Memory
         \/ \E node \in Nodes : NodeThrows(node)
  PROVE  SpendingOK'
<1>1. /\ state'.steps = state.steps /\ state'.toolCalls = state.toolCalls
      /\ state'.costMicros = state.costMicros
      /\ state'.status = "running" => state.status = "running"
  BY FreeEffect, StatusEffect DEF Accounts
<1>2. WithinLimits'
  BY <1>1 DEF SpendingOK, WithinLimits
<1>3. calls' <= 2 * state'.toolCalls + faults'
  <2>1. CASE VerifierFail
    <3>1. calls < 2 * state.toolCalls + faults
      BY <2>1 DEF VerifierFail, SpendingOK, WithinLimits
    <3>2. calls' \in {calls, calls + 1} /\ faults' \in {faults, faults + 1}
      BY <2>1 DEF VerifierFail, RollBack
    <3>3. QED  BY <1>1, <3>1, <3>2, AccountsType
  <2>2. ASSUME NEW node \in Nodes, NodeThrows(node)
        PROVE  calls' <= 2 * state'.toolCalls + faults'
    <3>1. calls' \in {calls, calls + 1} /\ faults' = faults + 1
      BY <2>2 DEF NodeThrows
    <3>2. QED  BY <1>1, <3>1, AccountsType DEF SpendingOK, WithinLimits
  <2>3. CASE \/ Researcher \/ \E elements \in ElementSets : Perception(elements)
             \/ Join \/ PlannerDone \/ Critic \/ VerifierPass \/ Memory
    <3>1. UNCHANGED <<calls, faults>>
      BY <2>3 DEF Researcher, Perception, Join, PlannerDone, Critic, VerifierPass, Memory, Idle
    <3>2. QED  BY <1>1, <3>1 DEF SpendingOK, WithinLimits
  <2>4. QED  BY <2>1, <2>2, <2>3
<1>4. frontier' \cap Committed # {} => frontier \cap Committed # {}
  <2>1. CASE Critic
    BY <2>1 DEF Critic, Committed
  <2>2. CASE Researcher \/ \E elements \in ElementSets : Perception(elements)
    BY <2>2 DEF Researcher, Perception
  <2>3. CASE \/ Join \/ PlannerDone \/ VerifierPass \/ VerifierFail \/ Memory
             \/ \E node \in Nodes : NodeThrows(node)
    BY <2>3 DEF Join, PlannerDone, VerifierPass, VerifierFail, Memory, NodeThrows, GoTo,
                Finish, Committed, WorkerAgents
  <2>4. QED  BY <2>1, <2>2, <2>3
<1>5. frontier' # {"verifier"}
  <2>1. CASE Researcher \/ \E elements \in ElementSets : Perception(elements)
    BY <2>1 DEF Researcher, Perception, TypeInv, FrontierOK, Steady, WorkerAgents
  <2>2. CASE Critic
    <3>1. state \in State /\ state.cursor \in DOMAIN state.tasks
      BY <2>2, NodeRunning, AccountsType DEF Critic, Steady
    <3>2. Vetted(Current).agent \in WorkerAgents
      BY <3>1, WithStatusType, VettedType DEF Task, Statuses
    <3>3. QED  BY <2>2, <3>2 DEF Critic, RouteFromCritic, GoTo, WorkerAgents
  <2>3. CASE \/ Join \/ PlannerDone \/ VerifierPass \/ VerifierFail \/ Memory
             \/ \E node \in Nodes : NodeThrows(node)
    BY <2>3 DEF Join, PlannerDone, VerifierPass, VerifierFail, Memory, NodeThrows, GoTo, Finish
  <2>4. QED  BY <2>1, <2>2, <2>3
<1>6. QED  BY <1>1, <1>2, <1>3, <1>4, <1>5 DEF SpendingOK, WithinLimits

LEMMA EntrySpending ==
  ASSUME TypeInv, SpendingOK,
         PlannerStop \/ PlannerAdvance \/ \E hit \in BOOLEAN : PlannerPlan(hit)
  PROVE  SpendingOK'
<1>1. /\ state'.steps = state.steps + 1 /\ state'.toolCalls = state.toolCalls
      /\ state'.costMicros = state.costMicros
  BY EntryEffect DEF Accounts
<1>2. UNCHANGED <<budget, calls, faults>> /\ state.status = "running"
  BY DEF PlannerStop, PlannerAdvance, PlannerPlan, Idle, session
<1>3. frontier' # {"verifier"}
  BY DEF PlannerStop, PlannerAdvance, PlannerPlan, GoTo, Finish
<1>4. CASE PlannerStop
  <2>1. state'.status # "running"
    <3>1. state.status = "running" /\ state \in State
      BY <1>2, AccountsType
    <3>2. QED  BY <1>4, <3>1 DEF PlannerStop, Terminate, State
  <2>2. frontier' \cap Committed = {}
    BY <1>4 DEF PlannerStop, Finish
  <2>3. QED  BY <1>1, <1>2, <1>3, <2>1, <2>2, AccountsType DEF SpendingOK, WithinLimits
<1>5. CASE PlannerAdvance \/ \E hit \in BOOLEAN : PlannerPlan(hit)
  <2>1. StopReason = "none"
    BY ZenonT(30), <1>5 DEF PlannerAdvance, PlannerPlan
  <2>2. /\ state.steps + 1 <= budget.maxSteps /\ state.toolCalls <= budget.maxToolCalls
        /\ state.costMicros <= budget.maxCostMicros
    BY <2>1, EntryWithinBudget, AccountsType
  <2>3. QED  BY <1>1, <1>2, <1>3, <2>2, AccountsType DEF SpendingOK, WithinLimits
<1>6. QED  BY <1>4, <1>5

LEMMA WorkerSpending ==
  ASSUME TypeInv, SpendingOK, NEW agent \in WorkerAgents, Worker(agent)
  PROVE  SpendingOK'
<1>1. /\ state'.steps = state.steps /\ state'.toolCalls = state.toolCalls + 1
      /\ state'.costMicros = state.costMicros + CallCost
  BY WorkerEffect DEF Accounts
<1>2. UNCHANGED <<budget, faults>> /\ calls' = calls + 1 /\ frontier' = {"verifier"}
  BY DEF Worker, session, GoTo
<1>3. state.status = "running" /\ frontier \cap Committed # {}
  BY NodeRunning DEF Worker, Steady, Committed
<1>4. frontier' \cap Committed = {}
  BY <1>2 DEF Committed, WorkerAgents
<1>5. /\ state.toolCalls < state.steps /\ state.toolCalls <= budget.maxToolCalls
      /\ state.costMicros <= budget.maxCostMicros /\ state.steps <= budget.maxSteps
  BY <1>3 DEF SpendingOK, WithinLimits
<1>6. QED  BY <1>1, <1>2, <1>4, <1>5, AccountsType DEF SpendingOK, WithinLimits

LEMMA RerunSpending ==
  ASSUME TypeInv, SpendingOK, Rerun
  PROVE  SpendingOK'
<1>1. frontier' = {"perception", "researcher"} /\ UNCHANGED <<budget, faults>>
  BY DEF Rerun
<1>2. frontier' \cap Committed = {} /\ frontier' # {"verifier"}
  BY <1>1 DEF Committed, WorkerAgents
<1>3. CASE durable
  BY <1>1, <1>2, <1>3 DEF Rerun, SpendingOK, WithinLimits
<1>4. CASE ~durable
  <2>1. /\ state'.steps = 0 /\ state'.toolCalls = 0 /\ state'.costMicros = 0 /\ calls' = 0
    BY <1>4 DEF Rerun, FreshState
  <2>2. QED  BY <1>1, <1>2, <2>1, AccountsType DEF SpendingOK, WithinLimits
<1>5. QED  BY <1>3, <1>4

LEMMA NextSpending == TypeInv /\ SpendingOK /\ Next => SpendingOK'
<1> SUFFICES ASSUME TypeInv, SpendingOK, Next PROVE SpendingOK'
  OBVIOUS
<1>1. CASE PlannerStop \/ PlannerAdvance \/ \E hit \in BOOLEAN : PlannerPlan(hit)
  BY <1>1, EntrySpending
<1>2. CASE \E agent \in WorkerAgents : Worker(agent)
  BY <1>2, WorkerSpending
<1>3. CASE Rerun
  BY <1>3, RerunSpending
<1>4. CASE \/ Researcher \/ \E elements \in ElementSets : Perception(elements)
           \/ Join \/ PlannerDone \/ Critic \/ VerifierPass \/ VerifierFail \/ Memory
           \/ \E node \in Nodes : NodeThrows(node)
  <2>1. UNCHANGED budget
    BY <1>4 DEF Researcher, Perception, Join, PlannerDone, Critic, VerifierPass,
                VerifierFail, Memory, NodeThrows, session
  <2>2. QED  BY <1>4, <2>1, FreeSpending
<1>5. QED  BY <1>1, <1>2, <1>3, <1>4 DEF Next, GraphStep, Planner

\* A superstep moves the counter by at most one.
LEMMA SuperstepEffect ==
  ASSUME TypeInv, Superstep
  PROVE  supersteps' \in Nat /\ supersteps' <= supersteps + 1
BY AccountsType DEF Superstep

LEMMA LeadValue ==
  /\ Lead("planner") = 1 /\ Lead("critic") = -3 /\ Lead("verifier") = -1 /\ Lead("memory") = 0
  /\ \A agent \in WorkerAgents : Lead(agent) = -2
BY DEF Lead, WorkerAgents

\* Going on to n keeps the pace when there is room for one more superstep.
LEMMA PaceGoesOn ==
  ASSUME TypeInv, TypeInv', NEW n \in {"planner"} \cup Steady, GoTo(n),
         supersteps + 1 <= 5 * state'.steps + Lead(n)
  PROVE  PaceOK'
<1>1. state'.steps \in Nat /\ Lead(n) \in {-3, -2, -1, 0, 1}
  BY LeadValue DEF TypeInv, TypeOK, State, Steady
<1>2. supersteps \in Nat /\ supersteps' \in Nat /\ supersteps' <= supersteps + 1
  BY AccountsType, SuperstepEffect DEF GoTo
<1>3. frontier' = {n} /\ ~(frontier' \subseteq {"perception", "researcher"})
  BY DEF GoTo, Steady, WorkerAgents
<1>4. supersteps' <= 5 * state'.steps + Lead(n) /\ supersteps' <= 5 * state'.steps + 2
  BY <1>1, <1>2
<1>5. QED  BY <1>3, <1>4 DEF PaceOK

\* So does ending the run.
LEMMA PaceFinishes ==
  ASSUME TypeInv, TypeInv', Finish, supersteps + 1 <= 5 * state'.steps + 2
  PROVE  PaceOK'
<1>1. state'.steps \in Nat
  BY DEF TypeInv, TypeOK, State
<1>2. supersteps \in Nat /\ supersteps' \in Nat /\ supersteps' <= supersteps + 1
  BY AccountsType, SuperstepEffect DEF Finish
<1>3. frontier' = {} /\ outcome' = "finished"
  BY DEF Finish
<1>4. supersteps' <= 5 * state'.steps + 2
  BY <1>1, <1>2
<1>5. QED  BY <1>3, <1>4 DEF PaceOK

LEMMA NextPace == TypeInv /\ PaceOK /\ Next => PaceOK'
<1> SUFFICES ASSUME TypeInv, PaceOK, Next PROVE PaceOK'
  OBVIOUS
<1>0. TypeInv' /\ state.steps \in Nat /\ state'.steps \in Nat /\ supersteps \in Nat
  <2>1. TypeInv'
    BY NextTypeInv
  <2>2. QED  BY <2>1 DEF TypeInv, TypeOK, State
<1>1. ASSUME NEW n \in {"planner"} \cup Steady, frontier = {n}
      PROVE  supersteps <= 5 * state.steps + Lead(n)
  BY <1>1 DEF PaceOK
<1>2. CASE PlannerStop \/ PlannerAdvance \/ \E hit \in BOOLEAN : PlannerPlan(hit)
  <2>1. state'.steps = state.steps + 1
    BY <1>2, EntryEffect DEF Accounts
  <2>2. frontier = {"planner"} /\ (GoTo("critic") \/ Finish)
    BY <1>2 DEF PlannerStop, PlannerAdvance, PlannerPlan
  <2>3. supersteps + 1 <= 5 * state'.steps - 3
    BY <1>0, <1>1, <2>1, <2>2, LeadValue
  <2>4. CASE GoTo("critic")
    BY <1>0, <2>3, <2>4, LeadValue, PaceGoesOn DEF Steady
  <2>5. CASE Finish
    BY <1>0, <2>3, <2>5, PaceFinishes
  <2>6. QED  BY <2>2, <2>4, <2>5
<1>3. CASE PlannerDone
  <2>1. Finish /\ frontier = {"planner"} /\ state'.steps = state.steps
    BY <1>3, FreeEffect DEF PlannerDone, Accounts
  <2>2. supersteps + 1 <= 5 * state'.steps + 2
    BY <1>0, <1>1, <2>1, LeadValue
  <2>3. QED  BY <1>0, <2>1, <2>2, PaceFinishes
<1>4. CASE Critic
  <2>1. frontier = {"critic"} /\ state'.steps = state.steps
    BY <1>4, FreeEffect DEF Critic, Accounts
  <2>2. Vetted(Current).agent \in WorkerAgents
    <3>1. state \in State /\ state.cursor \in DOMAIN state.tasks
      BY <2>1, NodeRunning, AccountsType DEF Steady
    <3>2. QED  BY <3>1, WithStatusType, VettedType DEF Task, Statuses
  <2>3. PICK n \in {"planner"} \cup WorkerAgents : GoTo(n)
    BY <1>4, <2>2 DEF Critic, RouteFromCritic
  <2>4. supersteps + 1 <= 5 * state'.steps - 2
    BY <1>0, <1>1, <2>1, LeadValue DEF Steady
  <2>5. Lead(n) \in {1, -2} /\ n \in {"planner"} \cup Steady
    BY LeadValue DEF Steady
  <2>6. QED  BY <1>0, <2>3, <2>4, <2>5, PaceGoesOn
<1>5. CASE \E agent \in WorkerAgents : Worker(agent)
  <2>1. PICK agent \in WorkerAgents : Worker(agent)
    BY <1>5
  <2>2. frontier = {agent} /\ GoTo("verifier") /\ state'.steps = state.steps
    BY <2>1, WorkerEffect DEF Worker, Accounts
  <2>3. supersteps + 1 <= 5 * state'.steps - 1
    <3>1. agent \in Steady /\ Lead(agent) = -2
      BY LeadValue DEF Steady
    <3>2. supersteps <= 5 * state.steps + Lead(agent)
      BY <1>1, <2>2, <3>1
    <3>3. QED  BY <1>0, <2>2, <3>1, <3>2
  <2>4. QED  BY <1>0, <2>2, <2>3, LeadValue, PaceGoesOn DEF Steady
<1>6. CASE VerifierPass \/ VerifierFail \/ Memory
  <2>1. state'.steps = state.steps
    BY <1>6, FreeEffect DEF Accounts
  <2>2. CASE VerifierPass
    <3>1. frontier = {"verifier"} /\ GoTo("memory")
      BY <2>2 DEF VerifierPass
    <3>2. supersteps + 1 <= 5 * state'.steps
      BY <1>0, <1>1, <2>1, <3>1, LeadValue DEF Steady
    <3>3. QED  BY <1>0, <3>1, <3>2, LeadValue, PaceGoesOn DEF Steady
  <2>3. CASE VerifierFail \/ Memory
    <3>1. frontier \in {{"verifier"}, {"memory"}} /\ GoTo("planner")
      BY <2>3 DEF VerifierFail, Memory
    <3>2. supersteps + 1 <= 5 * state'.steps + 1
      BY <1>0, <1>1, <2>1, <3>1, LeadValue DEF Steady
    <3>3. QED  BY <1>0, <3>1, <3>2, LeadValue, PaceGoesOn
  <2>4. QED  BY <1>6, <2>2, <2>3
<1>7. CASE Join
  <2>1. supersteps = 0 /\ GoTo("planner")
    BY <1>7 DEF Join, PaceOK
  <2>2. supersteps + 1 <= 5 * state'.steps + 1
    BY <1>0, <2>1
  <2>3. QED  BY <1>0, <2>1, <2>2, LeadValue, PaceGoesOn
<1>8. CASE Researcher \/ \E elements \in ElementSets : Perception(elements)
  <2>1. /\ outcome = "running" /\ frontier \subseteq {"perception", "researcher"}
        /\ frontier' \subseteq {"perception", "researcher"}
        /\ UNCHANGED <<outcome, supersteps, state>>
    BY <1>8 DEF Researcher, Perception, TypeInv, FrontierOK, Steady, WorkerAgents
  <2>2. supersteps' = 0 /\ supersteps' <= 5 * state'.steps + 2
    BY <1>0, <2>1 DEF PaceOK
  <2>3. \A n \in {"planner"} \cup Steady : frontier' # {n}
    BY <2>1 DEF Steady, WorkerAgents
  <2>4. QED  BY <2>2, <2>3 DEF PaceOK
<1>9. CASE \E node \in Nodes : NodeThrows(node)
  <2>1. frontier' = {} /\ outcome' = "error" /\ UNCHANGED <<supersteps, state>>
    BY <1>9 DEF NodeThrows
  <2>2. QED  BY <2>1 DEF PaceOK
<1>10. CASE Rerun
  <2>1. frontier' = {"perception", "researcher"} /\ supersteps' = 0
    BY <1>10 DEF Rerun
  <2>2. supersteps' <= 5 * state'.steps + 2
    BY <1>0, <2>1
  <2>3. \A n \in {"planner"} \cup Steady : frontier' # {n}
    BY <2>1
  <2>4. QED  BY <2>1, <2>2, <2>3 DEF PaceOK
<1>11. QED
  BY <1>2, <1>3, <1>4, <1>5, <1>6, <1>7, <1>8, <1>9, <1>10 DEF Next, GraphStep, Planner

-----------------------------------------------------------------------------
(* Votes                                                                   *)

\* An approved task that was vetted is endorsed.
LEMMA ApprovedIsEndorsed ==
  ASSUME state \in State, NEW t \in Task, Approved(Vetted(t))
  PROVE  Endorsed(Vetted(t))
<1> DEFINE v == Vetted(t)
<1>1. v \in Task /\ v.approvals \in Approvals
  BY VettedType DEF Task
<1>2. v.kind = t.kind /\ v.risky = t.risky /\ v.target = t.target
      /\ v.blast = MaxBlast(t.blast, ClassifyBlastRadius(t))
  BY DEF Vetted, Task
<1>3. ClassifyBlastRadius(v) = ClassifyBlastRadius(t)
  BY <1>2 DEF ClassifyBlastRadius, IsDestructive
<1>4. ClassifyBlastRadius(t) = "high" => v.blast = "high"
  BY <1>2 DEF MaxBlast, Rank, Task, BlastRadii
<1> HIDE DEF v
<1>5. v.approvals.critic /\ (v.blast = "high" => v.approvals.planner /\ v.approvals.verifier)
  BY DEF Approved, v
<1>6. v.blast = "high" => v.approvals = [planner |-> TRUE, verifier |-> TRUE, critic |-> TRUE]
  BY <1>1, <1>5 DEF Approvals
<1>7. QED  BY <1>3, <1>4, <1>5, <1>6 DEF Endorsed, v

LEMMA NextVotes == TypeInv /\ VotesOK /\ Next => VotesOK'
<1> SUFFICES ASSUME TypeInv, VotesOK, Next PROVE VotesOK'
  OBVIOUS
<1>1. CASE Critic
  <2> DEFINE vetted == Vetted(Current)
  <2>1. state \in State /\ state.cursor \in DOMAIN state.tasks
    BY <1>1, NodeRunning, AccountsType DEF Critic, Steady
  <2>2. Current \in Task /\ vetted \in Task
    BY <2>1, WithStatusType, VettedType DEF Statuses
  <2>3. CASE Approved(vetted)
    <3>1. state'.tasks = WithCurrent(vetted) /\ state'.cursor = state.cursor
      BY <1>1, <2>1, <2>3 DEF Critic, State
    <3>2. Current' = vetted
      <4> HIDE DEF vetted
      <4>1. QED  BY <2>1, <2>2, <3>1 DEF Current, WithCurrent, State
    <3>3. Endorsed(vetted)
      BY <2>1, <2>2, <2>3, ApprovedIsEndorsed
    <3>4. QED
      <4> HIDE DEF vetted
      <4>1. QED  BY <3>2, <3>3 DEF VotesOK, Endorsed, ClassifyBlastRadius, IsDestructive
  <2>4. CASE ~Approved(vetted)
    <3>1. frontier' = {"planner"}
      BY <1>1, <2>4 DEF Critic, RouteFromCritic, GoTo
    <3>2. QED  BY <3>1 DEF VotesOK, WorkerAgents
  <2>5. QED  BY <2>3, <2>4
<1>2. CASE Researcher \/ \E elements \in ElementSets : Perception(elements)
  <2>1. frontier' \cap WorkerAgents = {}
    BY <1>2 DEF Researcher, Perception, TypeInv, FrontierOK, Steady, WorkerAgents
  <2>2. QED  BY <2>1 DEF VotesOK
<1>3. CASE \/ Join \/ Planner \/ (\E agent \in WorkerAgents : Worker(agent))
           \/ VerifierPass \/ VerifierFail \/ Memory
           \/ (\E node \in Nodes : NodeThrows(node)) \/ Rerun
  <2>1. frontier' \in {{}, {"planner"}, {"critic"}, {"verifier"}, {"memory"},
                       {"perception", "researcher"}}
    BY <1>3 DEF Join, Planner, PlannerDone, PlannerStop, PlannerPlan, PlannerAdvance, Worker,
                VerifierPass, VerifierFail, Memory, NodeThrows, Rerun, GoTo, Finish
  <2>2. frontier' \cap WorkerAgents = {}
    BY <2>1 DEF WorkerAgents
  <2>3. QED  BY <2>2 DEF VotesOK
<1>4. QED  BY <1>1, <1>2, <1>3 DEF Next, GraphStep

-----------------------------------------------------------------------------
(* The theorems                                                            *)

LEMMA InitLoopInv == Init => LoopInv
<1> SUFFICES ASSUME Init PROVE LoopInv
  OBVIOUS
<1>1. TypeInv
  BY InitTypeInv
<1>2. /\ state.steps = 0 /\ state.toolCalls = 0 /\ state.costMicros = 0
      /\ supersteps = 0 /\ calls = 0 /\ faults = 0 /\ frontier = {"perception", "researcher"}
  BY DEF Init, FreshState
<1>3. frontier \cap Committed = {} /\ frontier \cap WorkerAgents = {}
      /\ \A n \in {"planner"} \cup Steady : frontier # {n}
  BY <1>2 DEF Committed, WorkerAgents, Steady
<1>4. SpendingOK
  BY <1>1, <1>2, <1>3, AccountsType DEF SpendingOK, WithinLimits
<1>5. PaceOK
  BY <1>2, <1>3 DEF PaceOK
<1>6. QED  BY <1>1, <1>3, <1>4, <1>5 DEF LoopInv, VotesOK

LEMMA NextLoopInv == LoopInv /\ [Next]_vars => LoopInv'
<1>1. LoopInv /\ Next => LoopInv'
  BY NextTypeInv, NextSpending, NextPace, NextVotes DEF LoopInv
<1>2. LoopInv /\ UNCHANGED vars => LoopInv'
  <2> SUFFICES ASSUME LoopInv, UNCHANGED vars PROVE LoopInv'
    OBVIOUS
  <2>1. TypeInv'
    BY NextTypeInv DEF LoopInv
  <2>2. SpendingOK' /\ PaceOK'
    BY DEF LoopInv, SpendingOK, WithinLimits, PaceOK, vars
  <2>3. VotesOK'
    BY DEF LoopInv, VotesOK, Current, Endorsed, ClassifyBlastRadius, IsDestructive, vars
  <2>4. QED  BY <2>1, <2>2, <2>3 DEF LoopInv
<1>3. QED  BY <1>1, <1>2

LEMMA AlwaysLoopInv == Spec => []LoopInv
BY InitLoopInv, NextLoopInv, PTL DEF Spec

\* However a session interleaves retries, vetoes, failures and resumed runs, it
\* overshoots each limit of its budget by at most one call, and executes at
\* most one uncounted rollback per counted call.
THEOREM BudgetHolds == Spec => []BudgetCaps
<1>1. LoopInv => BudgetCaps
  BY DEF LoopInv, SpendingOK, WithinLimits, BudgetCaps
<1>2. QED  BY <1>1, AlwaysLoopInv, PTL

\* The recursion limit of run.ts never cuts a run off, whatever the budget.
THEOREM BackstopHolds == Spec => []BackstopUnreached
<1>1. LoopInv => BackstopUnreached
  <2> SUFFICES ASSUME LoopInv PROVE BackstopUnreached
    OBVIOUS
  <2>1. supersteps <= 5 * state.steps + 2 /\ state.steps <= budget.maxSteps + 1
    BY DEF LoopInv, PaceOK, SpendingOK, WithinLimits
  <2>2. QED  BY <2>1, AccountsType DEF LoopInv, BackstopUnreached, RecursionLimit
<1>2. QED  BY <1>1, AlwaysLoopInv, PTL

\* The one task a step may execute is the current one, by its worker.
LEMMA ExecutesCurrent ==
  ASSUME TypeInv, [Next]_vars, NEW i \in DOMAIN executed, Executes(i)
  PROVE  frontier \cap WorkerAgents # {} /\ i = state.cursor
<1>1. executed \in Seq(Nat) /\ executed[i] \in Nat /\ i \in Nat
  BY DEF TypeInv, TypeOK
<1>2. executed' # executed
  BY <1>1 DEF Executes
<1>3. ASSUME NEW agent \in WorkerAgents, Worker(agent)
      PROVE  frontier \cap WorkerAgents # {} /\ i = state.cursor
  BY <1>1, <1>3 DEF Worker, Executes
<1>4. ASSUME NEW node \in Nodes, NodeThrows(node)
      PROVE  frontier \cap WorkerAgents # {} /\ i = state.cursor
  BY <1>1, <1>2, <1>4 DEF NodeThrows, Executes
<1>5. ASSUME NEW hit \in BOOLEAN, PlannerPlan(hit) PROVE FALSE
  <2>1. \A j \in DOMAIN executed' : executed'[j] = 0
    BY <1>5 DEF PlannerPlan
  <2>2. QED  BY <1>1, <2>1 DEF Executes
<1>6. ASSUME Rerun PROVE FALSE
  BY <1>2, <1>6 DEF Rerun, Executes
<1>7. CASE \/ Researcher \/ (\E elements \in ElementSets : Perception(elements))
           \/ Join \/ PlannerDone \/ PlannerStop \/ PlannerAdvance \/ Critic
           \/ VerifierPass \/ VerifierFail \/ Memory \/ UNCHANGED vars
  BY <1>2, <1>7 DEF Researcher, Perception, Join, PlannerDone, PlannerStop, PlannerAdvance,
                    Critic, VerifierPass, VerifierFail, Memory, Idle, vars
<1>8. QED
  BY <1>3, <1>4, <1>5, <1>6, <1>7 DEF Next, GraphStep, Planner

\* Nothing is executed that the critic has not approved, nor with a high blast
\* radius without the whole quorum: votes are cast anew for every attempt.
THEOREM QuorumHolds == Spec => QuorumBeforeAct
<1>1. LoopInv /\ [Next]_vars =>
        [\A i \in DOMAIN executed : Executes(i) =>
          LET task == state.tasks[i]
          IN  /\ task.approvals.critic
              /\ ClassifyBlastRadius(task) = "high" =>
                   task.approvals = [planner |-> TRUE, verifier |-> TRUE, critic |-> TRUE]
        ]_vars
  BY ExecutesCurrent DEF LoopInv, VotesOK, Endorsed, Current
<1>2. QED  BY <1>1, AlwaysLoopInv, PTL DEF Spec, QuorumBeforeAct

-----------------------------------------------------------------------------
(* The order of the tasks, and the page they are executed on               *)

\* The task that is judged or executed is the first that is pending.
OrderOK ==
  frontier \cap Committed # {} =>
    \A j \in 1 .. state.cursor - 1 : state.tasks[j].status # "pending"

\* What is known of the page at each node.  The page is on a blocked address
\* only unseen, or with an anomaly raised before the planner is entered, or with
\* a redirect in the result, which raises one: the planner goes on only unseen.
Unknown == IsBlocked(page.url) => unseen
PageOK ==
  /\ perceived # <<>> => perceived[1].url = page.url
  /\ frontier = {"planner"} => Unknown \/ state.anomaly
  /\ frontier \cap (Committed \cup {"memory"}) # {} => Unknown
  /\ frontier \cap WorkerAgents # {} /\ Current.kind = "navigate" => ~IsBlocked(Current.target)
  /\ frontier = {"verifier"} => Unknown \/ state.result.redirect # NoUrl

-----------------------------------------------------------------------------
(* Order                                                                   *)

LEMMA PlanOrder ==
  ASSUME TypeInv, NEW skillHit \in BOOLEAN, PlannerPlan(skillHit)
  PROVE  OrderOK'
<1> DEFINE tasks == BuildPlan(intent, state.snapshot, skillHit)
<1>1. state \in State /\ intent \in IntentShape /\ state.snapshot \in Snapshot
  BY AgentAssumption DEF TypeInv, TypeOK, State
<1>2. tasks \in Seq(Task)
  <2>1. tasks \in Seq(PendingTask)
    BY <1>1, PlanType
  <2> HIDE DEF tasks
  <2> QED BY <2>1 DEF PendingTask
<1>3. state'.tasks = tasks /\ state'.cursor = FirstPending(tasks)
  <2> HIDE DEF tasks
  <2>1. state' = [state EXCEPT !.steps = @ + 1, !.tasks = tasks,
                               !.cursor = FirstPending(tasks), !.phase = "act"]
    BY DEF PlannerPlan, tasks
  <2> QED BY <1>1, <2>1 DEF State
<1> HIDE DEF tasks
<1>4. \A j \in 1 .. FirstPending(tasks) - 1 : tasks[j].status # "pending"
  BY <1>2, FirstPendingProp
<1> QED BY <1>3, <1>4 DEF OrderOK

LEMMA AdvanceOrder == ASSUME TypeInv, PlannerAdvance PROVE OrderOK'
<1> DEFINE tasks == Replanned
           cursor == FirstPending(tasks)
<1>1. state \in State /\ tasks \in Seq(Task)
  BY ReplannedType DEF TypeInv, TypeOK, PlannerAdvance
<1>2. CASE cursor = 0
  BY <1>2 DEF PlannerAdvance, Finish, OrderOK
<1>3. CASE cursor # 0
  <2>1. state' = [[state EXCEPT !.steps = @ + 1, !.tasks = tasks, !.needsReplan = FALSE]
                    EXCEPT !.cursor = cursor, !.phase = "act"]
    BY <1>3 DEF PlannerAdvance
  <2> HIDE DEF tasks
  <2>2. state'.tasks = tasks /\ state'.cursor = cursor
    BY <1>1, <2>1 DEF State
  <2>3. \A j \in 1 .. cursor - 1 : tasks[j].status # "pending"
    BY <1>1, FirstPendingProp
  <2> QED BY <2>2, <2>3 DEF OrderOK
<1> QED BY <1>2, <1>3

LEMMA CriticOrder == ASSUME TypeInv, OrderOK, Critic PROVE OrderOK'
<1> DEFINE vetted == Vetted(Current)
<1>1. state \in State /\ state.cursor \in DOMAIN state.tasks /\ frontier = {"critic"}
  BY NodeRunning, AccountsType DEF Critic, Steady
<1>2. CASE Approved(vetted)
  <2>1. state'.tasks = WithCurrent(vetted) /\ state'.cursor = state.cursor
    BY <1>1, <1>2 DEF Critic, State
  <2> HIDE DEF vetted
  <2>2. \A j \in 1 .. state.cursor - 1 : state'.tasks[j] = state.tasks[j]
    BY <1>1, <2>1 DEF WithCurrent, State
  <2>3. \A j \in 1 .. state.cursor - 1 : state.tasks[j].status # "pending"
    BY <1>1 DEF OrderOK, Committed
  <2> QED BY <2>1, <2>2, <2>3 DEF OrderOK
<1>3. CASE ~Approved(vetted)
  <2>1. frontier' = {"planner"}
    BY <1>3 DEF Critic, RouteFromCritic, GoTo
  <2> QED BY <2>1 DEF OrderOK, Committed, WorkerAgents
<1> QED BY <1>2, <1>3

LEMMA NextOrder == TypeInv /\ OrderOK /\ Next => OrderOK'
<1> SUFFICES ASSUME TypeInv, OrderOK, Next PROVE OrderOK'
  OBVIOUS
<1>1. CASE Researcher \/ \E elements \in ElementSets : Perception(elements)
  <2>1. frontier' \cap Committed = {}
    BY <1>1 DEF Researcher, Perception, TypeInv, FrontierOK, Steady, Committed, WorkerAgents
  <2> QED BY <2>1 DEF OrderOK
<1>2. CASE \/ Join \/ PlannerDone \/ PlannerStop \/ (\E agent \in WorkerAgents : Worker(agent))
           \/ VerifierPass \/ VerifierFail \/ Memory
           \/ (\E node \in Nodes : NodeThrows(node)) \/ Rerun
  <2>1. frontier' \in {{}, {"planner"}, {"verifier"}, {"memory"}, {"perception", "researcher"}}
    BY <1>2 DEF Join, PlannerDone, PlannerStop, Worker, VerifierPass, VerifierFail, Memory,
                NodeThrows, Rerun, GoTo, Finish
  <2>2. frontier' \cap Committed = {}
    BY <2>1 DEF Committed, WorkerAgents
  <2> QED BY <2>2 DEF OrderOK
<1> QED
  BY <1>1, <1>2, PlanOrder, AdvanceOrder, CriticOrder DEF Next, GraphStep, Planner

-----------------------------------------------------------------------------
(* The page                                                                *)

\* Where nothing was shown, the page is not known to be on a blocked address.
LEMMA HiddenUnknown ==
  ASSUME Unknown, unseen' = Hidden(page')
  PROVE  Unknown'
<1>1. CASE page'.url = page.url
  BY <1>1 DEF Unknown, Hidden, IsBlocked
<1>2. CASE page'.url # page.url
  BY <1>2 DEF Unknown, Hidden, IsBlocked
<1> QED BY <1>1, <1>2

LEMMA WorkerPages ==
  ASSUME TypeInv, PageOK, NEW agent \in WorkerAgents, Worker(agent)
  PROVE  PageOK'
<1>1. /\ state \in State /\ frontier = {agent} /\ frontier' = {"verifier"} /\ perceived' = <<>>
  BY NodeRunning, AccountsType DEF Worker, Steady, GoTo
<1>2. PICK o \in Outcomes :
        /\ page' = PageAfter(Current, o.redirect)
        /\ unseen' = (~o.shown /\ Hidden(page'))
        /\ state' = [state EXCEPT
                      !.toolCalls = @ + 1, !.costMicros = @ + CallCost,
                      !.tasks = WithStatus("running"),
                      !.result = [met |-> o.met, redirect |-> Shown(page', o.shown),
                                  undo |-> UndoOf(page, Current)]]
  BY DEF Worker
<1>3. state'.result.redirect = Shown(page', o.shown) /\ o.shown \in BOOLEAN
  BY <1>1, <1>2 DEF State, Outcomes
<1>4. Unknown
  BY <1>1 DEF PageOK, Committed
<1>5. frontier' # {"planner"} /\ frontier' \cap WorkerAgents = {}
      /\ frontier' \cap (Committed \cup {"memory"}) = {}
  BY <1>1 DEF Committed, WorkerAgents
<1>6. Unknown' \/ state'.result.redirect # NoUrl
  <2>1. CASE o.shown
    <3>1. IsBlocked(page'.url) => page'.url # NoUrl
      BY AgentAssumption DEF IsBlocked
    <3> QED BY <1>3, <2>1, <3>1 DEF Shown, Unknown, IsBlocked
  <2>2. CASE ~o.shown
    <3>1. unseen' = Hidden(page')
      BY <1>2, <2>2 DEF Hidden, IsBlocked
    <3> QED BY <1>4, <3>1, HiddenUnknown
  <2> QED BY <1>3, <2>1, <2>2
<1> QED BY <1>1, <1>5, <1>6 DEF PageOK

\* The task the critic lets through leads to no blocked page.
LEMMA CriticPages == ASSUME TypeInv, PageOK, Critic PROVE PageOK'
<1> DEFINE vetted == Vetted(Current)
<1>1. /\ state \in State /\ state.cursor \in DOMAIN state.tasks /\ frontier = {"critic"}
      /\ page' = page /\ unseen' = unseen /\ perceived' = perceived /\ perceived = <<>>
  BY NodeRunning, AccountsType DEF Critic, Steady, Idle
<1>2. Unknown
  BY <1>1 DEF PageOK, Committed
<1>3. Current \in Task /\ vetted \in Task
  BY <1>1, WithStatusType, VettedType DEF Statuses
<1>4. CASE Approved(vetted)
  <2>1. /\ state'.tasks = WithCurrent(vetted) /\ state'.cursor = state.cursor
        /\ frontier' = {vetted.agent}
    BY <1>1, <1>4 DEF Critic, State, RouteFromCritic, GoTo
  <2>2. Current' = vetted
    <3> HIDE DEF vetted
    <3> QED BY <1>1, <1>3, <2>1 DEF Current, WithCurrent, State
  <2>3. vetted.kind = "navigate" => ~IsBlocked(vetted.target)
    <3>1. vetted.kind = Current.kind /\ vetted.target = Current.target
          /\ vetted.approvals.critic = ~IsBlocked(JudgedUrl(Current))
      BY <1>3 DEF Vetted, Task, Approvals
    <3>2. vetted.approvals.critic
      BY <1>4 DEF Approved
    <3> QED BY <3>1, <3>2 DEF JudgedUrl
  <2>4. vetted.agent \in WorkerAgents
    BY <1>3 DEF Task
  <2> HIDE DEF vetted
  <2>5. frontier' # {"planner"} /\ frontier' # {"verifier"}
    BY <2>1, <2>4 DEF WorkerAgents
  <2> QED BY <1>1, <1>2, <2>2, <2>3, <2>5 DEF PageOK, Unknown, IsBlocked
<1>5. CASE ~Approved(vetted)
  <2>1. frontier' = {"planner"}
    BY <1>5 DEF Critic, RouteFromCritic, GoTo
  <2>2. frontier' \cap (Committed \cup {"memory"}) = {} /\ frontier' \cap WorkerAgents = {}
        /\ frontier' # {"verifier"}
    BY <2>1 DEF Committed, WorkerAgents
  <2> QED BY <1>1, <1>2, <2>2 DEF PageOK, Unknown, IsBlocked
<1> QED BY <1>4, <1>5

\* The result of a rollback is not looked at: where it leads is unseen.
LEMMA VerifierPages == ASSUME TypeInv, PageOK, VerifierFail PROVE PageOK'
<1>1. /\ state \in State /\ frontier = {"verifier"} /\ perceived' = perceived /\ perceived = <<>>
      /\ frontier' = {"planner"}
  BY NodeRunning, AccountsType DEF VerifierFail, Steady, GoTo
<1>2. state'.anomaly = (state.anomaly \/ state.result.redirect # NoUrl)
  BY <1>1 DEF VerifierFail, State
<1>3. Unknown' \/ state'.anomaly
  <2>1. CASE state.result.redirect # NoUrl
    BY <1>2, <2>1
  <2>2. CASE Unknown
    <3>1. UNCHANGED <<page, unseen>> \/ unseen' = Hidden(page')
      BY DEF VerifierFail, RollBack
    <3>2. UNCHANGED <<page, unseen>> => Unknown'
      BY <2>2 DEF Unknown, IsBlocked
    <3> QED BY <2>2, <3>1, <3>2, HiddenUnknown
  <2> QED BY <1>1, <2>1, <2>2 DEF PageOK
<1> QED BY <1>1, <1>3 DEF PageOK, Committed, WorkerAgents

LEMMA NextPages == TypeInv /\ PageOK /\ Next => PageOK'
<1> SUFFICES ASSUME TypeInv, PageOK, Next PROVE PageOK'
  OBVIOUS
<1>0. state \in State
  BY AccountsType
<1>1. ASSUME NEW elements \in ElementSets, Perception(elements) PROVE PageOK'
  <2>1. /\ frontier' \in SUBSET {"researcher"} /\ page' = page
        /\ perceived' = <<[url |-> page.url, elements |-> elements]>>
    BY <1>1 DEF Perception, TypeInv, FrontierOK, Steady, WorkerAgents
  <2>2. perceived'[1].url = page'.url
    BY <2>1
  <2>3. frontier' \cap (Committed \cup {"memory"}) = {} /\ frontier' \cap WorkerAgents = {}
        /\ frontier' # {"planner"} /\ frontier' # {"verifier"}
    BY <2>1 DEF Committed, WorkerAgents
  <2> QED BY <2>2, <2>3 DEF PageOK
<1>2. CASE Researcher
  <2>1. frontier' \in SUBSET {"perception"} /\ page' = page /\ unseen' = unseen /\ perceived' = perceived
    BY <1>2 DEF Researcher, TypeInv, FrontierOK, Steady, WorkerAgents
  <2>2. frontier' \cap (Committed \cup {"memory"}) = {} /\ frontier' \cap WorkerAgents = {}
        /\ frontier' # {"planner"} /\ frontier' # {"verifier"}
    BY <2>1 DEF Committed, WorkerAgents
  <2> QED BY <2>1, <2>2 DEF PageOK
<1>3. CASE Join
  <2>1. /\ page' = page /\ unseen' = unseen /\ perceived' = <<>> /\ frontier' = {"planner"}
        /\ state'.anomaly = (state.anomaly \/ IsBlocked(perceived[1].url))
    BY <1>0, <1>3 DEF Join, GoTo, State
  <2>2. perceived[1].url = page.url
    <3>1. perceived # <<>>
      BY <1>3 DEF Join, TypeInv, FrontierOK, Snapshot
    <3> QED BY <3>1 DEF PageOK
  <2>3. frontier' \cap (Committed \cup {"memory"}) = {} /\ frontier' \cap WorkerAgents = {}
        /\ frontier' # {"verifier"}
    BY <2>1 DEF Committed, WorkerAgents
  <2> QED BY <2>1, <2>2, <2>3 DEF PageOK, Unknown, IsBlocked
<1>4. CASE PlannerAdvance \/ \E hit \in BOOLEAN : PlannerPlan(hit)
  <2>1. /\ page' = page /\ unseen' = unseen /\ perceived' = perceived /\ perceived = <<>>
        /\ frontier = {"planner"} /\ StopReason = "none" /\ frontier' \in {{}, {"critic"}}
    BY <1>4, NodeRunning DEF PlannerAdvance, PlannerPlan, GoTo, Finish, Idle
  <2>2. Unknown
    BY <2>1 DEF StopReason, PageOK
  <2>3. frontier' \cap WorkerAgents = {} /\ frontier' # {"planner"} /\ frontier' # {"verifier"}
    BY <2>1 DEF WorkerAgents
  <2> QED BY <2>1, <2>2, <2>3 DEF PageOK, Unknown, IsBlocked
<1>5. CASE PlannerDone \/ PlannerStop
  <2>1. /\ page' = page /\ unseen' = unseen /\ perceived' = perceived /\ perceived = <<>> /\ frontier' = {}
    BY <1>5, NodeRunning DEF PlannerDone, PlannerStop, Finish, Idle
  <2> QED BY <2>1 DEF PageOK
<1>6. CASE VerifierPass
  <2>1. /\ page' = page /\ unseen' = unseen /\ perceived' = perceived /\ perceived = <<>> /\ frontier = {"verifier"}
        /\ frontier' = {"memory"} /\ state.result.redirect = NoUrl /\ Unknown
    BY <1>6, NodeRunning DEF VerifierPass, Steady, GoTo, Idle, Passed, PageOK
  <2>2. frontier' \cap WorkerAgents = {} /\ frontier' # {"planner"} /\ frontier' # {"verifier"}
    BY <2>1 DEF WorkerAgents
  <2> QED BY <2>1, <2>2 DEF PageOK, Unknown, IsBlocked
<1>7. CASE Memory
  <2>1. /\ page' = page /\ unseen' = unseen /\ perceived' = perceived /\ perceived = <<>> /\ frontier = {"memory"}
        /\ frontier' = {"planner"}
    BY <1>7, NodeRunning DEF Memory, Steady, GoTo, Idle
  <2>2. Unknown
    BY <2>1 DEF PageOK
  <2>3. frontier' \cap (Committed \cup {"memory"}) = {} /\ frontier' \cap WorkerAgents = {}
        /\ frontier' # {"verifier"}
    BY <2>1 DEF Committed, WorkerAgents
  <2> QED BY <2>1, <2>2, <2>3 DEF PageOK, Unknown, IsBlocked
<1>8. CASE Rerun \/ \E node \in Nodes : NodeThrows(node)
  <2>1. perceived' = <<>> /\ frontier' \in {{}, {"perception", "researcher"}}
    BY <1>8 DEF Rerun, NodeThrows, TypeInv, FrontierOK
  <2>2. frontier' \cap (Committed \cup {"memory"}) = {} /\ frontier' \cap WorkerAgents = {}
        /\ frontier' # {"planner"} /\ frontier' # {"verifier"}
    BY <2>1 DEF Committed, WorkerAgents
  <2> QED BY <2>1, <2>2 DEF PageOK
<1> QED
  BY <1>1, <1>2, <1>3, <1>4, <1>5, <1>6, <1>7, <1>8, WorkerPages, CriticPages, VerifierPages
  DEF Next, GraphStep, Planner

-----------------------------------------------------------------------------
(* The theorems                                                            *)

PlaceInv == TypeInv /\ OrderOK /\ PageOK

LEMMA AlwaysPlaceInv == Spec => []PlaceInv
<1>1. Init => PlaceInv
  <2> SUFFICES ASSUME Init PROVE PlaceInv
    OBVIOUS
  <2>1. frontier = {"perception", "researcher"} /\ perceived = <<>>
    BY DEF Init
  <2>2. frontier \cap (Committed \cup {"memory"}) = {} /\ frontier \cap WorkerAgents = {}
        /\ frontier \cap Committed = {} /\ frontier # {"planner"} /\ frontier # {"verifier"}
    BY <2>1 DEF Committed, WorkerAgents
  <2> QED BY <2>1, <2>2, InitTypeInv DEF PlaceInv, OrderOK, PageOK
<1>2. PlaceInv /\ [Next]_vars => PlaceInv'
  <2>1. PlaceInv /\ Next => PlaceInv'
    BY NextTypeInv, NextOrder, NextPages DEF PlaceInv
  <2>2. PlaceInv /\ UNCHANGED vars => PlaceInv'
    <3> SUFFICES ASSUME PlaceInv, UNCHANGED vars PROVE PlaceInv'
      OBVIOUS
    <3>1. TypeInv'
      BY NextTypeInv DEF PlaceInv
    <3> QED BY <3>1 DEF PlaceInv, OrderOK, PageOK, Unknown, Current, IsBlocked, vars
  <2> QED BY <2>1, <2>2
<1> QED BY <1>1, <1>2, PTL DEF Spec

\* A task starts, or is retried, only when no earlier one is pending, for every plan
\* (nodes.ts:166-178).
THEOREM OrderHolds == Spec => InPlanOrder
<1>1. PlaceInv /\ [Next]_vars =>
        [\A i \in DOMAIN executed : Executes(i) =>
           \A j \in 1 .. i - 1 : state.tasks[j].status # "pending"]_vars
  BY ExecutesCurrent DEF PlaceInv, OrderOK, Committed
<1> QED BY <1>1, AlwaysPlaceInv, PTL DEF Spec, InPlanOrder

\* No navigation to a blocked page is executed, and nothing on a page that a snapshot or a
\* result has shown to be blocked, for every set of pages, whatever calls are led on to, shown
\* or not, and whatever rollbacks, failures and resumed sessions do (nodes.ts:187-199, 279-316).
THEOREM PagesHold == Spec => NeverActsOnBlocked
<1>1. PlaceInv /\ [Next]_vars =>
        [\A i \in DOMAIN executed : Executes(i) =>
           /\ IsBlocked(page.url) => unseen
           /\ state.tasks[i].kind = "navigate" => ~IsBlocked(state.tasks[i].target)]_vars
  BY ExecutesCurrent DEF PlaceInv, PageOK, Unknown, Current, Committed
<1> QED BY <1>1, AlwaysPlaceInv, PTL DEF Spec, NeverActsOnBlocked

-----------------------------------------------------------------------------
(* What the page holds                                                     *)

\* The targets of the verified tasks of a kind, and where the page may be after them.
DoneTargets(tasks, kind) ==
  {tasks[i].target : i \in {j \in DOMAIN tasks : /\ tasks[j].status = "done"
                                                 /\ tasks[j].kind = kind}}
Visited(st) == {st.snapshot.url} \cup DoneTargets(st.tasks, "navigate") \cup BlockedUrls

\* The page p holds what verified tasks left.
AtRest(p, st) ==
  /\ p.filled \subseteq DoneTargets(st.tasks, "fill")
  /\ p.url \in Visited(st)

\* The page p holds that and what task t has done, which its undo would take back.
InDoubt(p, st, t) ==
  /\ t.status = "running"
  /\ p.filled \subseteq DoneTargets(st.tasks, "fill")
                        \cup (IF t.kind = "fill" THEN {t.target} ELSE {})
  /\ p.url \in Visited(st) \cup (IF t.kind = "navigate" THEN {t.target} ELSE {})
  /\ t.kind = "fill" =>
       /\ st.result.undo.kind = "fill" /\ st.result.undo.target = t.target
       /\ st.result.undo.set => t.target \in DoneTargets(st.tasks, "fill")
  /\ t.kind = "navigate" =>
       /\ st.result.undo.kind = "navigate"
       /\ st.result.undo.target \in Visited(st)
  /\ t.kind \notin {"fill", "navigate"} => st.result.undo = NoUndo

\* In the first run, while nothing has failed outright: what the page holds at each node, that
\* the task in hand is not done, and that what is replanned has failed.
Unplanned(st) == st.phase = "start" => st.tasks = <<>> /\ ~st.needsReplan
Unhurt == faults = 0 /\ runs = 1
EffectsOK ==
  Unhurt =>
    /\ Unplanned(state)
    /\ outcome = "running" /\ frontier \subseteq {"perception", "researcher"} => page.filled = {}
    /\ frontier \cap ({"planner", "memory"} \cup Committed) # {} => AtRest(page, state)
    /\ frontier = {"verifier"} => InDoubt(page, state, Current)
    /\ frontier \cap Committed # {} => Current.status = "pending"
    /\ frontier # {"planner"} /\ outcome = "running" => ~state.needsReplan
    /\ frontier = {"planner"} /\ state.needsReplan =>
         \A i \in DOMAIN state.tasks : i = state.verdict.task => state.tasks[i].status = "failed"

\* Tasks that are done stay as they are, and none is added to them.
LEMMA SameDone ==
  ASSUME NEW tasks, NEW tasks2, DOMAIN tasks2 = DOMAIN tasks, NEW kind,
         \A i \in DOMAIN tasks :
           tasks2[i] = tasks[i] \/ (tasks[i].status # "done" /\ tasks2[i].status # "done")
  PROVE  DoneTargets(tasks2, kind) = DoneTargets(tasks, kind)
BY DEF DoneTargets

\* The current task, not done, is replaced by one that is not done either; or it is done now.
LEMMA CurrentNotDone ==
  ASSUME state \in State, state.cursor \in DOMAIN state.tasks, Current.status # "done",
         NEW task \in Task, task.status # "done", NEW kind
  PROVE  /\ DoneTargets(WithCurrent(task), kind) = DoneTargets(state.tasks, kind)
         /\ WithCurrent(task)[state.cursor] = task
<1>1. state.tasks \in Seq(Task)
  BY DEF State
<1>2. \A i \in DOMAIN state.tasks :
        WithCurrent(task)[i] = IF i = state.cursor THEN task ELSE state.tasks[i]
  BY <1>1 DEF WithCurrent
<1>3. DOMAIN WithCurrent(task) = DOMAIN state.tasks
  BY WithCurrentType
<1> QED BY <1>2, <1>3, SameDone DEF Current

LEMMA CurrentDone ==
  ASSUME state \in State, state.cursor \in DOMAIN state.tasks, Current.status # "done", NEW kind
  PROVE  DoneTargets(WithStatus("done"), kind) =
           DoneTargets(state.tasks, kind)
             \cup (IF Current.kind = kind THEN {Current.target} ELSE {})
<1> DEFINE task == [Current EXCEPT !.status = "done"]
<1>1. state.tasks \in Seq(Task) /\ Current \in Task
  BY WithStatusType DEF State, Statuses
<1>2. task \in Task /\ task.status = "done" /\ task.kind = Current.kind
      /\ task.target = Current.target
  BY <1>1 DEF Task
<1> HIDE DEF task
<1>3. \A i \in DOMAIN state.tasks :
        WithCurrent(task)[i] = IF i = state.cursor THEN task ELSE state.tasks[i]
  BY <1>1 DEF WithCurrent
<1>4. DOMAIN WithCurrent(task) = DOMAIN state.tasks
  BY <1>2, WithCurrentType
<1>5. DoneTargets(WithCurrent(task), kind) =
        DoneTargets(state.tasks, kind) \cup (IF Current.kind = kind THEN {Current.target} ELSE {})
  BY <1>2, <1>3, <1>4 DEF DoneTargets, Current
<1>6. WithStatus("done") = WithCurrent(task)
  BY DEF WithStatus, task
<1> QED BY <1>5, <1>6

\* A task that was planned is not done.
LEMMA NothingDone ==
  ASSUME NEW tasks \in Seq(PendingTask), NEW kind
  PROVE  DoneTargets(tasks, kind) = {}
BY DEF DoneTargets, PendingTask

LEMMA WorkerEffects ==
  ASSUME TypeInv, EffectsOK, NEW agent \in WorkerAgents, Worker(agent)
  PROVE  EffectsOK'
<1> SUFFICES ASSUME Unhurt' PROVE EffectsOK'
  BY DEF EffectsOK
<1>1. /\ state \in State /\ state.cursor \in DOMAIN state.tasks /\ frontier = {agent}
      /\ frontier' = {"verifier"} /\ page \in Page /\ Unhurt /\ outcome = "running"
  BY NodeRunning, AccountsType DEF Worker, Steady, GoTo, TypeInv, TypeOK, Unhurt, session
<1>2. frontier \cap Committed # {} /\ frontier # {"planner"}
  BY <1>1 DEF Committed, WorkerAgents
<1>3. /\ AtRest(page, state) /\ Current.status = "pending" /\ ~state.needsReplan
      /\ Unplanned(state)
  BY <1>1, <1>2 DEF EffectsOK
<1>4. Current \in Task /\ WithStatus("running") = WithCurrent([Current EXCEPT !.status = "running"])
  BY <1>1, WithStatusType DEF Statuses, WithStatus
<1> DEFINE task == [Current EXCEPT !.status = "running"]
<1>5. /\ task \in Task /\ task.status = "running" /\ task.kind = Current.kind
      /\ task.target = Current.target
  BY <1>4 DEF Task
<1>6. PICK o \in Outcomes :
        /\ page' = PageAfter(Current, o.redirect)
        /\ unseen' = (~o.shown /\ Hidden(page'))
        /\ state' = [state EXCEPT
                      !.toolCalls = @ + 1, !.costMicros = @ + CallCost,
                      !.tasks = WithStatus("running"),
                      !.result = [met |-> o.met, redirect |-> Shown(page', o.shown),
                                  undo |-> UndoOf(page, Current)]]
  BY DEF Worker
<1>7. /\ state'.tasks = WithCurrent(task) /\ state'.cursor = state.cursor
      /\ state'.snapshot = state.snapshot /\ state'.anomaly = state.anomaly
      /\ state'.needsReplan = state.needsReplan /\ state'.phase = state.phase
      /\ state'.result.undo = UndoOf(page, Current)
  BY <1>1, <1>4, <1>6 DEF State
<1> HIDE DEF task
<1>8. /\ DoneTargets(state'.tasks, "fill") = DoneTargets(state.tasks, "fill")
      /\ DoneTargets(state'.tasks, "navigate") = DoneTargets(state.tasks, "navigate")
      /\ Current' = task
  BY <1>1, <1>3, <1>5, <1>7, CurrentNotDone DEF Current
<1>9. Visited(state') = Visited(state)
  BY <1>7, <1>8 DEF Visited
<1>10. InDoubt(page', state', task)
  <2> DEFINE t == Current
  <2>1. /\ t.kind = task.kind /\ t.target = task.target /\ page' = PageAfter(t, o.redirect)
        /\ state'.result.undo = UndoOf(page, t)
    BY <1>5, <1>6, <1>7
  <2> HIDE DEF t
  <2>2. page'.filled = IF t.kind = "fill" THEN page.filled \cup {t.target} ELSE page.filled
    BY <1>1, <2>1 DEF PageAfter, Redirected, ApplyAction, Page
  <2>3. page'.url \in BlockedUrls \cup {IF t.kind = "navigate" THEN t.target ELSE page.url}
    BY <1>1, <2>1 DEF PageAfter, Redirected, ApplyAction, Page, Outcomes
  <2>4. task.kind = "fill" => /\ state'.result.undo.kind = "fill"
                              /\ state'.result.undo.target = task.target
                              /\ state'.result.undo.set => task.target \in page.filled
    <3> SUFFICES ASSUME t.kind = "fill"
                 PROVE  /\ UndoOf(page, t).kind = "fill" /\ UndoOf(page, t).target = t.target
                        /\ UndoOf(page, t).set => t.target \in page.filled
      BY <2>1
    <3> DEFINE set == t.target \in page.filled
    <3>1. UndoOf(page, t) = [kind |-> "fill", target |-> t.target, set |-> set]
      BY DEF UndoOf
    <3> HIDE DEF set
    <3>2. UndoOf(page, t).kind = "fill" /\ UndoOf(page, t).target = t.target
      BY <3>1
    <3>3. UndoOf(page, t).set = set
      BY <3>1
    <3> QED BY <3>2, <3>3 DEF set
  <2>5. task.kind = "navigate" => /\ state'.result.undo.kind = "navigate"
                                  /\ state'.result.undo.target = page.url
    BY <2>1 DEF UndoOf
  <2>6. task.kind \notin {"fill", "navigate"} => state'.result.undo = NoUndo
    BY <2>1 DEF UndoOf
  <2>7. BlockedUrls \subseteq Visited(state)
    BY DEF Visited
  <2>8. page'.url \in Visited(state) \cup (IF task.kind = "navigate" THEN {task.target} ELSE {})
    BY <1>3, <2>1, <2>3, <2>7 DEF AtRest
  <2> QED
    BY <1>3, <1>5, <1>7, <1>8, <1>9, <2>1, <2>2, <2>4, <2>5, <2>6, <2>8 DEF InDoubt, AtRest
<1>11. Unplanned(state')
  BY <1>1, <1>3, <1>7 DEF Unplanned
<1>12. frontier' \cap ({"planner", "memory"} \cup Committed) = {} /\ frontier' \cap Committed = {}
       /\ ~(frontier' \subseteq {"perception", "researcher"}) /\ frontier' # {"planner"}
  BY <1>1 DEF Committed, WorkerAgents
<1> QED BY <1>3, <1>7, <1>8, <1>10, <1>11, <1>12 DEF EffectsOK

LEMMA VerifierPassEffects == ASSUME TypeInv, EffectsOK, VerifierPass PROVE EffectsOK'
<1> SUFFICES ASSUME Unhurt' PROVE EffectsOK'
  BY DEF EffectsOK
<1>1. /\ state \in State /\ state.cursor \in DOMAIN state.tasks /\ frontier = {"verifier"}
      /\ frontier' = {"memory"} /\ page' = page /\ Unhurt /\ outcome = "running"
      /\ state.result.redirect = NoUrl
  BY NodeRunning, AccountsType DEF VerifierPass, Steady, GoTo, Unhurt, session, Idle, Passed
<1>2. InDoubt(page, state, Current) /\ ~state.needsReplan
      /\ Unplanned(state)
  BY <1>1 DEF EffectsOK
<1>3. /\ state'.tasks = WithStatus("done") /\ state'.snapshot = state.snapshot
      /\ state'.anomaly = state.anomaly /\ state'.needsReplan = state.needsReplan
      /\ state'.phase = state.phase
  BY <1>1 DEF VerifierPass, State
<1>4. ASSUME NEW kind
      PROVE  DoneTargets(state'.tasks, kind) =
               DoneTargets(state.tasks, kind)
                 \cup (IF Current.kind = kind THEN {Current.target} ELSE {})
  BY <1>1, <1>2, <1>3, CurrentDone DEF InDoubt
<1>5. AtRest(page', state')
  BY <1>1, <1>2, <1>3, <1>4 DEF InDoubt, AtRest, Visited
<1>6. frontier' \cap Committed = {} /\ frontier' # {"verifier"} /\ frontier' # {"planner"}
      /\ ~(frontier' \subseteq {"perception", "researcher"})
  BY <1>1 DEF Committed, WorkerAgents
<1>7. Unplanned(state')
  BY <1>1, <1>2, <1>3 DEF Unplanned
<1> QED BY <1>2, <1>3, <1>5, <1>6, <1>7 DEF EffectsOK

\* A rollback takes back what the task has done.
LEMMA VerifierFailEffects == ASSUME TypeInv, EffectsOK, VerifierFail PROVE EffectsOK'
<1> SUFFICES ASSUME Unhurt' PROVE EffectsOK'
  BY DEF EffectsOK
<1>0. RollBack /\ faults \in Nat /\ MaxFaults \in Nat
  BY AgentAssumption DEF VerifierFail, TypeInv, TypeOK
<1>1. /\ state \in State /\ state.cursor \in DOMAIN state.tasks /\ frontier = {"verifier"}
      /\ frontier' = {"planner"} /\ page \in Page /\ Unhurt /\ faults' = faults
      /\ outcome = "running"
  <2>1. runs = 1 /\ faults' = 0 /\ frontier = {"verifier"} /\ frontier' = {"planner"}
    BY DEF VerifierFail, GoTo, Unhurt, session
  <2>2. faults' = faults \/ faults' = faults + 1
    BY <1>0 DEF RollBack
  <2>3. faults = 0
    BY <1>0, <2>1, <2>2
  <2> QED BY <2>1, <2>3, NodeRunning, AccountsType DEF Steady, Unhurt, TypeInv, TypeOK
<1>2. InDoubt(page, state, Current) /\ Unplanned(state)
  BY <1>1 DEF EffectsOK
<1> DEFINE task == [Current EXCEPT !.status = "failed"]
           undo == state.result.undo
<1>3. Current \in Task /\ WithStatus("failed") = WithCurrent(task)
  BY <1>1, WithStatusType DEF Statuses, WithStatus
<1>4. task \in Task /\ task.status = "failed"
  BY <1>3 DEF Task
<1> HIDE DEF task
<1>5. /\ state'.tasks = WithCurrent(task) /\ state'.snapshot = state.snapshot
      /\ state'.anomaly = (state.anomaly \/ state.result.redirect # NoUrl)
      /\ state'.phase = state.phase /\ state'.verdict.task = state.cursor
  BY <1>1, <1>3 DEF VerifierFail, State
<1>6. /\ DoneTargets(state'.tasks, "fill") = DoneTargets(state.tasks, "fill")
      /\ DoneTargets(state'.tasks, "navigate") = DoneTargets(state.tasks, "navigate")
      /\ state'.tasks[state.cursor] = task
  BY <1>1, <1>2, <1>4, <1>5, CurrentNotDone DEF InDoubt
<1>7. Visited(state') = Visited(state)
  BY <1>5, <1>6 DEF Visited
<1> DEFINE undone == ApplyAction(page, undo.kind, undo.target, undo.set)
<1>8. \/ undo = NoUndo /\ page' = page
      \/ /\ undo # NoUndo
         /\ \E url \in BlockedUrls \cup {NoUrl} : page' = Redirected(undone, url)
  <2>1. ~(faults < MaxFaults /\ faults' = faults + 1)
    BY <1>0, <1>1
  <2> QED BY <1>0, <2>1 DEF RollBack
<1>undone. undo # NoUndo => /\ page'.filled = undone.filled
                            /\ page'.url \in BlockedUrls \cup {undone.url}
  <2>1. undone \in Page
    BY <1>1, UndoType DEF State, Result
  <2> HIDE DEF undo, undone
  <2> QED BY <1>8, <2>1, RedirectedType
<1>9. AtRest(page', state')
  <2> DEFINE t == Current
  <2> HIDE DEF t, undo
  <2>1. CASE t.kind = "fill"
    <3>1. undo.kind = "fill" /\ undo.target = t.target
          /\ (undo.set => t.target \in DoneTargets(state.tasks, "fill"))
      BY <1>2, <2>1 DEF InDoubt, t, undo
    <3>2. undo # NoUndo
      BY <3>1 DEF NoUndo
    <3>3. page'.url \in BlockedUrls \cup {page.url}
          /\ page'.filled = IF undo.set THEN page.filled \cup {t.target} ELSE page.filled \ {t.target}
      BY <1>1, <1>undone, <3>1, <3>2 DEF ApplyAction, Page
    <3>4. page.filled \subseteq DoneTargets(state.tasks, "fill") \cup {t.target}
          /\ page.url \in Visited(state)
      BY <1>2, <2>1 DEF InDoubt, t
    <3> QED BY <1>5, <1>6, <1>7, <3>1, <3>3, <3>4 DEF AtRest, Visited
  <2>2. CASE t.kind = "navigate"
    <3>1. undo.kind = "navigate" /\ undo.target \in Visited(state)
      BY <1>2, <2>2 DEF InDoubt, t, undo
    <3>2. undo # NoUndo
      BY <3>1 DEF NoUndo
    <3>3. page'.url \in BlockedUrls \cup {undo.target} /\ page'.filled = page.filled
      BY <1>1, <1>undone, <3>1, <3>2 DEF ApplyAction, Page
    <3>4. page.filled \subseteq DoneTargets(state.tasks, "fill")
      BY <1>2, <2>2 DEF InDoubt, t
    <3> QED BY <1>5, <1>6, <1>7, <3>1, <3>3, <3>4 DEF AtRest, Visited
  <2>3. CASE t.kind \notin {"fill", "navigate"}
    <3>1. page' = page
      BY <1>2, <1>8, <2>3 DEF InDoubt, t, undo
    <3>2. page.filled \subseteq DoneTargets(state.tasks, "fill")
          /\ page.url \in Visited(state)
      BY <1>2, <2>3 DEF InDoubt, t
    <3> QED BY <1>5, <1>6, <1>7, <3>1, <3>2 DEF AtRest
  <2> QED BY <2>1, <2>2, <2>3
<1>10. frontier' \cap Committed = {} /\ frontier' # {"verifier"}
       /\ ~(frontier' \subseteq {"perception", "researcher"})
  BY <1>1 DEF Committed, WorkerAgents
<1>11. Unplanned(state')
  BY <1>1, <1>2, <1>5 DEF Unplanned
<1>12. \A i \in DOMAIN state'.tasks : i = state'.verdict.task => state'.tasks[i].status = "failed"
  BY <1>4, <1>5, <1>6
<1> QED BY <1>1, <1>9, <1>10, <1>11, <1>12 DEF EffectsOK

LEMMA CriticEffects == ASSUME TypeInv, EffectsOK, Critic PROVE EffectsOK'
<1> SUFFICES ASSUME Unhurt' PROVE EffectsOK'
  BY DEF EffectsOK
<1> DEFINE vetted == Vetted(Current)
           vetoed == [vetted EXCEPT !.status = "skipped"]
<1>1. /\ state \in State /\ state.cursor \in DOMAIN state.tasks /\ frontier = {"critic"}
      /\ page' = page /\ Unhurt /\ outcome = "running" /\ outcome' = "running"
  BY NodeRunning, AccountsType DEF Critic, Steady, Idle, Unhurt, session, GoTo
<1>2. AtRest(page, state) /\ Current.status = "pending" /\ ~state.needsReplan
      /\ Unplanned(state)
  BY <1>1 DEF EffectsOK, Committed
<1>3. vetted \in Task /\ vetted.status = "pending"
  <2>1. Current \in Task
    BY <1>1, WithStatusType DEF Statuses
  <2>2. vetted.status = Current.status
    BY <2>1 DEF Vetted, Task
  <2> QED BY <1>1, <1>2, <2>1, <2>2, VettedType
<1>4. vetoed \in Task /\ vetoed.status = "skipped"
  <2> HIDE DEF vetted
  <2> QED BY <1>3 DEF Task
<1>5. ASSUME NEW task \in Task, task.status # "done", state'.tasks = WithCurrent(task),
             state'.snapshot = state.snapshot, state'.anomaly = state.anomaly
      PROVE  AtRest(page', state')
  <2>1. /\ DoneTargets(state'.tasks, "fill") = DoneTargets(state.tasks, "fill")
        /\ DoneTargets(state'.tasks, "navigate") = DoneTargets(state.tasks, "navigate")
    BY <1>1, <1>2, <1>5, CurrentNotDone
  <2> QED BY <1>1, <1>2, <1>5, <2>1 DEF AtRest, Visited
<1>6. CASE Approved(vetted)
  <2>1. /\ state'.tasks = WithCurrent(vetted) /\ state'.cursor = state.cursor
        /\ state'.snapshot = state.snapshot /\ state'.anomaly = state.anomaly
        /\ state'.needsReplan = state.needsReplan /\ state'.phase = state.phase
        /\ frontier' = {vetted.agent}
    BY <1>1, <1>6 DEF Critic, State, RouteFromCritic, GoTo
  <2>2. vetted.agent \in WorkerAgents
    BY <1>3 DEF Task
  <2> HIDE DEF vetted, vetoed
  <2>3. Current' = vetted
    BY <1>1, <1>2, <1>3, <2>1, CurrentNotDone DEF Current
  <2>4. AtRest(page', state')
    BY <1>3, <1>5, <2>1
  <2>5. frontier' # {"verifier"} /\ frontier' # {"planner"}
        /\ ~(frontier' \subseteq {"perception", "researcher"})
    BY <2>1, <2>2 DEF WorkerAgents
  <2>6. Unplanned(state')
    BY <1>1, <1>2, <2>1 DEF Unplanned
  <2> QED BY <1>2, <1>3, <2>1, <2>3, <2>4, <2>5, <2>6 DEF EffectsOK
<1>7. CASE ~Approved(vetted)
  <2>1. /\ state'.tasks = WithCurrent(vetoed)
        /\ state'.snapshot = state.snapshot /\ state'.anomaly = state.anomaly
        /\ state'.needsReplan = state.needsReplan /\ state'.phase = state.phase
        /\ frontier' = {"planner"}
    BY <1>1, <1>7 DEF Critic, State, RouteFromCritic, GoTo
  <2> HIDE DEF vetted, vetoed
  <2>2. AtRest(page', state')
    BY <1>4, <1>5, <2>1
  <2>3. frontier' # {"verifier"} /\ frontier' \cap Committed = {}
        /\ ~(frontier' \subseteq {"perception", "researcher"})
    BY <2>1 DEF Committed, WorkerAgents
  <2>4. Unplanned(state')
    BY <1>1, <1>2, <2>1 DEF Unplanned
  <2> QED BY <1>2, <2>1, <2>2, <2>3, <2>4 DEF EffectsOK
<1> QED BY <1>6, <1>7

LEMMA PlanEffects ==
  ASSUME TypeInv, EffectsOK, NEW skillHit \in BOOLEAN, PlannerPlan(skillHit)
  PROVE  EffectsOK'
<1> SUFFICES ASSUME Unhurt' PROVE EffectsOK'
  BY DEF EffectsOK
<1> DEFINE tasks == BuildPlan(intent, state.snapshot, skillHit)
<1>1. /\ state \in State /\ intent \in IntentShape /\ state.snapshot \in Snapshot
      /\ frontier = {"planner"} /\ page' = page /\ Unhurt /\ outcome = "running"
      /\ state.phase = "start" /\ frontier' = {"critic"}
  BY NodeRunning, AgentAssumption
  DEF TypeInv, TypeOK, State, PlannerPlan, Unhurt, session, GoTo
<1>2. AtRest(page, state) /\ state.tasks = <<>> /\ ~state.needsReplan
  BY <1>1 DEF EffectsOK, Unplanned
<1>3. tasks \in Seq(PendingTask) /\ tasks # <<>>
  BY <1>1, PlanType
<1>4. /\ state'.tasks = tasks /\ state'.cursor = FirstPending(tasks) /\ state'.phase = "act"
      /\ state'.snapshot = state.snapshot /\ state'.anomaly = state.anomaly
      /\ state'.needsReplan = state.needsReplan
  <2> HIDE DEF tasks
  <2>1. state' = [state EXCEPT !.steps = @ + 1, !.tasks = tasks,
                               !.cursor = FirstPending(tasks), !.phase = "act"]
    BY DEF PlannerPlan, tasks
  <2> QED BY <1>1, <2>1 DEF State
<1> HIDE DEF tasks
<1>5. AtRest(page', state')
  <2>1. ASSUME NEW kind PROVE DoneTargets(<<>>, kind) = {} /\ DoneTargets(tasks, kind) = {}
    <3>1. <<>> \in Seq(PendingTask)
      OBVIOUS
    <3> QED BY <1>3, <3>1, NothingDone
  <2> QED BY <1>1, <1>2, <1>4, <2>1 DEF AtRest, Visited
<1>6. Current'.status = "pending"
  <2>1. tasks \in Seq(Task) /\ DOMAIN tasks = 1 .. Len(tasks)
    BY <1>3 DEF PendingTask
  <2>2. FirstPending(tasks) \in DOMAIN tasks
    <3>1. TypeInv'
      BY PlannerPlanType
    <3> QED BY <1>1, <1>4, <3>1 DEF TypeInv, CursorOK, Steady
  <2> QED BY <1>3, <1>4, <2>2 DEF Current, PendingTask
<1>7. ~state'.needsReplan
  BY <1>2, <1>4
<1>8. frontier' # {"verifier"} /\ frontier' # {"planner"}
      /\ ~(frontier' \subseteq {"perception", "researcher"})
  BY <1>1
<1> QED BY <1>4, <1>5, <1>6, <1>7, <1>8 DEF EffectsOK, Unplanned

\* What failed is tried again or given up: the planner makes no task done or undone.
LEMMA ReplannedKeeps ==
  ASSUME state \in State, NEW kind,
         state.needsReplan =>
           \A i \in DOMAIN state.tasks : i = state.verdict.task => state.tasks[i].status = "failed"
  PROVE  DoneTargets(Replanned, kind) = DoneTargets(state.tasks, kind)
<1>1. state.tasks \in Seq(Task)
  BY DEF State
<1>2. CASE state.needsReplan
  <2> DEFINE v == state.verdict.task
  <2>1. Replanned = [state.tasks EXCEPT ![v] = Replan(state.tasks[v])]
    BY <1>2 DEF Replanned
  <2>2. ASSUME NEW i \in DOMAIN state.tasks, i = v
        PROVE  Replanned[i].status # "done" /\ state.tasks[i].status # "done"
    <3> DEFINE status == IF state.tasks[i].attempts + 1 < MaxAttempts
                            /\ FeasibilityPrecheck(state.tasks[i], state.snapshot)
                         THEN "pending" ELSE "failed"
               attempts == state.tasks[i].attempts + 1
    <3>1. Replanned[i] = Replan(state.tasks[i]) /\ state.tasks[i] \in Task
      BY <1>1, <2>1, <2>2
    <3>2. Replan(state.tasks[i]) = [state.tasks[i] EXCEPT !.attempts = attempts, !.status = status]
      BY DEF Replan
    <3>3. status # "done"
      OBVIOUS
    <3> HIDE DEF status, attempts
    <3>4. Replan(state.tasks[i]).status = status
      BY <3>1, <3>2 DEF Task
    <3> QED BY <1>2, <2>2, <3>1, <3>3, <3>4
  <2>3. \A i \in DOMAIN state.tasks : i # v => Replanned[i] = state.tasks[i]
    BY <1>1, <2>1
  <2>4. DOMAIN Replanned = DOMAIN state.tasks
    BY <2>1
  <2> HIDE DEF v
  <2> QED BY <2>2, <2>3, <2>4, SameDone
<1>3. CASE ~state.needsReplan
  BY <1>3 DEF Replanned
<1> QED BY <1>2, <1>3

LEMMA AdvanceEffects == ASSUME TypeInv, EffectsOK, PlannerAdvance PROVE EffectsOK'
<1> SUFFICES ASSUME Unhurt' PROVE EffectsOK'
  BY DEF EffectsOK
<1> DEFINE tasks == Replanned
           cursor == FirstPending(tasks)
           next == [state EXCEPT !.steps = @ + 1, !.tasks = tasks, !.needsReplan = FALSE]
<1>1. /\ state \in State /\ frontier = {"planner"} /\ page' = page /\ Unhurt /\ outcome = "running"
  BY NodeRunning DEF TypeInv, TypeOK, PlannerAdvance, Unhurt, session, Idle
<1>2. /\ AtRest(page, state)
      /\ state.needsReplan =>
           \A i \in DOMAIN state.tasks : i = state.verdict.task => state.tasks[i].status = "failed"
  BY <1>1 DEF EffectsOK
<1>3. \A kind \in {"fill", "navigate"} : DoneTargets(tasks, kind) = DoneTargets(state.tasks, kind)
  BY <1>1, <1>2, ReplannedKeeps
<1>4. tasks \in Seq(Task)
  BY <1>1, ReplannedType
<1> HIDE DEF tasks
<1>5. CASE cursor = 0
  <2>1. state' = Terminate([next EXCEPT !.cursor = 1], "completed") /\ frontier' = {}
        /\ outcome' = "finished"
    BY <1>5 DEF PlannerAdvance, Finish, tasks
  <2>2. state'.phase = "done"
    BY <1>1, <2>1 DEF Terminate, State
  <2> QED BY <2>1, <2>2 DEF EffectsOK, Unplanned
<1>6. CASE cursor # 0
  <2>1. state' = [next EXCEPT !.cursor = cursor, !.phase = "act"] /\ frontier' = {"critic"}
    BY <1>6 DEF PlannerAdvance, GoTo, tasks
  <2>2. cursor \in DOMAIN tasks /\ tasks[cursor].status = "pending"
    BY <1>4, <1>6, FirstPendingProp
  <2> HIDE DEF cursor
  <2>3. /\ state'.tasks = tasks /\ state'.cursor = cursor /\ state'.phase = "act"
        /\ state'.snapshot = state.snapshot /\ state'.anomaly = state.anomaly
        /\ state'.needsReplan = FALSE
    BY <1>1, <2>1 DEF State
  <2>4. AtRest(page', state')
    BY <1>1, <1>2, <1>3, <2>3 DEF AtRest, Visited
  <2>5. frontier' # {"verifier"} /\ frontier' # {"planner"}
        /\ ~(frontier' \subseteq {"perception", "researcher"})
    BY <2>1
  <2> QED BY <2>2, <2>3, <2>4, <2>5 DEF EffectsOK, Unplanned, Current
<1> QED BY <1>5, <1>6

LEMMA MemoryEffects == ASSUME TypeInv, EffectsOK, Memory PROVE EffectsOK'
<1> SUFFICES ASSUME Unhurt' PROVE EffectsOK'
  BY DEF EffectsOK
<1>1. /\ state \in State /\ frontier = {"memory"} /\ page' = page /\ Unhurt /\ outcome = "running"
      /\ frontier' = {"planner"}
  BY NodeRunning DEF TypeInv, TypeOK, Memory, Unhurt, session, Idle, Steady, GoTo
<1>2. AtRest(page, state) /\ Unplanned(state) /\ ~state.needsReplan
  BY <1>1 DEF EffectsOK
<1>3. /\ state'.tasks = state.tasks /\ state'.snapshot = state.snapshot
      /\ state'.anomaly = state.anomaly /\ state'.needsReplan = state.needsReplan
      /\ state'.phase = state.phase
  BY <1>1 DEF Memory, State
<1>4. frontier' \cap Committed = {} /\ frontier' # {"verifier"}
      /\ ~(frontier' \subseteq {"perception", "researcher"})
  BY <1>1 DEF Committed, WorkerAgents
<1> QED BY <1>1, <1>2, <1>3, <1>4 DEF EffectsOK, AtRest, Visited, Unplanned

\* The nodes before the planner, and its last entry.
LEMMA FanOutEffects ==
  ASSUME TypeInv, EffectsOK, Researcher \/ \E elements \in ElementSets : Perception(elements)
  PROVE  EffectsOK'
<1> SUFFICES ASSUME Unhurt' PROVE EffectsOK'
  BY DEF EffectsOK
<1>1. /\ frontier \subseteq {"perception", "researcher"} /\ frontier' \subseteq frontier
      /\ outcome = "running" /\ UNCHANGED <<state, page, outcome>> /\ Unhurt
  BY DEF Researcher, Perception, TypeInv, FrontierOK, Steady, WorkerAgents, Unhurt, session
<1>2. Unplanned(state) /\ page.filled = {} /\ ~state.needsReplan
  BY <1>1 DEF EffectsOK
<1>3. frontier' \cap ({"planner", "memory"} \cup Committed) = {} /\ frontier' \cap Committed = {}
      /\ frontier' # {"verifier"} /\ frontier' # {"planner"}
  BY <1>1 DEF Committed, WorkerAgents
<1> QED BY <1>1, <1>2, <1>3 DEF EffectsOK

LEMMA JoinEffects == ASSUME TypeInv, PageOK, EffectsOK, Join PROVE EffectsOK'
<1> SUFFICES ASSUME Unhurt' PROVE EffectsOK'
  BY DEF EffectsOK
<1>1. /\ state \in State /\ frontier = {} /\ outcome = "running" /\ page' = page /\ Unhurt
      /\ frontier' = {"planner"} /\ perceived # <<>>
  <2>1. /\ state \in State /\ frontier = {} /\ outcome = "running" /\ page' = page /\ Unhurt
        /\ frontier' = {"planner"}
    BY DEF Join, TypeInv, TypeOK, GoTo, Unhurt, session
  <2>2. PICK s \in Snapshot : perceived = <<s>>
    BY <2>1 DEF TypeInv, FrontierOK
  <2> QED BY <2>1, <2>2
<1>2. Unplanned(state) /\ page.filled = {} /\ ~state.needsReplan
  BY <1>1 DEF EffectsOK
<1>3. /\ state'.tasks = state.tasks /\ state'.snapshot = perceived[1]
      /\ state'.needsReplan = state.needsReplan /\ state'.phase = state.phase
  BY <1>1 DEF Join, State
<1>4. perceived[1].url = page.url
  BY <1>1 DEF PageOK
<1>5. AtRest(page', state')
  BY <1>1, <1>2, <1>3, <1>4 DEF AtRest, Visited
<1>6. frontier' \cap Committed = {} /\ frontier' # {"verifier"}
      /\ ~(frontier' \subseteq {"perception", "researcher"})
  BY <1>1 DEF Committed, WorkerAgents
<1> QED BY <1>1, <1>2, <1>3, <1>5, <1>6 DEF EffectsOK, Unplanned

LEMMA EndEffects == ASSUME TypeInv, EffectsOK, PlannerDone \/ PlannerStop PROVE EffectsOK'
<1> SUFFICES ASSUME Unhurt' PROVE EffectsOK'
  BY DEF EffectsOK
<1>1. frontier' = {} /\ outcome' = "finished" /\ state \in State
  BY DEF PlannerDone, PlannerStop, Finish, TypeInv, TypeOK
<1>2. state'.phase = "done"
  BY <1>1 DEF PlannerDone, PlannerStop, Terminate, State
<1> QED BY <1>1, <1>2 DEF EffectsOK, Unplanned

LEMMA RunsCounted == Spec => [](runs > 0)
<1>1. Init => runs > 0
  BY DEF Init
<1>2. TypeInv /\ runs > 0 /\ [Next]_vars => (runs > 0)'
  <2> SUFFICES ASSUME TypeInv, runs > 0, [Next]_vars PROVE runs' > 0
    OBVIOUS
  <2>1. runs \in Nat
    BY DEF TypeInv, TypeOK
  <2>2. runs' = runs \/ runs' = runs + 1
    <3>1. ASSUME NEW agent \in WorkerAgents, Worker(agent) PROVE UNCHANGED runs
      BY <3>1 DEF Worker, session
    <3>2. ASSUME NEW node \in Nodes, NodeThrows(node) PROVE UNCHANGED runs
      BY <3>2 DEF NodeThrows, session
    <3>3. ASSUME NEW hit \in BOOLEAN, PlannerPlan(hit) PROVE UNCHANGED runs
      BY <3>3 DEF PlannerPlan, session
    <3>4. ASSUME NEW elements \in ElementSets, Perception(elements) PROVE UNCHANGED runs
      BY <3>4 DEF Perception, session
    <3>5. CASE \/ Researcher \/ Join \/ PlannerDone \/ PlannerStop \/ PlannerAdvance
      BY <3>5 DEF Researcher, Join, PlannerDone, PlannerStop, PlannerAdvance, session
    <3>6. CASE Critic \/ VerifierPass \/ VerifierFail \/ Memory \/ UNCHANGED vars
      BY <3>6 DEF Critic, VerifierPass, VerifierFail, Memory, session, vars
    <3>7. CASE Rerun
      BY <3>7 DEF Rerun
    <3> QED BY <3>1, <3>2, <3>3, <3>4, <3>5, <3>6, <3>7 DEF Next, GraphStep, Planner
  <2> QED BY <2>1, <2>2
<1> QED BY <1>1, <1>2, AlwaysTypeInv, PTL DEF Spec

LEMMA NextEffects == PlaceInv /\ runs > 0 /\ EffectsOK /\ [Next]_vars => EffectsOK'
<1> SUFFICES ASSUME PlaceInv, runs > 0, EffectsOK, [Next]_vars PROVE EffectsOK'
  OBVIOUS
<1>1. TypeInv /\ PageOK
  BY DEF PlaceInv
<1>2. CASE Rerun \/ \E node \in Nodes : NodeThrows(node)
  <2>1. ~Unhurt'
    <3>1. faults \in Nat /\ runs \in Nat
      BY <1>1 DEF TypeInv, TypeOK
    <3> QED BY <1>2, <3>1 DEF Rerun, NodeThrows, Unhurt
  <2> QED BY <2>1 DEF EffectsOK
<1>3. CASE UNCHANGED vars
  BY <1>3 DEF vars, EffectsOK, Unhurt, Current
<1> QED BY <1>1, <1>2, <1>3, WorkerEffects, VerifierPassEffects, VerifierFailEffects, CriticEffects,
           PlanEffects, AdvanceEffects, MemoryEffects, FanOutEffects, JoinEffects, EndEffects
        DEF Next, GraphStep, Planner

\* Whatever pages, plans, outcomes and redirects there are, as long as no call fails outright: at
\* each entry of the planner the page holds what verified tasks have left (nodes.ts:283-316).
THEOREM EffectsHold == Spec => []OnlyVerifiedEffects
<1>1. Init => EffectsOK
  <2> SUFFICES ASSUME Init PROVE EffectsOK
    OBVIOUS
  <2>1. /\ frontier = {"perception", "researcher"} /\ page.filled = {}
        /\ state.tasks = <<>> /\ ~state.needsReplan
    BY DEF Init, FreshState
  <2>2. frontier \cap ({"planner", "memory"} \cup Committed) = {} /\ frontier \cap Committed = {}
        /\ frontier # {"verifier"} /\ frontier # {"planner"}
    BY <2>1 DEF Committed, WorkerAgents
  <2> QED BY <2>1, <2>2 DEF EffectsOK, Unplanned
<1>2. EffectsOK => OnlyVerifiedEffects
  BY DEF EffectsOK, Unhurt, AtRest, Visited, DoneTargets, OnlyVerifiedEffects
<1> QED BY <1>1, <1>2, NextEffects, AlwaysPlaceInv, RunsCounted, PTL DEF Spec

=============================================================================
