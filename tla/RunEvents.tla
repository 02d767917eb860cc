------------------------------- MODULE RunEvents -------------------------------
(***************************************************************************)
(* The events of a run and the streams that show them: EventBus            *)
(* (packages/orchestrator/src/events.ts), runOrchestration as a publisher  *)
(* (graph/run.ts), and the two routes of the backend that start a run and  *)
(* stream its events (packages/backend/src/orchestrateRoutes.ts).          *)
(*                                                                         *)
(* publish, the stream's handler and its callbacks have no await in them,  *)
(* so each is one step; the nodes of a run publish between their awaits.   *)
(***************************************************************************)
EXTENDS Integers, Sequences

CONSTANTS
  Runs,          \* runs of the graph
  Streams,       \* GET /api/orchestrate/:runId/events requests
  Installs,
  OwnerOf,       \* the install that started each run
  MaxHistory,    \* maxHistoryPerRun
  MaxEvents      \* bound: the events of a run before its end

\* The nodes that the graph runs in parallel, at its beginning.
FanOut == {"perception", "researcher"}

ASSUME EventsAssumption ==
  /\ OwnerOf \in [Runs -> Installs]
  /\ MaxHistory \in Nat \ {0} /\ MaxEvents \in Nat

VARIABLES
  history,       \* EventBus.history
  finished,      \* EventBus.finished
  subscribers,   \* EventBus.subscribers: a Map from runs to sets of streams
  phase,         \* of each run: "new", "fanout", "loop", "over"
  working,       \* of each run: the parallel nodes that have started and not finished
  unstarted,     \* of each run: the parallel nodes that have not started
  streams,       \* of each stream: the run it asked for, what was written to it,
                 \* and "new", "404", "403", "open", "ended" or "left"
  log            \* history: all that was published of each run

vars == <<history, finished, subscribers, phase, working, unstarted, streams, log>>
runs == <<phase, working, unstarted>>

Kinds == {"progress", "run_finished", "error"}
EndKinds == {"run_finished", "error"}
Ends(events) == \E i \in DOMAIN events : events[i].kind \in EndKinds

-----------------------------------------------------------------------------
(* EventBus                                                                *)

SubscribersOf(r) == IF r \in DOMAIN subscribers THEN subscribers[r] ELSE {}

\* Map.set of the run's subscribers, and Map.delete when there are none.
Subscribe(r, set) ==
  [q \in (DOMAIN subscribers \ {r}) \cup (IF set = {} THEN {} ELSE {r}) |->
     IF q = r THEN set ELSE subscribers[q]]

\* Mutants: the history keeps the oldest events; it keeps one too many.
Oldest(events) == SubSeq(events, 1, IF Len(events) > MaxHistory THEN MaxHistory ELSE Len(events))
TrimLate(events) ==
  SubSeq(events, IF Len(events) > MaxHistory + 1 THEN Len(events) - MaxHistory ELSE 1, Len(events))

\* What publish keeps of the history: the newest events.
Trim(events) ==
  SubSeq(events, IF Len(events) > MaxHistory THEN Len(events) - MaxHistory + 1 ELSE 1, Len(events))

\* Who is still subscribed to r when the events have been delivered: a stream
\* ends itself at the end of the run.
StillSubscribed(r, events) == IF Ends(events) THEN {} ELSE SubscribersOf(r)

\* The events of these kinds, numbered where the log of the run has got to.
NewEvents(r, kinds) == [i \in DOMAIN kinds |-> [n |-> Len(log[r]) + i, kind |-> kinds[i]]]

\* publish, once for each kind: append, trim, mark the run finished, and call
\* every subscriber, which writes the event.
Publish(r, kinds) ==
  LET new == NewEvents(r, kinds)
      heard(s) == IF s \in SubscribersOf(r)
                  THEN [streams[s] EXCEPT !.wrote = @ \o new,
                                          !.state = IF Ends(new) THEN "ended" ELSE @]
                  ELSE streams[s]
  IN  /\ log' = [log EXCEPT ![r] = @ \o new]
      /\ history' = [history EXCEPT ![r] = Trim(@ \o new)]
      /\ finished' = IF Ends(new) THEN finished \cup {r} ELSE finished
      /\ streams' = [s \in Streams |-> heard(s)]
      /\ subscribers' = Subscribe(r, StillSubscribed(r, new))

-----------------------------------------------------------------------------
(* A run                                                                   *)

\* POST /api/orchestrate: the handler publishes run_started before it first
\* awaits anything.
Start(r) ==
  /\ phase[r] = "new" /\ phase' = [phase EXCEPT ![r] = "fanout"]
  /\ unstarted' = [unstarted EXCEPT ![r] = FanOut]
  /\ Publish(r, <<"progress">>)
  /\ UNCHANGED working

\* A parallel node begins: node_started.
NodeStarts(r, n) ==
  /\ phase[r] = "fanout" /\ n \in unstarted[r]
  /\ unstarted' = [unstarted EXCEPT ![r] = @ \ {n}]
  /\ working' = [working EXCEPT ![r] = @ \cup {n}]
  /\ Publish(r, <<"progress">>)
  /\ UNCHANGED phase

\* It ends: node_finished.  If the other one has failed in the meantime, the
\* run is over already, and nothing has told this one.
NodeFinishes(r, n) ==
  /\ n \in working[r] /\ working' = [working EXCEPT ![r] = @ \ {n}]
  /\ phase' = [phase EXCEPT ![r] = 
                 IF @ = "fanout" /\ unstarted[r] = {} /\ working[r] = {n} THEN "loop" ELSE @]
  /\ Publish(r, <<"progress">>)
  /\ UNCHANGED unstarted

\* Any event of the sequential nodes that follow.
NodeWorks(r) ==
  /\ phase[r] = "loop" /\ Len(log[r]) < MaxEvents
  /\ Publish(r, <<"progress">>)
  /\ UNCHANGED runs

\* Mutant: the end of a run is not reported.
Silent(kinds) == <<"progress">>

\* What runOrchestration publishes at the end of a run.
Report(kinds) == kinds

\* graph.invoke returns, or stops at its recursion limit, which is published
\* first.
Finish(r) ==
  /\ phase[r] = "loop" /\ phase' = [phase EXCEPT ![r] = "over"]
  /\ \/ Publish(r, Report(<<"run_finished">>))
     \/ Publish(r, Report(<<"progress", "run_finished">>))
  /\ UNCHANGED <<working, unstarted>>

\* A node rejects: graph.invoke rejects with it, the other parallel node goes on.
Fail(r) ==
  /\ \/ phase[r] = "loop" /\ UNCHANGED working
     \/ /\ phase[r] = "fanout" /\ unstarted[r] = {}
        /\ \E n \in working[r] : working' = [working EXCEPT ![r] = @ \ {n}]
  /\ phase' = [phase EXCEPT ![r] = "over"]
  /\ Publish(r, Report(<<"error">>))
  /\ UNCHANGED unstarted

-----------------------------------------------------------------------------
(* A stream                                                                *)

\* Mutant: a run that has no subscribers gets no first one.
SubscribesIfAny(s, r) == IF r \in DOMAIN subscribers THEN {s} \cup subscribers[r] ELSE {}

\* The subscribers of the run with a new one.
WithSubscriber(s, r) == SubscribersOf(r) \cup {s}

\* A request with the credential of install i.  The handler refuses, or writes the
\* history and then ends a stream whose run is finished, or subscribes it.
Open(s, r, i) ==
  LET become(state, wrote) ==
        streams' = [streams EXCEPT ![s] = [run |-> {r}, wrote |-> wrote, state |-> state]]
  IN  /\ streams[s].state = "new"
      /\ \/ /\ history[r] = <<>>
            /\ become("404", <<>>) /\ UNCHANGED subscribers
         \/ /\ history[r] # <<>> /\ OwnerOf[r] # i
            /\ become("403", <<>>) /\ UNCHANGED subscribers
         \/ /\ history[r] # <<>> /\ OwnerOf[r] = i /\ r \in finished
            /\ become("ended", history[r]) /\ UNCHANGED subscribers
         \/ /\ history[r] # <<>> /\ OwnerOf[r] = i /\ r \notin finished
            /\ become("open", history[r])
            /\ subscribers' = Subscribe(r, WithSubscriber(s, r))
      /\ UNCHANGED <<history, finished, runs, log>>

\* Mutant: the connection's close event is not listened to.
StaysSubscribed(s, r) == SubscribersOf(r)

\* The subscribers of the run without one.
WithoutSubscriber(s, r) == SubscribersOf(r) \ {s}

\* The client goes away: the request's close event.
Close(s) ==
  /\ streams[s].state = "open"
  /\ streams' = [streams EXCEPT ![s].state = "left"]
  /\ \E r \in streams[s].run : subscribers' = Subscribe(r, WithoutSubscriber(s, r))
  /\ UNCHANGED <<history, finished, runs, log>>

-----------------------------------------------------------------------------

Init ==
  /\ history = [r \in Runs |-> <<>>] /\ log = [r \in Runs |-> <<>>]
  /\ finished = {} /\ subscribers = <<>>
  /\ phase = [r \in Runs |-> "new"]
  /\ working = [r \in Runs |-> {}] /\ unstarted = [r \in Runs |-> {}]
  /\ streams = [s \in Streams |-> [run |-> {}, wrote |-> <<>>, state |-> "new"]]

\* What a run that has begun does next.
RunStep(r) ==
  \/ \E n \in FanOut : NodeStarts(r, n) \/ NodeFinishes(r, n)
  \/ NodeWorks(r) \/ Finish(r) \/ Fail(r)

Next ==
  \/ \E r \in Runs : Start(r) \/ RunStep(r)
  \/ \E s \in Streams : Close(s) \/ \E r \in Runs, i \in Installs : Open(s, r, i)

Spec == Init /\ [][Next]_vars

\* The calls a run awaits settle, and its nodes are resumed; it has only so many
\* events before its end (AgentGraph!EveryRunEnds).  No client has to do anything.
FairSpec == Spec /\ \A r \in Runs : WF_vars(RunStep(r))

-----------------------------------------------------------------------------
(* Properties                                                              *)

Event == [n: Nat, kind: Kinds]
Stream == [run: SUBSET Runs, wrote: Seq(Event),
           state: {"new", "404", "403", "open", "ended", "left"}]

\* The type invariant of the bus, the runs and the streams.
TypeOK ==
  /\ history \in [Runs -> Seq(Event)] /\ log \in [Runs -> Seq(Event)]
  /\ \A r \in Runs : Len(history[r]) <= MaxHistory
  /\ finished \subseteq Runs
  /\ DOMAIN subscribers \subseteq Runs
  /\ \A r \in DOMAIN subscribers : subscribers[r] \subseteq Streams
  /\ phase \in [Runs -> {"new", "fanout", "loop", "over"}]
  /\ working \in [Runs -> SUBSET FanOut] /\ unstarted \in [Runs -> SUBSET FanOut]
  /\ streams \in [Streams -> Stream]

\* The log this implements: a stream is given the newest events of its run and then
\* every one that follows, once and in order, whatever the runs and the other
\* streams do while it joins, until the run ends.
Log == INSTANCE EventLog WITH
         Readers <- Streams, Window <- MaxHistory,
         read <- [s \in Streams |-> streams[s].wrote],
         follows <- [s \in Streams |-> IF streams[s].state = "open" THEN streams[s].run ELSE {}]

ReadsTheLog == Log!Spec

\* The bus holds on to exactly the streams that are open: none is forgotten while
\* it waits, none is kept after its end or its client's, and no run without a
\* stream has an entry (orchestrateRoutes.ts:131-137, events.ts:72-80).
HoldsOpenStreams ==
  /\ \A r \in DOMAIN subscribers : subscribers[r] # {}
  /\ \A s \in Streams, r \in Runs :
       s \in SubscribersOf(r) <=> streams[s].state = "open" /\ streams[s].run = {r}

\* A stream that the server ends has been told how its run ended, however
\* late it came and whatever was published after the end.
EndIsSeen ==
  \A s \in Streams : streams[s].state = "ended" => Ends(streams[s].wrote)

\* A stream does not stay open for ever: its run ends and it with it.
StreamsEnd == \A s \in Streams : streams[s].state = "open" ~> streams[s].state # "open"

=============================================================================
