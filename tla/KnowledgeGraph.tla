---------------------------- MODULE KnowledgeGraph ----------------------------
(***************************************************************************)
(* The user knowledge graph of one install: the memory system's write      *)
(* path, forget and pause (memorySystem.ts, writer.ts) on the graph store  *)
(* (inMemoryGraphStore.ts).                                                *)
(*                                                                         *)
(* A call of the store is atomic; everything between two calls of it works *)
(* on what the calls returned.  So a step is one call and the code from    *)
(* its return to the next call, and the steps of several writes and of     *)
(* several requests to forget may come in any order.                       *)
(*                                                                         *)
(* Each install has a store of its own, so one is enough.  What a node     *)
(* weighs (importance, confidence, times and counts of access) is left     *)
(* out, and so are embeddings: labels that embed alike are one label, and  *)
(* Related holds the pairs that embed close to one another.  Labels are    *)
(* the ones the PII gate leaves.  No caller sets an event's refs.          *)
(***************************************************************************)
EXTENDS Integers, Sequences, FiniteSets, SequencesExt

CONSTANTS
  Writers,   \* calls of recordEvents
  Forgets,   \* calls of forget
  Jobs,      \* calls of consolidate, whose steps are those of module Consolidation
  Batches,   \* the sequences of events a call of recordEvents may be given
  Names,     \* texts that tell things apart: names, labels, sorts, sessions
  Domains,   \* domains of pages
  Requests,  \* bound: what users ask of the memory: the scopes of forget, and to pause
  Related,   \* pairs of labels with a similarity from linkThreshold to mergeThreshold
  None       \* no id, key, domain or sort

Flows == Writers \cup Forgets \cup Jobs

Kinds == {"session_started", "intent_captured", "task_planned", "action_taken", "page_visited",
          "observation", "decision", "preference", "failure", "skill_candidate"}
NodeTypes == {"Session", "Intent", "Task", "Action", "PageVisit", "Domain", "Entity",
              "Observation", "Decision", "Preference", "Failure", "Concept", "Skill"}
EdgeTypes == {"PRECEDED_BY", "BELONGS_TO", "REFERS_TO", "SIMILAR_TO", "SUPERSEDES",
              "DERIVED_FROM", "ABSTRACTS"}
Marks == {"done", "embedded", "superseded", "compacted", "episode", "cold"}

\* What is recorded, and an entity that its text names.
Mention == [name: Names, sort: Names, label: Names]
MemoryEvent ==
  [kind: Kinds, session: Names, of: Names \cup {None}, label: Names, domain: Domains \cup {None},
   entities: Seq(Mention), done: BOOLEAN]

\* newId gives out new ids; a natural key says what a node is about.
Id == (Writers \cup Jobs) \X (Nat \ {0})
Key ==
  {"session", "intent", "task", "pref", "entity", "domain", "skill"}
    \X (Names \cup {None}) \X (Names \cup {None})
Node ==
  [id: Id, type: NodeTypes, key: Key \cup {None}, label: Names, domain: Domains \cup {None},
   sort: Names \cup {None}, marks: SUBSET Marks]
Edge == [type: EdgeTypes, from: Id, to: Id, by: Writers \cup Jobs]

ASSUME MemoryAssumption ==
  /\ Writers \cap Forgets = {} /\ Writers \cap Jobs = {} /\ Forgets \cap Jobs = {}
  /\ Domains \subseteq Names /\ Batches \subseteq Seq(MemoryEvent)
  /\ None \notin Names \cup Key \cup Id \cup Node
  /\ Requests \subseteq {"node", "edge", "domain", "timeRange", "pause"}

VARIABLES
  nodes,    \* the tenant's nodes, in the order in which the Map was given them
  edges,    \* the tenant's edges
  paused,   \* recording is paused
  pc,       \* each flow: "idle", "busy", "done"
  write,    \* the local variables of each writeForInstall
  forget,   \* the local variables of each forget
  before,   \* history: the flows that had ended when a flow began
  origin,   \* history: the flow that put a stored node into the store
  makers,   \* history: the flows that ever put a node into the store when it was not there
  gone,     \* history: the flows under way when a removed node was last removed
  forgot    \* history: the flows that had ended when a domain that is now forgotten was listed

store == <<nodes, edges, origin, makers, gone>>
vars == <<nodes, edges, paused, pc, write, forget, before, origin, makers, gone, forgot>>

Ended == {f \in Flows : pc[f] = "done"}
Underway == {f \in Flows : pc[f] = "busy"}

-----------------------------------------------------------------------------
(* The store.  A Map keeps the place of a key that is set again.           *)

\* What stands at places of a sequence, in its order.
Filter(s, places) ==
  LET kept[i \in 0 .. Len(s)] ==
        IF i = 0 THEN <<>>
        ELSE IF i \in places THEN Append(kept[i - 1], s[i]) ELSE kept[i - 1]
  IN  kept[Len(s)]

Ids(s) == {s[i].id : i \in DOMAIN s}
Get(s, id) == s[CHOOSE i \in DOMAIN s : s[i].id = id]
Put(s, n) ==
  IF n.id \in Ids(s) THEN [i \in DOMAIN s |-> IF s[i].id = n.id THEN n ELSE s[i]]
                     ELSE Append(s, n)
PutAll(s, t) ==
  [i \in DOMAIN s |-> IF s[i].id \in Ids(t) THEN Get(t, s[i].id) ELSE s[i]]
    \o Filter(t, {i \in DOMAIN t : t[i].id \notin Ids(s)})

\* What stands first of what stands at places, or None.
FirstOf(s, places) ==
  IF places = {} THEN None ELSE s[CHOOSE i \in places : \A j \in places : i <= j]

FindByNaturalKey(key) == FirstOf(nodes, {i \in DOMAIN nodes : nodes[i].key = key})

\* Mutant: only the edges that leave a deleted node go with it.
LeavesOnly(e, ids) == e.from \in ids

Incident(e, ids) == e.from \in ids \/ e.to \in ids

MakersOf(id) == IF id \in DOMAIN makers THEN makers[id] ELSE {}

\* What the history remembers when flow f has changed the nodes.
Remember(f) ==
  LET removed == Ids(nodes) \ Ids(nodes')
      added == Ids(nodes') \ Ids(nodes)
  IN  /\ origin' = [id \in Ids(nodes') |-> IF id \in added THEN f ELSE origin[id]]
      /\ makers' = [id \in DOMAIN makers \cup added |->
                      MakersOf(id) \cup (IF id \in added THEN {f} ELSE {})]
      /\ gone' = [id \in DOMAIN gone \cup removed |-> IF id \in removed THEN Underway ELSE gone[id]]

ApplyBatch(f, upserts, links) ==
  /\ nodes' = PutAll(nodes, upserts)
  /\ edges' = edges \cup links
  /\ Remember(f)

DeleteNodes(f, ids) ==
  /\ nodes' = Filter(nodes, {i \in DOMAIN nodes : nodes[i].id \notin ids})
  /\ edges' = {e \in edges : ~ Incident(e, ids)}
  /\ Remember(f)

-----------------------------------------------------------------------------
(* What an event becomes: buildPrimary.                                    *)

TypeFor ==
  [session_started |-> "Session", intent_captured |-> "Intent", task_planned |-> "Task",
   action_taken |-> "Action", page_visited |-> "PageVisit", observation |-> "Observation",
   decision |-> "Decision", preference |-> "Preference", failure |-> "Failure",
   skill_candidate |-> "Observation"]

SessionKey(s) == <<"session", s, None>>
DomainKey(d) == <<"domain", d, None>>
EntityKey(x) == <<"entity", x.sort, x.name>>

KeyOf(e) ==
  CASE e.kind = "session_started" -> SessionKey(e.session)
    [] e.kind = "intent_captured" -> <<"intent", e.session, e.of>>
    [] e.kind = "task_planned" /\ e.of # None -> <<"task", e.of, None>>
    [] e.kind = "preference" -> <<"pref", e.of, None>>
    [] OTHER -> None

NewNode(id, type, key, label) ==
  [id |-> id, type |-> type, key |-> key, label |-> label,
   domain |-> None, sort |-> None, marks |-> {}]

Embedded == {"intent_captured", "task_planned", "action_taken", "observation", "preference"}

\* The kinds whose text is searched for entities, and those that keep a domain.
Texts == {"intent_captured", "page_visited", "observation"}
Located == {"task_planned", "action_taken", "page_visited", "decision", "failure", "skill_candidate"}

BuildPrimary(e, id) ==
  [NewNode(id, TypeFor[e.kind], KeyOf(e), e.label) EXCEPT
     !.domain = IF e.kind \in Located THEN e.domain ELSE None,
     !.marks = (IF e.kind \in Embedded THEN {"embedded"} ELSE {}) \cup (IF e.done THEN {"done"} ELSE {})]

Call(stage, e, x) == [stage |-> stage, event |-> e, entity |-> x]

\* The calls of the store that an event leads to, in their order.
CallsFor(e) ==
  <<Call("primary", e, None)>>
    \o (IF e.kind = "session_started" THEN <<>> ELSE <<Call("anchor", e, None)>>)
    \o (IF e.kind = "preference" THEN <<Call("supersede", e, None)>> ELSE <<>>)
    \o (IF e.kind = "page_visited" /\ e.domain # None THEN <<Call("domain", e, None)>> ELSE <<>>)
    \o (IF e.kind \in Texts
        THEN FlattenSeq([i \in DOMAIN e.entities |-> <<Call("exact", e, e.entities[i]),
                                                      Call("similar", e, e.entities[i])>>])
        ELSE <<>>)

Calls(batch) == FlattenSeq([i \in DOMAIN batch |-> CallsFor(batch[i])])

-----------------------------------------------------------------------------
(* writeForInstall                                                         *)

NoWrite ==
  [todo |-> <<>>,     \* the calls that are left of the batch
   staged |-> <<>>,   \* nodes
   links |-> {},      \* edges
   keys |-> <<>>,     \* byNaturalKey, as a function to ids
   last |-> <<>>,     \* lastByType
   primary |-> None,  \* the id of primaryNode
   minted |-> 0]      \* ids that newId has given out

Fresh(w) == <<w, write[w].minted + 1>>

\* Map.set on a function whose domain is the map's keys.
Assign(map, key, value) == [k \in DOMAIN map \cup {key} |-> IF k = key THEN value ELSE map[k]]

Stage(r, n) ==
  [r EXCEPT !.staged = Put(@, n), !.keys = IF n.key = None THEN @ ELSE Assign(@, n.key, n.id)]

\* Mutant: a node that is not there is linked to all the same.
LinkAny(w, r, type, from, to) ==
  [r EXCEPT !.links = IF from = to THEN @
                      ELSE @ \cup {[type |-> type, from |-> from, to |-> to, by |-> w]}]

Link(w, r, type, from, to) ==
  [r EXCEPT !.links = IF to \in {None, from} THEN @
                      ELSE @ \cup {[type |-> type, from |-> from, to |-> to, by |-> w]}]

\* Mutant: a node that the batch itself has made is not found.
ResolveStored(r, key, built) ==
  LET stored == FindByNaturalKey(key)
  IN  IF stored = None THEN built ELSE stored

\* resolveByKey: the node in the batch, else the one in the store, else the new one.
ResolveByKey(r, key, built) ==
  IF key \in DOMAIN r.keys THEN Get(r.staged, r.keys[key])
  ELSE LET stored == FindByNaturalKey(key)
       IN  CASE stored = None -> built
             [] stored # None /\ stored.id \in Ids(r.staged) -> Get(r.staged, stored.id)
             [] OTHER -> stored

Begin(f) == pc[f] = "idle" /\ before' = [before EXCEPT ![f] = Ended]

\* recordEvents, up to the first call of the store.
RecordEvents(w) ==
  /\ Begin(w)
  /\ \E batch \in Batches :
       IF paused
       THEN pc' = [pc EXCEPT ![w] = "done"] /\ UNCHANGED write
       ELSE /\ pc' = [pc EXCEPT ![w] = "busy"]
            /\ write' = [write EXCEPT ![w] = [NoWrite EXCEPT !.todo = Calls(batch)]]
  /\ UNCHANGED <<store, paused, forget, forgot>>

At(w, stage) == pc[w] = "busy" /\ write[w].todo # <<>> /\ Head(write[w].todo).stage = stage

\* The flow goes on with r after n of its calls.
GoesOn(w, r, n) ==
  /\ write' = [write EXCEPT ![w] = [r EXCEPT !.todo = SubSeq(@, n + 1, Len(@))]]
  /\ UNCHANGED <<store, paused, pc, forget, before, forgot>>

PrimaryIs(r, node) ==
  [r EXCEPT !.primary = node.id, !.last = Assign(@, node.type, node.id), !.minted = @ + 1]

Primary(w) ==
  /\ At(w, "primary")
  /\ LET r == write[w]
         e == Head(r.todo).event
         built == BuildPrimary(e, Fresh(w))
         node == IF built.key # None /\ e.kind # "preference"
                 THEN ResolveByKey(r, built.key, built) ELSE built
         previous == IF node.type \in DOMAIN r.last THEN r.last[node.type] ELSE None
     IN  GoesOn(w, PrimaryIs(Link(w, Stage(r, node), "PRECEDED_BY", node.id, previous), node), 1)

Anchor(w) ==
  /\ At(w, "anchor")
  /\ LET r == write[w]
         key == SessionKey(Head(r.todo).event.session)
         stored == FindByNaturalKey(key)
         session == IF key \in DOMAIN r.keys THEN r.keys[key]
                    ELSE IF stored = None THEN None ELSE stored.id
     IN  GoesOn(w, Link(w, r, "BELONGS_TO", r.primary, session), 1)

\* A preference that contradicts the one found supersedes it.
Supersede(w) ==
  /\ At(w, "supersede")
  /\ LET r == write[w]
         e == Head(r.todo).event
         prior == FindByNaturalKey(KeyOf(e))
     IN  IF prior # None /\ prior.label # e.label
         THEN GoesOn(w, Link(w, Stage(r, [prior EXCEPT !.marks = @ \cup {"superseded"}]),
                             "SUPERSEDES", r.primary, prior.id), 1)
         ELSE GoesOn(w, r, 1)

\* The domain is looked up by a key, but the node made for it is given none.
RollUp(w) ==
  /\ At(w, "domain")
  /\ LET r == write[w]
         d == Head(r.todo).event.domain
         built == [NewNode(Fresh(w), "Domain", None, d) EXCEPT !.domain = d]
         node == ResolveByKey(r, DomainKey(d), built)
     IN  GoesOn(w, [Link(w, Stage(r, node), "BELONGS_TO", r.primary, node.id)
                      EXCEPT !.minted = @ + 1], 1)

\* resolveEntity, up to the lookup of the entity's name.
ResolveEntity(w) ==
  /\ At(w, "exact")
  /\ LET r == write[w]
         key == EntityKey(Head(r.todo).entity)
         stored == FindByNaturalKey(key)
     IN  CASE key \in DOMAIN r.keys ->
                GoesOn(w, Link(w, r, "REFERS_TO", r.primary, r.keys[key]), 2)
           [] key \notin DOMAIN r.keys /\ stored # None ->
                GoesOn(w, Link(w, Stage(r, stored), "REFERS_TO", r.primary, stored.id), 2)
           [] OTHER -> GoesOn(w, r, 1)

\* resolveEntity, from the search for entities that embed like it.
Corefer(w) ==
  /\ At(w, "similar")
  /\ LET r == write[w]
         x == Head(r.todo).entity
         entities == {i \in DOMAIN nodes : nodes[i].type = "Entity" /\ nodes[i].sort = x.sort}
         twin == FirstOf(nodes, {i \in entities : nodes[i].label = x.label})
         built == [NewNode(Fresh(w), "Entity", EntityKey(x), x.label) EXCEPT
                     !.sort = x.sort, !.marks = {"embedded"}]
         close == {i \in entities : <<nodes[i].label, x.label>> \in Related}
         made == Link(w, Stage(r, built), "REFERS_TO", r.primary, built.id)
     IN  IF twin # None
         THEN GoesOn(w, [Link(w, r, "REFERS_TO", r.primary, twin.id)
                           EXCEPT !.staged = Put(@, twin), !.minted = @ + 1,
                                  !.keys = Assign(@, EntityKey(x), twin.id)], 1)
         ELSE GoesOn(w, [made EXCEPT !.minted = @ + 1,
                           !.links = @ \cup {[type |-> "SIMILAR_TO", from |-> built.id,
                                              to |-> nodes[i].id, by |-> w] : i \in close}], 1)

\* The batch is written; the call of recordEvents returns.
Commit(w) ==
  /\ pc[w] = "busy" /\ write[w].todo = <<>>
  /\ ApplyBatch(w, write[w].staged, write[w].links)
  /\ pc' = [pc EXCEPT ![w] = "done"]
  /\ write' = [write EXCEPT ![w] = NoWrite]
  /\ UNCHANGED <<paused, forget, before, forgot>>

\* A call of the store, or of the embedder, rejects: nothing is written.
WriteFails(w) ==
  /\ pc[w] = "busy"
  /\ pc' = [pc EXCEPT ![w] = "done"]
  /\ write' = [write EXCEPT ![w] = NoWrite]
  /\ UNCHANGED <<store, paused, forget, before, forgot>>

-----------------------------------------------------------------------------
(* forget and setPaused                                                    *)

NoForget == [domain |-> None, ids |-> {}, listed |-> {}, found |-> FALSE]

Ends(g) ==
  /\ pc' = [pc EXCEPT ![g] = "done"]
  /\ forget' = [forget EXCEPT ![g] = NoForget]
  /\ UNCHANGED <<paused, write>>

ForgetNode(g) ==
  /\ "node" \in Requests /\ Begin(g)
  /\ \E id \in DOMAIN origin \cup DOMAIN gone : DeleteNodes(g, {id})
  /\ Ends(g) /\ UNCHANGED forgot

ForgetEdge(g) ==
  /\ "edge" \in Requests /\ Begin(g)
  /\ \E e \in edges : edges' = edges \ {e}
  /\ Ends(g) /\ UNCHANGED <<nodes, origin, makers, gone, forgot>>

\* Mutant: only the domain's own node is listed.
RollupsOf(d) == {nodes[i].id : i \in {j \in DOMAIN nodes : nodes[j].domain = d /\ nodes[j].type = "Domain"}}

NodesOf(d) == {nodes[i].id : i \in {j \in DOMAIN nodes : nodes[j].domain = d}}

Lists(g, record) ==
  /\ Begin(g)
  /\ pc' = [pc EXCEPT ![g] = "busy"]
  /\ forget' = [forget EXCEPT ![g] = record]
  /\ UNCHANGED <<store, paused, write, forgot>>

ListDomain(g) ==
  /\ "domain" \in Requests
  /\ \E d \in Domains :
       Lists(g, [domain |-> d, ids |-> NodesOf(d), listed |-> Ended, found |-> FALSE])

\* The time range is everything up to now.
ListTimeRange(g) ==
  /\ "timeRange" \in Requests
  /\ Lists(g, [domain |-> None, ids |-> Ids(nodes), listed |-> Ended, found |-> TRUE])

FindDomain(g) ==
  /\ pc[g] = "busy" /\ ~ forget[g].found
  /\ LET entity == FindByNaturalKey(DomainKey(forget[g].domain))
     IN  forget' = [forget EXCEPT ![g].found = TRUE,
                                  ![g].ids = IF entity = None THEN @ ELSE @ \cup {entity.id}]
  /\ UNCHANGED <<store, paused, pc, write, before, forgot>>

DeleteListed(g) ==
  /\ pc[g] = "busy" /\ forget[g].found
  /\ DeleteNodes(g, forget[g].ids)
  /\ forgot' = IF forget[g].domain = None THEN forgot
               ELSE [forgot EXCEPT ![forget[g].domain] = @ \cup forget[g].listed]
  /\ Ends(g) /\ UNCHANGED before

SetPaused ==
  /\ "pause" \in Requests
  /\ paused' = ~ paused
  /\ UNCHANGED <<store, pc, write, forget, before, forgot>>

-----------------------------------------------------------------------------

Init ==
  /\ nodes = <<>> /\ edges = {} /\ paused = FALSE
  /\ pc = [f \in Flows |-> "idle"]
  /\ write = [w \in Writers |-> NoWrite]
  /\ forget = [g \in Forgets |-> NoForget]
  /\ before = [f \in Flows |-> {}]
  /\ origin = <<>> /\ makers = <<>> /\ gone = <<>>
  /\ forgot = [d \in Domains |-> {}]

Writing(w) ==
  \/ RecordEvents(w) \/ Primary(w) \/ Anchor(w) \/ Supersede(w) \/ RollUp(w)
  \/ ResolveEntity(w) \/ Corefer(w) \/ Commit(w) \/ WriteFails(w)

Forgetting(g) ==
  \/ ForgetNode(g) \/ ForgetEdge(g) \/ ListDomain(g) \/ ListTimeRange(g)
  \/ FindDomain(g) \/ DeleteListed(g)

Next ==
  \/ \E w \in Writers : Writing(w)
  \/ \E g \in Forgets : Forgetting(g)
  \/ SetPaused

Spec == Init /\ [][Next]_vars

-----------------------------------------------------------------------------
(* Properties                                                              *)

\* A node's id is its own, in the store and in every batch.
Distinct(s) == \A i, j \in DOMAIN s : s[i].id = s[j].id => i = j

NodesOK(s) == s \in Seq(Node) /\ Distinct(s)

\* The type invariant.
TypeOK ==
  /\ NodesOK(nodes) /\ edges \subseteq Edge /\ paused \in BOOLEAN
  /\ pc \in [Flows -> {"idle", "busy", "done"}]
  /\ DOMAIN write = Writers /\ DOMAIN forget = Forgets
  /\ \A w \in Writers :
       /\ NodesOK(write[w].staged) /\ write[w].links \subseteq Edge /\ write[w].minted \in Nat
       /\ \A k \in DOMAIN write[w].keys : k \in Key /\ write[w].keys[k] \in Ids(write[w].staged)
       /\ \A t \in DOMAIN write[w].last : t \in NodeTypes /\ write[w].last[t] \in Ids(write[w].staged)
  /\ \A g \in Forgets :
       /\ forget[g].ids \subseteq Id /\ forget[g].listed \subseteq Flows
       /\ forget[g].domain \in Domains \cup {None} /\ forget[g].found \in BOOLEAN
  /\ before \in [Flows -> SUBSET Flows] /\ forgot \in [Domains -> SUBSET Flows]
  /\ origin \in [Ids(nodes) -> Flows]
  /\ Ids(nodes) \subseteq DOMAIN makers /\ DOMAIN makers \subseteq Id
  /\ \A id \in DOMAIN makers : makers[id] \subseteq Flows
  /\ DOMAIN gone \subseteq Id /\ \A id \in DOMAIN gone : gone[id] \subseteq Flows

\* Two calls that were under way at one time.
Overlap(f, g) ==
  f # g /\ pc[f] # "idle" /\ pc[g] # "idle" /\ f \notin before[g] /\ g \notin before[f]

\* Two calls that overlap, or one under which another overlapping call may remove nodes.
Rivals(f, g) == Overlap(f, g) \/ (f = g /\ \E x \in Forgets \cup Jobs : Overlap(f, x))

\* Two nodes with one natural key are the work of two calls that overlapped, or of
\* one from under which the node was removed: neither a batch by itself nor one
\* call after another makes a second session, intent, task or entity.  (A third
\* call may have put a copy of its own back in the place of one that was forgotten:
\* the calls meant are among those that ever put the node there.  Preferences are
\* versions and share their key.)
OneNodePerKey ==
  \A i, j \in DOMAIN nodes :
    /\ i # j /\ nodes[i].key # None /\ nodes[i].key = nodes[j].key
    /\ nodes[i].type # "Preference"
    => \E f \in makers[nodes[i].id], g \in makers[nodes[j].id] : Rivals(f, g)

\* An edge leads to a node that is stored, or that was removed while the flow that
\* wrote the edge was under way; never to one that was removed before or after,
\* and never to one that was not written at all.
CascadeHolds ==
  \A e \in edges : \A id \in {e.from, e.to} :
    id \in Ids(nodes) \/ (id \in DOMAIN gone /\ e.by \in gone[id])

\* Once a domain is forgotten, what is stored of it was put there by a call that
\* had not returned when the forgetting began.  (Such a call may have read a node
\* before it was forgotten, and put a copy of it back.)
ForgottenStays ==
  \A i \in DOMAIN nodes :
    nodes[i].domain # None => origin[nodes[i].id] \notin forgot[nodes[i].domain]

=============================================================================
