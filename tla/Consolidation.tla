---------------------------- MODULE Consolidation -----------------------------
(***************************************************************************)
(* The consolidation jobs of the knowledge graph (consolidation.ts), run   *)
(* in a row by consolidate() on the graph that KnowledgeGraph describes,   *)
(* while writes and requests to forget go on.                              *)
(*                                                                         *)
(* As there, a step is one call of the store and the code up to the next.  *)
(* Scores are left out: any hot node may have decayed, any cold one may    *)
(* have expired, and any active preference may be the most confident.      *)
(***************************************************************************)
EXTENDS KnowledgeGraph

CONSTANTS
  MinActions,   \* episodeMinActions
  MinCluster,   \* conceptMinCluster
  MinSuccesses, \* skillMinSuccesses
  MaxDecayed    \* bound: nodes that one applyDecay cools or purges

ASSUME ConsolidationAssumption ==
  /\ MinActions \in Nat \ {0} /\ MinCluster \in Nat \ {0} /\ MinSuccesses \in Nat \ {0}
  /\ MaxDecayed \in Nat /\ "episode" \in Names

VARIABLE job   \* the local variables of each consolidation

allVars == <<vars, job>>

\* What is left to be done of a job, and what the call before returned for it.
NoJob == [name |-> "none", work |-> <<>>, ready |-> FALSE, seen |-> <<>>, minted |-> 0]

\* Those of s that meet P, in their order.
Where(s, P(_)) == Filter(s, {i \in DOMAIN s : P(s[i])})

Of(s, type) == Where(s, LAMBDA n : n.type = type)
Marked(s, mark) == Where(s, LAMBDA n : mark \in n.marks)
Mark(s, mark) == [i \in DOMAIN s |-> [s[i] EXCEPT !.marks = @ \cup {mark}]]

\* The members of s, put together with those of the same K, in the order of the first of each.
GroupsBy(s, K(_)) ==
  LET firsts == Filter(s, {i \in DOMAIN s : ~ \E h \in 1 .. i - 1 : K(s[h]) = K(s[i])})
  IN  [g \in DOMAIN firsts |-> Where(s, LAMBDA n : K(n) = K(firsts[g]))]

NewEdges(j, type, froms, tos) ==
  {[type |-> type, from |-> x, to |-> y, by |-> j] : x \in froms, y \in tos}

\* A node that consolidation makes; makeNode gives it an id.
Made(j, type, key, label) == NewNode(<<j, job[j].minted + 1>>, type, key, label)

InJob(j, name) == pc[j] = "busy" /\ job[j].name = name
HasWork(j, name) == InJob(j, name) /\ job[j].work # <<>>
Over(j, name) == InJob(j, name) /\ job[j].work = <<>>

frame == <<paused, write, forget, forgot>>

\* The next job has listed what it works on.
Starts(j, name, work) ==
  /\ job' = [job EXCEPT ![j].name = name, ![j].work = work]
  /\ UNCHANGED <<store, pc, before, frame>>

\* The first piece of work is ready to be written, with what was read for it.
Ready(j, seen) ==
  /\ job' = [job EXCEPT ![j].ready = TRUE, ![j].seen = seen]
  /\ UNCHANGED <<store, pc, before, frame>>

Rest(j) == [job[j] EXCEPT !.work = Tail(@), !.ready = FALSE, !.seen = <<>>]

\* The first piece of work needs no writing.
Skips(j) ==
  /\ job' = [job EXCEPT ![j] = Rest(j)]
  /\ UNCHANGED <<store, pc, before, frame>>

\* The first piece of work is written.
Writes(j, upserts, links, made) ==
  /\ ApplyBatch(j, upserts, links)
  /\ job' = [job EXCEPT ![j] = [Rest(j) EXCEPT !.minted = @ + made]]
  /\ UNCHANGED <<pc, before, frame>>

-----------------------------------------------------------------------------
(* compactEpisodes *)

Consolidate(j) ==
  /\ Begin(j)
  /\ pc' = [pc EXCEPT ![j] = "busy"]
  /\ job' = [job EXCEPT ![j] = [NoJob EXCEPT !.name = "episodes", !.work = Of(nodes, "Session")]]
  /\ UNCHANGED <<store, frame>>

\* The actions that belong to a session are compacted, unless one of them was before.
FindActions(j) ==
  /\ HasWork(j, "episodes") /\ ~ job[j].ready
  /\ LET session == Head(job[j].work).id
         actions == Where(Of(nodes, "Action"), LAMBDA n :
                      \E e \in edges : e.type = "BELONGS_TO" /\ e.from = n.id /\ e.to = session)
     IN  IF Len(actions) < MinActions \/ Marked(actions, "compacted") # <<>>
         THEN Skips(j) ELSE Ready(j, actions)

\* Mutant: the actions become cold but are not marked.
CooledOnly(actions) == Mark(actions, "cold")

Cooled(actions) == Mark(Mark(actions, "cold"), "compacted")

Compact(j) ==
  /\ HasWork(j, "episodes") /\ job[j].ready
  /\ LET actions == job[j].seen
         episode == [Made(j, "Observation", None, "episode") EXCEPT !.marks = {"episode"}]
     IN  Writes(j, <<episode>> \o Cooled(actions),
                NewEdges(j, "DERIVED_FROM", {episode.id}, Ids(actions)), 1)

-----------------------------------------------------------------------------
(* resolveEntities *)

\* The first of the entities that are alike takes the place of each of the others.
Merges(entities) ==
  LET alike == GroupsBy(entities, LAMBDA n : <<n.sort, n.label>>)
  IN  FlattenSeq([i \in DOMAIN alike |->
        [k \in 1 .. Len(alike[i]) - 1 |-> [canonical |-> alike[i][1], duplicate |-> alike[i][k + 1].id]]])

ListEntities(j) ==
  /\ Over(j, "episodes")
  /\ Starts(j, "entities", Merges(Marked(Of(nodes, "Entity"), "embedded")))

\* Mutant: neighbors in one direction only.
Leaving(id) == {e \in edges : e.from = id /\ e.to \in Ids(nodes)}

\* The edges of a node whose other end is stored.
Neighbors(id) ==
  {e \in edges : (e.from = id /\ e.to \in Ids(nodes)) \/ (e.to = id /\ e.from \in Ids(nodes))}

FindIncident(j) ==
  /\ HasWork(j, "entities") /\ ~ job[j].ready
  /\ Ready(j, Neighbors(Head(job[j].work).duplicate))

Repoint(e, from, to) ==
  [e EXCEPT !.from = IF @ = from THEN to ELSE @, !.to = IF @ = from THEN to ELSE @]

\* The canonical entity is written as it was listed; the duplicate goes, and with it
\* every edge it has by now.
Merge(j) ==
  /\ HasWork(j, "entities") /\ job[j].ready
  /\ LET merge == Head(job[j].work)
         into == merge.canonical
         moved == {Repoint(e, merge.duplicate, into.id) : e \in job[j].seen}
         links == {[e EXCEPT !.by = j] : e \in {d \in moved : d.from # d.to}}
     IN  /\ nodes' = Where(Put(nodes, into), LAMBDA n : n.id # merge.duplicate)
         /\ edges' = {e \in edges \cup links : ~ Incident(e, {merge.duplicate})}
         /\ Remember(j)
  /\ job' = [job EXCEPT ![j] = Rest(j)]
  /\ UNCHANGED <<pc, before, frame>>

-----------------------------------------------------------------------------
(* formConcepts *)

Near(a, b) == a.label = b.label \/ <<a.label, b.label>> \in Related

\* Each member in turn gathers the members near it that no cluster has yet.
Clusters(members) ==
  LET gathered[i \in 0 .. Len(members)] ==
        IF i = 0 THEN <<>>
        ELSE LET taken == UNION {Ids(gathered[i - 1][c]) : c \in DOMAIN gathered[i - 1]}
             IN  IF members[i].id \in taken THEN gathered[i - 1]
                 ELSE Append(gathered[i - 1], <<members[i]>> \o Where(members, LAMBDA m :
                        m.id \notin taken \cup {members[i].id} /\ Near(members[i], m)))
  IN  Where(gathered[Len(members)], LAMBDA c : Len(c) >= MinCluster)

ListMembers(j) ==
  /\ Over(j, "entities")
  /\ LET members == Where(nodes, LAMBDA n : n.type \in {"Entity", "Observation"}
                                            /\ "embedded" \in n.marks /\ "episode" \notin n.marks)
     IN  Starts(j, "concepts", Clusters(members))

FormConcept(j) ==
  /\ HasWork(j, "concepts")
  /\ LET cluster == Head(job[j].work)
         concept == [Made(j, "Concept", None, cluster[1].label) EXCEPT !.marks = {"embedded"}]
     IN  Writes(j, <<concept>>, NewEdges(j, "ABSTRACTS", {concept.id}, Ids(cluster)), 1)

-----------------------------------------------------------------------------
(* promoteSkills *)

ListTasks(j) ==
  /\ Over(j, "concepts")
  /\ Starts(j, "skills", Where(GroupsBy(Marked(Of(nodes, "Task"), "done"), LAMBDA n : n.label),
                               LAMBDA group : Len(group) >= MinSuccesses))

SkillKey(group) == <<"skill", group[1].label, None>>

FindSkill(j) ==
  /\ HasWork(j, "skills") /\ ~ job[j].ready
  /\ IF FindByNaturalKey(SkillKey(Head(job[j].work))) = None THEN Ready(j, <<>>) ELSE Skips(j)

Promote(j) ==
  /\ HasWork(j, "skills") /\ job[j].ready
  /\ LET group == Head(job[j].work)
         skill == Made(j, "Skill", SkillKey(group), group[1].label)
     IN  Writes(j, <<skill>>, NewEdges(j, "ABSTRACTS", {skill.id}, Ids(group)), 1)

-----------------------------------------------------------------------------
(* resolveContradictions *)

\* Mutant: one older preference is dealt with, and the rest are not.
OneLoser(active, winner) == SubSeq(Where(active, LAMBDA n : n.id # winner.id), 1, 1)

Losers(active, winner) == Where(active, LAMBDA n : n.id # winner.id)

Active(group) == Where(group, LAMBDA n : "superseded" \notin n.marks)

ListPreferences(j) ==
  /\ Over(j, "skills")
  /\ LET groups == GroupsBy(Of(nodes, "Preference"), LAMBDA n : n.key)
         active == [i \in DOMAIN groups |-> Active(groups[i])]
     IN  Starts(j, "contradictions", Where(active, LAMBDA group : Len(group) >= 2))

ResolveContradiction(j) ==
  /\ HasWork(j, "contradictions")
  /\ \E i \in DOMAIN Head(job[j].work) :
       LET winner == Head(job[j].work)[i]
           losers == Losers(Head(job[j].work), winner)
       IN  Writes(j, Mark(losers, "superseded"),
                  NewEdges(j, "SUPERSEDES", {winner.id}, Ids(losers)), 0)

-----------------------------------------------------------------------------
(* applyDecay *)

\* All nodes are listed; some hot ones are to be cooled, some cold ones to be purged.
ListAll(j) ==
  /\ Over(j, "contradictions")
  /\ \E decayed, expired \in SUBSET Ids(nodes) :
       /\ Cardinality(decayed \cup expired) <= MaxDecayed
       /\ \A i \in DOMAIN nodes :
            /\ nodes[i].id \in decayed => "cold" \notin nodes[i].marks
            /\ nodes[i].id \in expired => "cold" \in nodes[i].marks
       /\ job' = [job EXCEPT ![j].name = "decay",
                             ![j].work = Where(nodes, LAMBDA n : n.id \in decayed),
                             ![j].seen = expired]
  /\ UNCHANGED <<store, pc, before, frame>>

Cool(j) ==
  /\ HasWork(j, "decay")
  /\ ApplyBatch(j, Mark(job[j].work, "cold"), {})
  /\ job' = [job EXCEPT ![j].work = <<>>]
  /\ UNCHANGED <<pc, before, frame>>

\* What expired is purged, and consolidate() returns.
Purge(j) ==
  /\ Over(j, "decay")
  /\ DeleteNodes(j, job[j].seen)
  /\ job' = [job EXCEPT ![j] = NoJob]
  /\ pc' = [pc EXCEPT ![j] = "done"]
  /\ UNCHANGED <<before, frame>>

\* A call of the store rejects: what was written before stays.
JobFails(j) ==
  /\ pc[j] = "busy"
  /\ job' = [job EXCEPT ![j] = NoJob]
  /\ pc' = [pc EXCEPT ![j] = "done"]
  /\ UNCHANGED <<store, before, frame>>

-----------------------------------------------------------------------------

Consolidating(j) ==
  \/ Consolidate(j) \/ FindActions(j) \/ Compact(j)
  \/ ListEntities(j) \/ FindIncident(j) \/ Merge(j)
  \/ ListMembers(j) \/ FormConcept(j)
  \/ ListTasks(j) \/ FindSkill(j) \/ Promote(j)
  \/ ListPreferences(j) \/ ResolveContradiction(j)
  \/ ListAll(j) \/ Cool(j) \/ Purge(j) \/ JobFails(j)

InitAll == Init /\ job = [j \in Jobs |-> NoJob]

NextAll ==
  \/ Next /\ UNCHANGED job
  \/ \E j \in Jobs : Consolidating(j)

SpecAll == InitAll /\ [][NextAll]_allVars

-----------------------------------------------------------------------------
(* Properties                                                              *)

Alone(j) == \A f \in Flows : ~ Overlap(f, j)

\* While consolidations of an install are run one at a time, an action is derived
\* into one episode at most, whatever is written and forgotten meanwhile.
OneEpisodePerAction ==
  (\A j, k \in Jobs : ~ Overlap(j, k))
    => \A d, e \in edges :
         d.type = "DERIVED_FROM" /\ e.type = "DERIVED_FROM" /\ d.to = e.to => d.from = e.from

\* A merge in a consolidation that nothing overlaps loses no link: what referred to
\* the duplicate, and what it referred to, is linked with the canonical entity.  (An
\* edge may lead to a node that was forgotten while the edge was being written; such
\* an edge goes with the duplicate.)
LinksSurvive ==
  [][\A j \in Jobs : Merge(j) /\ Alone(j) =>
       LET merge == Head(job[j].work)
       IN  \A e \in edges \ edges' : {e.from, e.to} \subseteq Ids(nodes) =>
             LET d == Repoint(e, merge.duplicate, merge.canonical.id)
             IN  d.from = d.to \/ [d EXCEPT !.by = j] \in edges']_allVars

\* When a consolidation that nothing overlapped comes to its last job, no preference
\* has two values that are both in force.
OneValueInForce ==
  \A j \in Jobs : InJob(j, "decay") /\ Alone(j) =>
    \A a, b \in DOMAIN nodes :
      /\ nodes[a].type = "Preference" /\ nodes[b].type = "Preference"
      /\ nodes[a].key = nodes[b].key
      /\ "superseded" \notin nodes[a].marks \cup nodes[b].marks
      => a = b
=============================================================================
