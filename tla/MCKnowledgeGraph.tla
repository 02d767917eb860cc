--------------------------- MODULE MCKnowledgeGraph ---------------------------
(* Small instances of KnowledgeGraph for TLC. *)
EXTENDS KnowledgeGraph

Event(kind, of, label, domain, entities) ==
  [kind |-> kind, session |-> "s", of |-> of, label |-> label, domain |-> domain, entities |-> entities,
   done |-> FALSE]

Started == Event("session_started", None, "s", None, <<>>)

\* The gate leaves the same label of every e-mail address.
Ann == [name |-> "ann", sort |-> "Account", label |-> "redacted"]
Bob == [name |-> "bob", sort |-> "Account", label |-> "redacted"]
Pen == [name |-> "pen", sort |-> "Product", label |-> "pen"]
Pencil == [name |-> "pencil", sort |-> "Product", label |-> "pencil"]
Close == {<<"pen", "pencil">>, <<"pencil", "pen">>}

Page(entities) == Event("page_visited", None, "url", "shop", entities)

Planned == Event("task_planned", "t", "t", None, <<>>)

\* What the memory node of the agent graph sends after a task; a page with an
\* entity named twice; preferences; a task before and after it is done.
Given ==
  {<<Started, Event("intent_captured", "i", "i", None, <<Ann>>), Page(<<>>)>>,
   <<Started, Page(<<Pen>>), Page(<<Pen>>)>>,
   <<Page(<<Pencil, Bob, Ann>>)>>,
   <<Event("preference", "theme", "light", None, <<>>), Event("preference", "theme", "dark", None, <<>>)>>,
   <<Planned, Event("action_taken", None, "a", None, <<>>), [Planned EXCEPT !.done = TRUE]>>}

AllNames ==
  {"s", "url", "ann", "bob", "pen", "pencil", "Account", "Product", "redacted", "shop",
   "i", "t", "a", "theme", "light", "dark"}

Interchangeable == Permutations(Writers) \cup Permutations(Forgets)
=============================================================================
