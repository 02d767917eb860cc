-------------------------------- MODULE Executor --------------------------------
(***************************************************************************)
(* What the background promises of the actions it is asked for             *)
(* (processActionQueue in packages/extension/src/background/orchestrator.ts): *)
(* they wait in one line, in the order in which they were accepted; one at *)
(* a time is sent to the page, once, when nobody waits in front of it and  *)
(* the one before has been answered; an answer is final, "ok" is given     *)
(* only to what the page has handled, and a refusal only to what it never  *)
(* will.                                                                   *)
(*                                                                         *)
(* There are no keys, clocks, maps or flags here: ActionDispatch has those, *)
(* and is shown to implement this.  The line is not a sequence but the     *)
(* relation of who waits ahead of whom.                                    *)
(***************************************************************************)
EXTENDS Naturals

CONSTANT Actions   \* the actions that may be asked for

VARIABLES
  stage,   \* of each action: "new", "asked", "waiting", "sent", or how it was answered
  ahead,   \* <<x, y>>: both wait, and x is ahead of y
  way,     \* actions on their way to the page
  seen     \* times the page has handled each action

vars == <<stage, ahead, way, seen>>

In(st) == {x \in Actions : stage[x] = st}

Init ==
  /\ stage = [x \in Actions |-> "new"]
  /\ ahead = {} /\ way = {}
  /\ seen = [x \in Actions |-> 0]

\* Those of new join the line behind all others, and some leave it.  Who is sent has
\* nobody left ahead, and is the only one.
LineMoves(new) ==
  LET line == ahead \cup (In("waiting") \X new)
      sent == {x \in Actions : stage'[x] = "sent"}
  IN  /\ ahead' = {p \in line : stage'[p[1]] = "waiting" /\ stage'[p[2]] = "waiting"}
      /\ \A x, y \in sent : x = y
      /\ \A p \in line : p[2] \in sent => stage'[p[1]] \in {"refused", "failed"}
      /\ way' = way \cup (sent \ In("sent"))
      /\ UNCHANGED seen

\* All but those in some are as they were, or leave the line for one of the stages in out.
Others(some, out) ==
  /\ stage' \in [Actions -> {"new", "asked", "waiting", "sent", "ok", "refused", "failed", "lost"}]
  /\ \A y \in Actions \ some : stage'[y] # stage[y] => stage[y] = "waiting" /\ stage'[y] \in out

\* An action is asked for; it may be refused at once.
Ask(x) ==
  /\ stage[x] = "new" /\ stage'[x] \in {"asked", "refused"}
  /\ Others({x}, {"refused", "failed"}) /\ LineMoves({})

\* It is let into the line, and sent if its turn has come, or refused.
Accept(x) ==
  /\ stage[x] = "asked" /\ stage'[x] \in {"waiting", "sent", "refused"}
  /\ Others({x}, {"sent", "refused", "failed"}) /\ LineMoves({x})

\* Some leave the line.
Leave ==
  /\ Others({}, {"refused", "failed"}) /\ LineMoves({})

\* The page has the message, and handles it.
Reach(x) ==
  /\ x \in way /\ way' = way \ {x}
  /\ seen' = [seen EXCEPT ![x] = @ + 1]
  /\ UNCHANGED <<stage, ahead>>

\* The message is lost.
Lose(x) ==
  /\ x \in way /\ way' = way \ {x}
  /\ UNCHANGED <<stage, ahead, seen>>

\* What became of the message is known: the action is answered, and the next may be sent.
Answer(x) ==
  /\ stage[x] = "sent" /\ x \notin way
  /\ stage'[x] = "failed" \/ (stage'[x] = "ok" /\ seen[x] = 1)
  /\ Others({x}, {"sent", "refused", "failed"}) /\ LineMoves({})

\* Whoever asked and was not answered is told that the answer is lost, and messages may be.
Restart ==
  /\ stage' = [x \in Actions |-> IF stage[x] \in {"asked", "waiting", "sent"} THEN "lost" ELSE stage[x]]
  /\ ahead' = {} /\ way' \subseteq way
  /\ UNCHANGED seen

Next ==
  \/ \E x \in Actions : Ask(x) \/ Accept(x) \/ Reach(x) \/ Lose(x) \/ Answer(x)
  \/ Leave \/ Restart

Spec == Init /\ [][Next]_vars

=============================================================================
