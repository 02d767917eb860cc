----------------------------- MODULE MCAgentGraph -----------------------------
(* Small instances of AgentGraph for TLC. *)
EXTENDS AgentGraph

CONSTANTS u1, u2, bad, none

MCUrls == {u1, u2, bad}
Box == [selector |-> "#q", role |-> "textbox"]
Button == [selector |-> "#buy", role |-> "button"]

\* A page with everything the plan needs, and one without a button, where the
\* fallback selector is infeasible.
MCElementSets == {{Box, Button}, {Box}}

Wants(url, search, form, buy, read, risky) ==
  [url |-> url, search |-> search, form |-> form, buy |-> buy,
   read |-> read, risky |-> risky]

\* Search for something risky and read the results; go to a page, fill in its form
\* and buy; go to a blocked page; nothing recognised.
MCIntents ==
  {Wants(none, TRUE, FALSE, FALSE, TRUE, TRUE),
   Wants(u2, FALSE, TRUE, TRUE, FALSE, FALSE),
   Wants(bad, FALSE, FALSE, FALSE, FALSE, FALSE),
   Wants(none, FALSE, FALSE, FALSE, FALSE, FALSE)}

Limits(steps, tools, cost) ==
  [maxSteps |-> steps, maxToolCalls |-> tools, maxCostMicros |-> cost]

\* Ample, and one budget tight in each dimension.
MCBudgets ==
  {Limits(12, 24, 5000000), Limits(3, 24, 5000000),
   Limits(12, 1, 5000000), Limits(12, 24, 2000)}

=============================================================================
