SPECIFICATION FairSpec
CONSTANTS
  u1 = u1
  u2 = u2
  bad = bad
  none = none
  Urls <- MCUrls
  BlockedUrls = {bad}
  NoUrl = none
  Destructive = {}
  ElementSets <- MCElementSets
  Intents <- MCIntents
  Budgets <- MCBudgets
  CallCost = 1500
  MaxAttempts = 2
  MaxRuns = 2
  MaxFaults = 1
CHECK_DEADLOCK FALSE
INVARIANTS
  TypeOK
  BudgetCaps
  OnlyVerifiedEffects
PROPERTIES
  QuorumBeforeAct
  NeverActsOnBlocked
  InPlanOrder
  EveryRunEnds
