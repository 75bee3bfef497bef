\* Every graph over four nodes whose pairs are unrelated, or related weakly or strongly.
SPECIFICATION Spec
CONSTANTS
  Size = 4
  Node <- MCNode
  Memories <- MCMemories
  Budgets <- MCBudgets
CHECK_DEADLOCK FALSE
INVARIANTS
  RecallTypeOK
  NearestAndStrongestFirst
  NothingBetterLeftOut
PROPERTIES
  WalkEnds
  WalkDescends
