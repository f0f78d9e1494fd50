\* One job, two operators and the sweep share rows and one of them may die, or
\* two jobs race with one operator for a dedup key or for a patch, or a recorder
\* meets one operator and the sweep.  A state where every call is over and
\* nothing is left to sweep is an end.
CONSTANTS
  Workers = {w1, w2, w3}
  Recorders = {w3}
  Operators = {o1, o2}
  Sweeper = sweeper
  Keys = {k1, k2}
  PatchKeys = {k2}
  MaxRetries = 1
  MaxDeaths = 1
  None = None
  SecondJob = w2
  SecondOperator = o2
SPECIFICATION MCSpec
INVARIANTS
  TypeOK
  QuietCancelIsFinal
  StatusTellsEffect
  RetryBudget
  ActiveKeyUnique
PROPERTY StaleActionsSettle
CHECK_DEADLOCK FALSE
