\* A cancelled action comes back: the job's UPDATE follows the operator's.
CONSTANTS
  Workers = {w1}
  Recorders = {}
  Operators = {o1}
  Sweeper = sweeper
  Keys = {k1}
  PatchKeys = {}
  MaxRetries = 1
  MaxDeaths = 0
  None = None
SPECIFICATION Spec
PROPERTY CancelledIsFinal
CHECK_DEADLOCK FALSE
