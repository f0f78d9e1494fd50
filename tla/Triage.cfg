\* Two jobs of one target, under one key or two, one of which can be cleared by
\* hand; with one key, a process may die or an operator may retry once.  A state
\* where every job is over and every lease expired is an end.
CONSTANTS
  Jobs = {j1, j2}
  Keys = {opened, manual}
  ManualKeys = {manual}
  MaxAttempts = 2
  MaxCrashes = 1
  MaxRequeues = 1
  None = None
SPECIFICATION MCSpec
INVARIANTS
  TypeOK
  
  
PROPERTIES
  
  TriageIsAnswered
CHECK_DEADLOCK FALSE
