CONSTANTS
  Hooks = {h1}
  Commands = {c1}
  Dashboards = {b1}
  Slots = {s1, s2}
  MaxAttempts = 2
  MaxStalls = 1
  None = None
SPECIFICATION SceneSpec
INVARIANTS
  TypeOK
  StateTellsPublication
  
  ReviewedMeansReview
PROPERTIES
  ConclusionsStand
  CheckIsAnswered
CHECK_DEADLOCK FALSE
