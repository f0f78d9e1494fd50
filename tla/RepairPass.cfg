\* One failed run, one retry: a pass reaches the recording transaction.
CONSTANTS
  Proposals = {p1}
  Deliveries = {d1}
  Slots = {s1, s2}
  Excerpts = {x1}
  MaxAttempts = 2
  MaxStalls = 0
  None = None
SPECIFICATION Spec
INVARIANT PassIsVerified
