\* One failed run; two attempts at a time, two locks lost: an attempt overlaps the
\* one that lost its lock, and a job that lost it twice is failed.  When every job is
\* over, only the policy still changes.
CONSTANTS
  Proposals = {p1}
  Deliveries = {d1}
  Slots = {s1, s2}
  Excerpts = {x1}
  MaxAttempts = 2
  MaxStalls = 2
  None = None
SPECIFICATION FairSpec
INVARIANT TypeOK
PROPERTIES
  ImplementsRepairRecord
  Settles
