\* One plan, two requests at a time that may take every connection; an
\* assignment or the approval comes to an end.
CONSTANTS
  Slots = {s1, s2}
  Principals = {a, b, c}
  Plans = {p1}
  Evidence = {"valid"}
  PoolSize = 2
  MaxLost = 1
  Legacy = Legacy
  None = None
SPECIFICATION FairSpec
INVARIANT TypeOK
PROPERTIES
  PromotedUnderAuthority
  RequestsReturn
