\* Two plans are opened, decided and promoted by two requests at a time.
CONSTANTS
  Slots = {s1, s2}
  Principals = {a, b, c}
  Plans = {p1, p2}
  Evidence = {"valid", "invalid"}
  PoolSize = 2
  MaxLost = 0
  Legacy = Legacy
  None = None
SPECIFICATION Spec
INVARIANTS
  SeparationOfDuties
  DecidedOnWhatIsShown
  MaterializationMatches
PROPERTY ImplementsPolicyRegister
SYMMETRY Symmetry
