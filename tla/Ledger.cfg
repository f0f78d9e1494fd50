\* Two calls create over two identities, principals and hashes, or three calls
\* move one command.
CONSTANTS
  Creators = {c1, c2}
  Movers = {m1, m2, m3}
  Idents = {i1, i2}
  Principals = {p1, p2}
  Hashes = {h1, h2}
  Wanted = {"claimed", "cancelled"}
  MaxVersion = 2
  Nobody = Nobody
  First = c1
SPECIFICATION MCSpec
INVARIANTS
  TypeOK
  OneCommandPerIdentity
  IntentIsWhole
  AnswersAgreeWithLedger
  JournalIsChain
  TransitionAnswersAgree
PROPERTIES
  ImplementsCommandLedger
  CallsReturn
