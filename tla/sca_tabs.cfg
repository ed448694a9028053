\* Two tabs share the cache key; everything around them happens.
CONSTANTS
  Tab = {tab1, tab2}
  Flow = {f1, f2, f3}
  Hash = {h1, h2, h3}
  ConnId = {i1, i2}
  None = None
  Env <- Everything
SPECIFICATION Spec
SYMMETRY Interchangeable
INVARIANTS TypeOK HashMatchesCredentials EndedIsForgotten AnswerMatchesChallenge
PROPERTY ConnectionIdKept
CHECK_DEADLOCK FALSE
