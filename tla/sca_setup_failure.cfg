\* One tab; finAPI refuses the session.
CONSTANTS
  Tab = {tab1}
  Flow = {f1}
  Hash = {h1}
  ConnId = {i1}
  None = None
  Env <- RefusedLogin
SPECIFICATION Spec
INVARIANT DroppedWhenFlowEnds
CHECK_DEADLOCK FALSE
