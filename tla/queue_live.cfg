SPECIFICATION FairSpec
CONSTANTS
  Run = {r1, r2, r3, r4}
  Revision = {x}
  EventName = {push, dispatch}
CHECK_DEADLOCK FALSE
PROPERTIES GroupIsEvaluated
