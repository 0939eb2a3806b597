SPECIFICATION FairSpec
CONSTANTS
  Proc = {p1, p2, p3}
  Prompt = TRUE
  SerialRecovery = FALSE
  PidReuse = FALSE
  Litter = FALSE
CHECK_DEADLOCK FALSE
PROPERTIES InvocationsEnd LeakRecovered
