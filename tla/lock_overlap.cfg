SPECIFICATION Spec
CONSTANTS
  Proc = {p1, p2, p3}
  Prompt = TRUE
  SerialRecovery = FALSE
  PidReuse = FALSE
  Litter = FALSE
SYMMETRY Symmetry
CHECK_DEADLOCK FALSE
INVARIANTS MutualExclusion
