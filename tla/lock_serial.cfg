SPECIFICATION Spec
CONSTANTS
  Proc = {p1, p2, p3}
  Prompt = TRUE
  SerialRecovery = TRUE
  PidReuse = TRUE
  Litter = TRUE
INVARIANTS MutualExclusion OwnerNamesHolder SuccessMeansCurrent NoLeakWithoutInterference
PROPERTIES ImplementsReconciliation
