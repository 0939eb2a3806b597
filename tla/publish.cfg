SPECIFICATION MixedSpec
CONSTANTS
  a = a
  b = b
  Job = {a, b}
  Conclusion = {success, failure}
  success = success
  failure = failure
  Attempts <- TwoAndOne
  PageSize = 2
  MaxPages = 2
  Others = 3
INVARIANTS OneCheckPerIdentity PublishedShowsVerdict ObserversLeaveNoCheck
PROPERTIES IdentitiesStable AttemptsEnd
CHECK_DEADLOCK FALSE
