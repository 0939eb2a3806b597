SPECIFICATION RerunSpec
CONSTANTS
  Edits = 3
  Runs = 2
  Plans <- OneGate
INVARIANTS PassMeansOneTreeUnlessCommitted VerdictsMean PassIsReported
CHECK_DEADLOCK FALSE
