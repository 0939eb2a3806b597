SPECIFICATION EvaluationSpec
CONSTANT Trees <- MCTrees
INVARIANTS GreenMeansVerified GreenMeansGatePassed RefusalKeepsEvidence EnforcementNotSkipped ClaimsDoNotDowngrade AcceptedMeansVerified
PROPERTIES ImplementsAdmission
CHECK_DEADLOCK FALSE
