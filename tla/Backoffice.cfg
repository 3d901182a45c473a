CONSTANTS
  Calls <- MCCalls
  Users <- MCUsers
  Scenarios <- MCScenarios
  GivenPhase <- MCGivenPhase
  GivenUser <- MCGivenUser
  Submitter = "bob"
  Phases = 3
  MaxFaults = 2
  MaxCrashes = 1
  Withdrawn = "c3"
  Files = 2
  maxRetries = 1
SPECIFICATION BackofficeSpec
INVARIANTS BackofficeTypeOK OrderIsComplete NextPhaseWithApproval  ApprovedIsPaid 
PROPERTIES EveryCallEnds KeepsPromise
CHECK_DEADLOCK FALSE
