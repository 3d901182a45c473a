CONSTANTS
  Calls <- MCCalls
  Users <- MCUsers
  Scenarios <- MCScenarios
  GivenPhase <- MCGivenPhase
  GivenUser <- MCGivenUser
  Submitter = "bob"
  Phases = 3
  MaxFaults = 1
  MaxCrashes = 1
  Withdrawn = "c3"
  Files = 2
  maxRetries = 1
SPECIFICATION BackofficeSpec
INVARIANT ApprovedLeavesBuffer
CHECK_DEADLOCK FALSE
