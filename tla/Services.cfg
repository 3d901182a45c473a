CONSTANTS
  Requesters = {"r1", "r2", "r3"}
  MaxFailures = 1
  Rules = {1, 2}
  Scenarios <- MCScenarios
  FazoCalls = {f1, f2}
  MaxTokens = 3
  Tickets = {p1, p2}
  Balances = {10, 11}
  NaN = NaN
  NoRecord = NoRecord
  Configured <- MCConfigured
  Equities = {10, 11}
  LastTick = 2
  Servers = {"server"}
  Workloads <- MCWorkloads
  MaxStops = 1
SPECIFICATION ServicesSpec
INVARIANTS
  FazoTypeOK OneAccountPerCall RefusedOnlyIfRevoked
  LastActivationShows AdminsWereFirst ResetTokenIsSpent AnsweredSticks
  NamedTwiceByOverlap SubmissionReplaces ChainIsWhole
  MirrorIsExact InactiveDaysIsLongestRun
  EnsuredOnce ReferencesHold EndIsComplete

   
CHECK_DEADLOCK FALSE
