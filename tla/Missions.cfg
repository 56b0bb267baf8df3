SPECIFICATION Spec
CONSTANTS
  Requests = {"r1", "r2"}
  Missions = {"m1", "m2"}
  Sends <- MCSends
  Scenarios <- MCScenarios
  Outputs <- MCOutputs
  Discoveries <- MCDiscoveries
  Domain <- MCDomain
  Published = {"pub"}
  Refs = {"pub", "pub2", "acme1", "acme2", "zen", "plan", "found", "page", "datahub", "req"}
  Citations <- MCCitations
  Budget = 2
  MaxRestarts = 1
  Decisions = {"req"}
  Origin <- MCOrigin
INVARIANTS HistorySound VerifiedIsRecorded OneListingPerDomain
PROPERTY CallsEnd
CHECK_DEADLOCK FALSE
