SPECIFICATION FairSpec
CONSTANTS
  Actors = {"ann"}
  RequiredRoles <- OneRole
  RolesOf <- EveryRole
  MaxSessions = 1
  Dispatchers = {"d1"}
  Slots = {t1}
  NoSlot = NoSlot
  MaxRounds = 1
  MaxTries = 1
  MaxFailTries = 1
  ProviderFaults = {"exception"}
  Observations = {"VERIFIED"}
  MaxFaults = 0
PROPERTY
  ProviderFailureReconciles
CHECK_DEADLOCK FALSE
