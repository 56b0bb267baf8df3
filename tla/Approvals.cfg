SPECIFICATION Spec
CONSTANTS
  Actors = {"ann", "cy"}
  RequiredRoles <- TwoRoles
  RolesOf <- TwoPeople
  MaxSessions = 2
  Dispatchers = {"d1"}
  Slots = {t1, t2}
  NoSlot = NoSlot
  MaxRounds = 2
  MaxTries = 2
  MaxFailTries = 1
  ProviderFaults = {"report_lost", "error"}
  Observations = {"VERIFIED"}
  MaxFaults = 1
INVARIANTS FourEyes RecordsAgree RevokedNeverCharged
PROPERTY NoDispatchAfterSupersede
CHECK_DEADLOCK FALSE
