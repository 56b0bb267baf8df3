SPECIFICATION FairSpec
CONSTANTS
  Actors = {"ann"}
  RequiredRoles <- OneRole
  RolesOf <- EveryRole
  MaxSessions = 1
  Dispatchers = {"d1"}
  Slots = {t1, t2}
  NoSlot = NoSlot
  MaxRounds = 2
  MaxTries = 2
  MaxFailTries = 2
  ProviderFaults = {"exception", "uncertain", "report_lost", "mismatch", "order_id", "error", "receipt"}
  Observations = {"VERIFIED", "PARTIAL", "FAILED_RETRYABLE", "FAILED_FINAL"}
  MaxFaults = 1
INVARIANTS AtMostOneCharge LedgerTrue OutcomeTrue
PROPERTIES ImplementsLifecycle CheckoutEnds
CHECK_DEADLOCK FALSE
