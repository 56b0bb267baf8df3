SPECIFICATION FairSpec
CONSTANTS
  q1 = q1
  q2 = q2
  s1 = s1
  s2 = s2
  t1 = t1
  t2 = t2
  Requests = {q1}
  PaymentSessions = {s1}
  NoSession = NoSession
  ProviderStatuses = {"AWAITING_APPROVAL", "PAID", "FAILED"}
  Dispatchers = {d1}
  Slots = {t1, t2}
  NoSlot = NoSlot
  MaxPolls = 2
  MaxTries = 2
  MaxFaults = 0
CHECK_DEADLOCK FALSE
PROPERTIES PlacedOrderRecorded
