SPECIFICATION FairSpec
CONSTANTS
  q1 = q1
  q2 = q2
  s1 = s1
  s2 = s2
  t1 = t1
  t2 = t2
  Requests = {q1, q2}
  PaymentSessions = {s1, s2}
  NoSession = NoSession
  ProviderStatuses = {"AWAITING_APPROVAL", "PENDING", "PAID", "FAILED"}
  Dispatchers = {d1}
  Slots = {t1, t2}
  NoSlot = NoSlot
  MaxPolls = 2
  MaxTries = 2
  MaxFaults = 2
INVARIANTS OrderSound ShownIsTrue
PROPERTIES EndedRunStays QueuedWorkflowEnds
CHECK_DEADLOCK FALSE
