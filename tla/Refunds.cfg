SPECIFICATION FairSpec
CONSTANTS
  Amount = 2
  MaxReversals = 2
  Dispatchers = {d1}
  t1 = t1
  t2 = t2
  Slots = {t1, t2}
  NoSlot = NoSlot
  MaxRounds = 2
  MaxTries = 2
  MaxFaults = 1
INVARIANTS RefundsWithinPayment OneRefundPerReversal LedgerMatchesMerchant RefundRowsAgree
PROPERTIES SettledReversalStays RefundWorkflowEnds
CHECK_DEADLOCK FALSE
