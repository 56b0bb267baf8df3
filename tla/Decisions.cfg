SPECIFICATION Spec
CONSTANTS
  Keys = {"k"}
  Once = "once"
  Plans = {"p"}
  Weights = {2}
  Sessions = {s1, s2}
  Buyer = "buyer"
  Seller = "seller"
  MaxDecisions = 3
  MaxProposals = 2
  MaxIntents = 1
INVARIANTS DecisionsAreChain ExecutableIsCurrent DecisionRestsOnBrief ConsentIsMutual
  KeyServedOnce
SYMMETRY SessionSymmetry
CHECK_DEADLOCK FALSE
