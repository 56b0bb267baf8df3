SPECIFICATION Spec
CONSTANTS
  Inputs <- MCInputs
  Limit = 3
INVARIANTS PlansAreSound RankIsRobust CounterfactualIsMinimal RowsAreTrue
CHECK_DEADLOCK FALSE
