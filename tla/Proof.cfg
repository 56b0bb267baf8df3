SPECIFICATION MCSpec
CONSTANTS
  x = x
  d = d
  e = e
  Causal <- MCCausal
  Deploy <- MCDeploy
  MaxDrift = 1
INVARIANTS ProofsRestore DocumentsAreTrue
PROPERTY ProofsEnd
CHECK_DEADLOCK FALSE
