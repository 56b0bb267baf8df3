SPECIFICATION Spec
CONSTANTS
  Keys = {"k"}
  Once = "once"
  Callers <- MCCallers
  Owner = "owner"
  Sources = {"old", "new"}
  OldSource = "old"
  MaxRevisions = 3
  MaxReviews = 2
INVARIANTS PublicationSound ViewMatchesHandlers
PROPERTY FrozenUnderReview
CHECK_DEADLOCK FALSE
