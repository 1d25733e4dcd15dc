SPECIFICATION Spec
INVARIANTS
  ClaimsAreEarned
  NothingIsMiscounted
  ToldOnce
PROPERTIES
  NeverStepsBack
  ShownFollows
CHECK_DEADLOCK FALSE
