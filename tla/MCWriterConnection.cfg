\* Three calls, one retry each, safety and liveness.
CONSTANTS
  Calls = {c1, c2, c3}
  MaxAttempts = 2
  NoCall = NoCall
SPECIFICATION FairSpec
INVARIANTS
  DryRunsLeaveNothing
  AnswersAreTrue
  NoInheritedDeadline
PROPERTY CallsEnd
