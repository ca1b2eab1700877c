CONSTANTS
  Ids = {1, 2, 3}
  Securities = {s1}
  Protocols = {1, 2}
  ClientProtocol = 1
  Asked <- FewCommands
  Limits = {0, 1, 3}
  DefaultLimit = 1
  MaxLimit = 2
SPECIFICATION Spec
INVARIANTS
  OutcomesTellTheEffect
  StayersListedOnce
PROPERTIES
  EagerReadsAreTrue
