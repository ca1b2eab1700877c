CONSTANTS
  Callers = {c1, c2}
  Ids = {s1, s2, s3}
  Issuers = {i1}
  Isins = {x}
  None = None
  Snapshots <- FewSnapshots
  MaxVersion = 2
SPECIFICATION Spec
SYMMETRY Symmetry
INVARIANTS
  NoReceiptCycle
  ReferencesResolve
  IsinNamesOneSecurity
PROPERTIES
  WriteOutcomesAreTrue
