CONSTANTS
  Clients = {c1, c2}
  Ids = {i1, i2}
  Cnpjs = {k}
  Leis = {l}
  Countries = {"BR", "US"}
  None = None
  Asked <- SparseRequests
  MaxVersion = 2
SPECIFICATION Spec
SYMMETRY Symmetry
INVARIANTS
  DuplicatesAreNamed
  VersionTellsStaleness
PROPERTY ImplementsRegister
