CONSTANTS
  Callers = {c1, c2}
  Securities = {s1, s2}
  Venues = {v1, v2, v3}
  Mics = {m}
  Listings = {l1, l2}
  Symbols = {t1, t2}
  s1 = s1
  s2 = s2
  v1 = v1
  v2 = v2
  t1 = t1
  t2 = t2
  None = None
  Drafts <- FewDrafts
SPECIFICATION Spec
SYMMETRY Symmetry
INVARIANTS
  MicSharedByRacersOnly
PROPERTIES
  ListedWhereOpenWhenLookedUp
  ClashesOnlyInBetween
