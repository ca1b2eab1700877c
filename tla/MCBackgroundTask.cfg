CONSTANTS
  Values = {v1, v2}
  MaxU32 = 4
SPECIFICATION TaskSpec
SYMMETRY Symmetry
INVARIANTS
  BudgetIsKept
