SPECIFICATION SwapSpec
CONSTANTS
  Draws = {j1, j2}
  Permits = 1
  MaxHangs = 2
SYMMETRY Alike
INVARIANTS
  NotStranded
  CardIsFree
PROPERTY
  HangsNeedCompany
