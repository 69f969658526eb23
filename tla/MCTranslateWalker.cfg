CONSTANTS
  Ids = {i1, i2}
  SysId = SysId
  Recs <- WalkerRecs
  Has <- NameHas
  None = None
SPECIFICATION Spec
SYMMETRY IdSymmetry
INVARIANT SelectionByCategory
\* The translation loop ends after the last component.
CHECK_DEADLOCK FALSE
