CONSTANTS
  Ids = {i1, i2}
  SysId = SysId
  Recs <- MCRecs
  Has <- NameHas
  None = None
SPECIFICATION Spec
SYMMETRY IdSymmetry
INVARIANT HomogeneousCoresExact
\* The translation loop ends after the last component.
CHECK_DEADLOCK FALSE
