CONSTANTS
  C = {c1, c2}
  Records <- CacheRecords
  SimTicks = 7
  CommitCount = 2
  None = None
  Absent = Absent
  NoComp = NoComp
SPECIFICATION Spec
SYMMETRY CSymmetry
INVARIANT CacheConfigOwnKind
\* generateCalcStats returns after writing the system record, or aborts.
CHECK_DEADLOCK FALSE
