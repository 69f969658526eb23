CONSTANTS
  C = {c1}
  Records <- CoreRecords
  SimTicks = 7
  CommitCount = 2
  None = None
  Absent = Absent
  NoComp = NoComp
SPECIFICATION Spec
SYMMETRY CSymmetry
INVARIANT CommittedSplit
\* generateCalcStats returns after writing the system record, or aborts.
CHECK_DEADLOCK FALSE
