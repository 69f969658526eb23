CONSTANTS
  C = {c1, c2, c3}
  Records <- AllRecords
  SimTicks = 7
  CommitCount = 2
  None = None
  Absent = Absent
  NoComp = NoComp
SPECIFICATION Spec
SYMMETRY CSymmetry
INVARIANT SynthesizedIdsUnique
\* generateCalcStats returns after writing the system record, or aborts.
CHECK_DEADLOCK FALSE
