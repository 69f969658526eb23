CONSTANTS
  Ids = {sys, cpu}
  Keys = {type}
  MaxLines = 6
  None = None
SPECIFICATION Spec
SYMMETRY IdSymmetry
INVARIANTS TypeOK SectionedParseExact
\* The script ends after the last line of the file.
CHECK_DEADLOCK FALSE
