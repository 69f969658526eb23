CONSTANTS
  Names <- MCNames
  Begin = Begin
  Vals = {"5", "7", "-1"}
  Attr <- MCAttr
  ValWord <- MCValWord
  SysKey <- MCSysKey
  MaxLines = 4
SPECIFICATION Spec
INVARIANT LastDumpOnly
\* The script goes on to createComponentTree after the last line.
CHECK_DEADLOCK FALSE
