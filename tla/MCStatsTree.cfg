CONSTANTS
  Names <- MCNames
  Begin = Begin
  Vals = {"5", "7", "-1"}
  Attr <- MCAttr
  ValWord <- MCValWord
  SysKey <- MCSysKey
  MaxLines = 3
  Root <- MCRoot
  Skipped = "pim_system"
  Ghost = "ghost"
  None = None
  IdSets <- MCIdSets
  Split <- MCSplit
SPECIFICATION Spec
INVARIANTS TypeOK StatTableExact SummaryHoldsEveryStat
PROPERTY StatsTreeRefinesSpec
\* run returns after summary.xml, or panics.
CHECK_DEADLOCK FALSE
