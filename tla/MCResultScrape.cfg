CONSTANTS
  Summaries <- MCSummaries
  Reports <- MCReports
  Argc = {1, 2}
  Missing = Missing
SPECIFICATION Spec
INVARIANTS TypeOK MissRateOfItsTlb ProcessorPowerRows
\* The script ends after parse_mcpat, or at sys.exit or an exception.
CHECK_DEADLOCK FALSE
