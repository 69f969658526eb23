CONSTANTS
  Ids <- MCIds
  Root = "root"
  Rec <- MCRec
  Kids <- MCKids
  Optional <- MCOptional
  Has <- NameHas
  Rank <- NameRank
  None = None
  StrReplace <- MCStrReplace
SPECIFICATION Spec
INVARIANTS TypeOK EmittedOnce SystemChildrenInMcPATOrder OutputIdsUnique
\* genPowerXml is the last step of the script.
CHECK_DEADLOCK FALSE
