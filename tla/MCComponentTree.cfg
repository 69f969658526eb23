CONSTANTS
  Root <- MCRoot
  Skipped = "pim_system"
  Ghost = "ghost"
  None = None
  IdSets <- MCIdSets
  KeySets <- MCKeySets
SPECIFICATION Spec
INVARIANT TypeOK
PROPERTY TreeBuilderRefinesSpec
\* createComponentTree returns once every key is attached, or panics.
CHECK_DEADLOCK FALSE
