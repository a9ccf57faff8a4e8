SPECIFICATION Spec
CONSTANTS
  Bundles <- AllBundles
CHECK_DEADLOCK FALSE
INVARIANTS
  StartReportsErrors
