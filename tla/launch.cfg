SPECIFICATION FairSpec
CONSTANTS
  Bundles <- AllBundles
CHECK_DEADLOCK FALSE
INVARIANTS
  ReadyMeansPivoted
  MountsStayInside
  ClonedMeansValid
  IsolationAsListed
  SegvExactlyOnHole
  WaitsForSetupOnly
PROPERTIES
  LaunchReturns
  LaunchAdvances
  RefinesRuntime
