SPECIFICATION Spec
CONSTANTS
  Lines <- MCLines
  EnvironmentsFor <- MCEnvironmentsFor
  WaitStatuses <- MCWaitStatuses
CHECK_DEADLOCK FALSE
INVARIANTS
  JobsAsMeant
  OutputObeysSettings
  StatusTruth
