SPECIFICATION Spec
CONSTANTS
  Environments <- MCEnvironments
  IntervalTicks <- MCInterval
  TimeoutTicks <- MCTimeout
CHECK_DEADLOCK FALSE
INVARIANTS
  AcceptedConfigurationStarts
  SettingsTakeEffect
  ReachableStaysReady
  OutageIsNoticed
PROPERTY ReadinessReturns
