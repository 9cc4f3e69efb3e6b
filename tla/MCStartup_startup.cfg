CONSTANTS
  RetryCount = 1
  Newcomers <- TwoNewcomers
  MaxProjects = 6
  MaxFaults = 4
SPECIFICATION Spec
CHECK_DEADLOCK FALSE
INVARIANTS
  TypeOK
  DemoRowsMeetTheirProjects
  ServesPrepared
PROPERTIES
  ServiceReturns
