SPECIFICATION Spec
CONSTANTS
  c1 = c1
  c2 = c2
  Calls <- MCCalls
  Configurations <- MCConfigurations
INVARIANT
  SafeBlockRouteNeverCompletes
CHECK_DEADLOCK FALSE
