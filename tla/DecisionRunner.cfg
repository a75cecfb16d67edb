SPECIFICATION FairSpec
CONSTANTS
  c1 = c1
  c2 = c2
  Calls <- MCCalls
  Configurations <- MCConfigurations
INVARIANTS
  TypeOK
  ExecutionCleared
  EvidenceExplainsVerdict
PROPERTIES
  CallsSettle
  ImplementsGate
CHECK_DEADLOCK FALSE
