SPECIFICATION FairSpec
CONSTANTS
  c1 = c1
  c2 = c2
  pr = pr
  pa = pa
  pb = pb
  Calls <- MCCalls
  Profiles <- MCProfiles
  Purposes <- MCPurposes
  Surfaces <- MCSurfaces
  Gateways <- MCGateways
INVARIANTS
  TypeOK
  PolicyRespected
  AuditAccounts
PROPERTIES
  CallsSettle
CHECK_DEADLOCK FALSE
