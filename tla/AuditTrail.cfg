SPECIFICATION Spec
CONSTANTS
  Contents = {x, y}
  Texts = {"a", "b", "c"}
  Normalized <- MCNormalized
  Tools = {"payment.send(eu)", "mail.send"}
  Sensitive = {"payment.send(eu)"}
  Surfaces = {"billing", "chat"}
  TrustPolicy <- MCTrustPolicy
  Bound = {"billing"}
  Correlations = {"k1", "k2"}
  Ids = {"d1", "d2", "d3"}
  Clauses = {"p"}
  Evidence <- MCEvidence
  RuleSets <- MCRuleSets
  MaxRecords = 3
  MaxWork = 5
  Requests <- MCRequests
INVARIANTS
  TypeOK
  VerifiedIsAPrefix
PROPERTY ReportsAreComplete
CHECK_DEADLOCK FALSE
