SPECIFICATION MCSpec
CONSTANTS
  k1 = k1
  k2 = k2
  n1 = n1
  x1 = x1
  x2 = x2
  s1 = s1
  s2 = s2
  p1 = p1
  f1 = f1
  Clauses <- MCClauses
  ClauseCalls <- MCClauseCalls
  SetNames <- MCSetNames
  SetCalls <- MCSetCalls
  MaxSets = 4
  Expressions <- MCExpressions
  Contexts <- MCContexts
  Content <- MCContent
  ClauseLists <- MCClauseLists
  Compiles <- MCCompiles
  Flows <- MCFlows
  MaxCalls = 3
INVARIANTS
  TypeOK
  EnforcedWasApproved
  FlowFollowsRules
  OneActiveUnlessRaced
PROPERTIES
  RevivedOnlyByRacers
CHECK_DEADLOCK FALSE
