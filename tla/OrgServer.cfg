SPECIFICATION Spec
CONSTANTS
  None = none
  Bearer = bearer
  Self = "{self}"
  Brains <- MCBrains
  Templated = {"{agent}"}
  Roles <- MCRoles
  Agents <- MCAgents
  Tenants = {"own", "other"}
  Actions <- MCActions
  Registries <- MCRegistries
  Policies <- MCPolicies
  ServerTenant = "own"
  PackRules <- MCPackRules
  DenyUnknown = TRUE
  SingleToken = TRUE
  Provisions = {p1, p2}
  MaxEdits = 1
  MaxStarts = 1
  MaxLog = 1
INVARIANTS
  TypeOK
  LogIsTheHolders
  ReadsStayInTenant
  ProvisionRotates
  MountsAreVerified
CHECK_DEADLOCK FALSE
