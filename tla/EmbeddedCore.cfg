SPECIFICATION Spec
CONSTANTS
  Cores = {k1, k2}
  Rules <- MCRules
  Packs <- MCPacks
  ToolLists <- MCToolLists
  Deleting = {"delete_file"}
  Admin = {"admin_user"}
  Contexts <- MCContexts
  Storages = {TRUE}
  Ids = {id1}
  MaxCalls = 2
INVARIANTS
  DeniedByItsPack
  LogBearsOutCache
SYMMETRY MCSymmetry
CHECK_DEADLOCK FALSE
