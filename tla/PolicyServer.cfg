SPECIFICATION Spec
CONSTANTS
  Names <- MCNames
  Body <- MCBody
  Contexts <- MCContexts
  Commands = {c1, c2}
  Operations <- MCOperations
  FirstPacks <- MCFirstPacks
  Edits <- MCEdits
  DenyUnknown = FALSE
  Owned = TRUE
  MaxEdits = 1
  MaxStarts = 1
INVARIANTS
  AllowedByPackLoaded
  BackedUp
PROPERTIES
  KeepsRules
  CatchesUp
CHECK_DEADLOCK FALSE
