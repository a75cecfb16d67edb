SPECIFICATION AuthorSpec
CONSTANTS
  drop = drop
  read = read
  restart = restart
  admin = admin
  ActionTypes <- MCActionTypes
  Undotted = {restart}
  KNOWN_TOOLS <- MCKnownTools
  Texts <- MCTexts
  Documents <- MCDocuments
  Rewrites <- MCRewrites
  AuthorRoles = {admin}
  MaxSessions = 2
INVARIANTS AuthorTypeOK ApprovalsAsk
CHECK_DEADLOCK FALSE
