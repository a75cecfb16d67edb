SPECIFICATION Spec
CONSTANTS
  r1 = r1
  a1 = a1
  a2 = a2
  ceo = ceo
  clerk = clerk
  Requests <- MCRequests
  Attempts <- MCAttempts
  Agents <- MCAgents
  CEOs <- MCCEOs
  Submissions <- MCSubmissions
  Deadlines <- MCDeadlines
  MaxTime = 2
  MaxRestarts = 1
INVARIANTS
  TypeOK
  SeparationOfDuties
PROPERTIES
  OverwrittenOnlyByRacers
CHECK_DEADLOCK FALSE
