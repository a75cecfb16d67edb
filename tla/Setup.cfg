SPECIFICATION SetupSpec
CONSTANTS
  Actions <- MCActions
  FirstWord <- MCFirstWord
  Separator <- MCSeparator
  Words <- MCWords
  Nested <- MCNested
  Sanitized <- MCSanitized
  Misnomers <- MCMisnomers
  Projects <- MCProjects
  Exports <- MCExports
  Flags <- MCFlags
  Answers <- MCAnswers
  Decisions <- MCDecisions
  Inits <- MCInits
  Overrides <- MCOverrides
  PhaseAnswers <- MCPhaseAnswers
  MaxWork = 6
INVARIANTS SetupTypeOK AsStrictAsDocumented HighRiskIsHeld
PROPERTY OverwrittenWasSaved
CHECK_DEADLOCK FALSE
