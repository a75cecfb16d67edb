SPECIFICATION ObserveSpec
CONSTANTS
  Missing = Missing
  Broken = Broken
  Calls = {c1, c2}
  Requests <- MCRequests
  ConfigEdits <- MCConfigEdits
  PackEdits <- MCPackEdits
  RegistryEdits = {}
  FirstConfigs <- MCFirstConfigs
  FirstNamed <- MCNamed
  FirstPack <- MCPack
  FirstRegistry <- MCRegistry
  ReadStyle = {"read_file"}
  Frequent = 2
  ReportLimit = 2
  MaxEdits = 1
  MaxLog = 3
INVARIANTS
  ObserveTypeOK
  PromotedForGood
  ReportsCoverCalls
CHECK_DEADLOCK FALSE
SYMMETRY MCSymmetry
