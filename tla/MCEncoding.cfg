CONSTANTS
  Finest = 2
  Coarsest = 15
  Radius = 4
  MaxLevel = 7
  Lasts <- MCLasts
  Pictures <- MCPictures
  LastSubblock = 2
  Vectors = {0, 1}
  Columns = 2
  Rows = 2
  Margin = 36
  DisplayWidth = 29
  DisplayHeight = 26
  Picture <- MCPicture
  FirstStep = 8
  Farthest = 15
  Bases <- MCBases
  InterBlocks <- MCInterBlocks
  ResidueBlocks <- MCResidueBlocks
  ResidueWholes <- MCResidueWholes
  EdgeLines <- MCEdgeLines
SPECIFICATION Spec
CHECK_DEADLOCK FALSE
INVARIANTS PathsAgree PredictsFromThePast ResidueIsRestored FilterSmooths SearchIsSafe
  ResidueIsOfThePrediction SearchesEndRight

PROPERTIES SearchEnds
