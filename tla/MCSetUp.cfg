SPECIFICATION Spec
CONSTANTS
  Fields <- MCFields
  Width <- MCWidth
  Kind <- MCKind
  IntBits = 3
  PointBits = 5
  FlowFields <- MCFlowFields
  PortFields = {2}
  WordBits = 3
  KeyBits = 4
  HashBits = 3
  Hash32_2 <- MCHash
  DoubleBits = 4
  Lines <- MCLines
  Text <- MCText
  Files <- MCFiles
  Packets <- MCPackets
  Shapes <- MCShapes
  TraceNums = {1, 5}
  Copies <- MCCopies
INVARIANTS
  RulesRight
  MatchFindsNode
  KeyDeterminesHash
  TracesRight
  MegaFlowsRight
PROPERTIES
  SetUpEnds
