SPECIFICATION FairSession
CONSTANTS
  Fields <- MCFields
  Width <- MCWidth
  KeyBits = 3
  Rules <- MCRules
  Prio <- MCPrio
  Lo <- MCLo
  Hi <- MCHi
  PrefixLen <- MCPrefixLen
  Packets <- MCPackets
  Shapes <- MCShapes
  Collide = 1
  InitTuples = 1
  MaxTuples = 6
  Careless = FALSE
  MaxDrift = 0
  FixedLen <- MCFixedLen
  ImportantNum = 1
  ObsTuples = 2
  MaxEpTuples = 4
  MaxDrops = 2
  MaxSteps = 4
  MaxPairs = 1
INVARIANTS
  SessionSound
PROPERTIES
  EpisodeEnds
