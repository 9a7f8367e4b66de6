SPECIFICATION Spec
CONSTANTS
  Keys <- MCKeys
  MapNodes <- MCMapNodes
  HashOf <- MCHashOf
  Bases = {1, 2}
  Rehash <- MCRehash
  HalfBits = 3
  K = 2
  MaxDepth = 4
  Rules <- MCRules
  Prio <- MCPrio
  Exact <- MCExact
  Packets <- MCPackets
  Matches <- MCMatches
  Up = 7
  Down = 3
INVARIANTS
  LevelSound
  MapSound
  NodeSound
PROPERTIES
  CallReturns
  NodeSpec
