SPECIFICATION Spec
CONSTANTS
  Fields <- MCFields
  Width <- MCWidth
  Rules <- MCRules
  Prio <- MCPrio
  Lo <- MCLo
  Hi <- MCHi
  PrefixLen <- MCPrefixLen
  Packets <- MCPackets
  Hash <- MCHash
  Loaded <- MCLoaded
  collideLimit = 1
  deltaThreshold = 2
  Quarter = 2
  IntBits = 3
INVARIANTS
  TuplesSound
  TablesSound
  TreesSound
PROPERTIES
  ClassifierSpec
