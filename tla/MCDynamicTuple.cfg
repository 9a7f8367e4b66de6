SPECIFICATION Spec
CONSTANTS
  Fields <- MCFields
  Width <- MCWidth
  KeyBits = 4
  Rules <- MCRules
  Prio <- MCPrio
  Lo <- MCLo
  Hi <- MCHi
  PrefixLen <- MCPrefixLen
  Packets <- MCPackets
  Partitions <- MCPartitions
  InitTuples = 1
INVARIANTS
  TuplesSound
PROPERTIES
  ClassifierSpec
