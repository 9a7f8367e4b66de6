\* Callers that sooner or later delete a rule that is not stored.
SPECIFICATION MCSpec
CONSTANTS
  Fields <- MCFields
  Width <- MCWidth
  KeyBits = 2
  Rules <- MCRules
  Prio <- MCPrio
  Lo <- MCLo
  Hi <- MCHi
  PrefixLen <- MCPrefixLen
  Packets <- MCPackets
  Shapes <- MCShapes
  Collide = 1
  InitTuples = 1
  MaxTuples = 2
  Careless = TRUE
  MaxDrift = 1
INVARIANTS
  TypeOK
  RulesPlaced
  CountersExactTillStray
  EstimateSoundTillStray
  ArraySorted
  MaxCovers
PROPERTIES
  ClassifierSpec
