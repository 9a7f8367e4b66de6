\* Trees without lists, and trees where up to three rules make one.
SPECIFICATION TreeSpec
CONSTANTS
  Fields <- MCFields
  Width <- MCWidth
  Rules <- MCRules
  Prio <- MCPrio
  Lo <- MCLo
  Hi <- MCHi
  PrefixLen <- MCPrefixLen
  Packets <- MCPackets
  Dims <- MCFields
  Bits <- MCBits
  Hash <- MCHash
  Key <- MCKey
  Binths = {1, 4}
  Ids = {0, 1}
INVARIANTS
  CachesSound
  ClassifiesRight
PROPERTIES
  BuildRight
