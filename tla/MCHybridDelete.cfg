\* Leaves of up to three rules are lists; ids are what the memory had.
SPECIFICATION TreeSpec
CONSTANTS
  Fields <- MCFields
  Width <- MCWidth
  Rules <- MCRules
  Prio <- MCPrio
  Lo <- MCLo
  Hi <- MCHi
  PrefixLen <- MCPrefixLen
  Packets <- MCPackets
  Dims <- MCFields
  Bits <- MCBits
  Hash <- MCHash
  Key <- MCKey
  Binths = {1, 4}
  Ids = {0, 1}
PROPERTIES
  DeleteRemoves
