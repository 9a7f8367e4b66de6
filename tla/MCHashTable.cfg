\* Callers that also delete rules that are not stored.
SPECIFICATION FairSpec
CONSTANTS
  Rules <- MCRules
  Prio <- MCPrio
  KeyOf <- MCKeyOf
  HashOf <- MCHashOf
  InitSize = 2
  Collide = 2
  Careless = TRUE
INVARIANTS
  TypeOK
  TableSound
  LoadBounded
  ProbeExact
  MaxCovers
PROPERTIES
  StoreSpec
  CallReturns
