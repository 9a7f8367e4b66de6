SPECIFICATION Spec
CONSTANTS
  Rules <- MCRules
  Prio <- MCPrio
  KeyOf <- MCKeyOf
  HashOf <- MCHashOf
  InitSize = 2
  Collide = 2
  Careless = FALSE
INVARIANT DeleteFinds
