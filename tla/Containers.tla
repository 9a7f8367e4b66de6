----------------------------- MODULE Containers -----------------------------
(***************************************************************************)
(* The containers under the classifiers: the map of PSTSS and TupleMerge,  *)
(* a level of the trees of PartitionSort, and a hash node with port        *)
(* tables.  The modules of the classifiers take them to be sets; here      *)
(* callers insert and delete in any order.  One container is chosen and    *)
(* used by itself.                                                         *)
(***************************************************************************)
EXTENDS Integers

CONSTANTS
  Keys,                                                          \* of RedBlackTree
  MapNodes, HashOf, Bases, Rehash(_, _), HalfBits, K, MaxDepth,  \* of CuckooMap
  Rules, Prio, Exact, Packets, Matches(_, _), Up, Down           \* of PortTables

VARIABLES
  container,
  node, pc, z, x, y, root,
  impl, hand, path,
  hash_node, ret

level == <<node, pc, z, x, y, root>>
map == <<impl, hand, path>>
ports == <<hash_node, ret>>
vars == <<container, level, map, ports>>

Level == INSTANCE RedBlackTree
Map == INSTANCE CuckooMap
Ports == INSTANCE PortTables

ASSUME ContainersAssumption ==
  Level!KeysAssumption /\ Map!MapAssumption /\ Ports!NodeAssumption

\* the containers that are not chosen are not there
NoLevel == node = <<>> /\ pc = "idle" /\ z = 0 /\ x = 0 /\ y = 0 /\ root = 0
NoMap == impl = <<>> /\ hand = <<>> /\ path = <<>>
NoPorts == hash_node = <<>> /\ ret = 0

Init ==
  \/ container = "level" /\ Level!Init /\ NoMap /\ NoPorts
  \/ container = "map" /\ Map!Init /\ NoLevel /\ NoPorts
  \/ container = "ports" /\ Ports!Init /\ NoLevel /\ NoMap

LevelTurn == container = "level" /\ Level!Turn /\ UNCHANGED <<container, map, ports>>

Next ==
  \/ container = "level" /\ Level!Next /\ UNCHANGED <<container, map, ports>>
  \/ container = "map" /\ Map!Next /\ UNCHANGED <<container, level, ports>>
  \/ container = "ports" /\ Ports!Next /\ UNCHANGED <<container, level, map>>

\* the one thread goes on with the insert or delete it is in
Spec == Init /\ [][Next]_vars /\ WF_vars(LevelTurn)

----------------------------------------------------------------------------
(***************************************************************************)
(* Properties.                                                             *)
(***************************************************************************)

\* The level is a search tree of what is stored at every step of every call, and
\* its paths have one number of black nodes, counting what a fix-up still owes
\* (red_black_tree.cpp:85-174, 511-546, 1093-1144, 1338-1369).
LevelSound ==
  container = "level" => Level!TypeOK /\ Level!SearchTree /\ Level!Balanced

\* Every insert and delete of the level returns: the loops climb, or end after a
\* rotation (red_black_tree.cpp:511, 1093).
CallReturns == (container = "level" /\ pc # "idle") ~> pc = "idle"

\* Finds in the map are exact, between the moves of an insert too, and an iteration
\* meets every node once (cmap.cpp:169-172, 922-925, 1114-1137).
MapSound == container = "map" => Map!TypeOK /\ Map!MapSound

\* However often the node crosses the limits, every rule is where a delete looks
\* for it, the counts and max_priority are what is there, and a lookup in the node
\* is exact (hashnode.cpp:71-87, 138-154, dynamictuple.cpp:369-411).
NodeSound == container = "ports" => Ports!NodeSound /\ Ports!ProbeRight

\* Seen from outside the node is a set of rules of one key: the moves between list
\* and tables neither lose nor double one, and a failed delete loses the rules of
\* that key only (hashnode.cpp:30-156, hashtable.cpp:129-136).
Store == INSTANCE RuleStore WITH
           stored <- IF container = "ports" THEN Ports!Stored ELSE {},
           KeyOf <- [r \in Rules |-> 0]
NodeSpec == Store!Spec
=============================================================================
