----------------------------- MODULE PortTables -----------------------------
(***************************************************************************)
(* tuplestructure/hashnode.cpp with port hash tables: a hash node of a     *)
(* table that was created with use_port_hash_table = true.  Such a node    *)
(* starts as a list.  At Up rules it begins two tables, of the rules with  *)
(* one source port and of those left with one destination port, and puts   *)
(* every rule in again; at Down rules it goes back to the list.            *)
(*                                                                         *)
(* A port table is a hash table whose keys are ports, and one key has one  *)
(* hash: by the theorems about module HashTable it is the set of its rules *)
(* and its max_priority their best.  The node stands alone here: when it   *)
(* is empty, or a delete fails, the table that holds it drops it, and the  *)
(* next rule finds a new one.                                              *)
(***************************************************************************)
EXTENDS Integers, Sequences, SequencesExt

CONSTANTS
  Rules,
  Prio,            \* distinct priorities, 0 is "no rule"
  Exact,           \* Exact[r][i]: range[2 + i] of r is one port
  Packets,
  Matches(_, _),   \* Matches(r, p): MatchRuleTrace
  Up, Down         \* 7 and 3 in the code

NodeAssumption ==
  /\ Rules # {}
  /\ Prio \in [Rules -> Nat \ {0}]
  /\ \A r, q \in Rules : Prio[r] = Prio[q] => r = q
  /\ Exact \in [Rules -> [0 .. 1 -> BOOLEAN]]
  /\ Down \in Nat \ {0} /\ Up \in Nat /\ Down < Up - 1

VARIABLES
  hash_node,
  ret           \* what the last call returned

vars == <<hash_node, ret>>

Ended == -1    \* the call ended the program

NewNode == [rule_node |-> <<>>, rules_num |-> 0, max_priority |-> 0,
            begin_port_hash_table |-> FALSE, has_port_hash_table |-> FALSE,
            made |-> [i \in 0 .. 1 |-> FALSE],      \* port_hash_table[i] is not NULL
            port_hash_table |-> [i \in 0 .. 1 |-> {}]]

Stored == ToSet(hash_node.rule_node) \cup hash_node.port_hash_table[0]
            \cup hash_node.port_hash_table[1]

Best(S) == Max({0} \cup {Prio[r] : r \in S})

\* a table that is there is asked for its max_priority, an empty one has 0
UpdatePriority(n) ==
  [n EXCEPT !.max_priority =
     Best(n.port_hash_table[0] \cup n.port_hash_table[1]
            \cup (IF n.rule_node = <<>> THEN {} ELSE {n.rule_node[1]}))]

\* the port table a rule belongs to, if any: the source port is asked first
PortsOf(r) == {i \in 0 .. 1 : Exact[r][i] /\ \A j \in 0 .. i - 1 : ~Exact[r][j]}

----------------------------------------------------------------------------
(***************************************************************************)
(* InsertRule.                                                             *)
(***************************************************************************)
Counted(n) == [n EXCEPT !.rules_num = @ + 1]

ToTable(n, r, i) ==
  UpdatePriority([n EXCEPT !.port_hash_table[i] = @ \cup {r},
                           !.made[i] = TRUE, !.has_port_hash_table = TRUE])

ToList(n, r) ==
  LET first == SelectInSeq(n.rule_node, LAMBDA q : Prio[r] > Prio[q])
      place == IF first = 0 THEN Len(n.rule_node) + 1 ELSE first
      m == [n EXCEPT !.rule_node = InsertAt(@, place, r)]
  IN  IF place = 1 THEN UpdatePriority(m) ELSE m

\* without the part that begins the port tables
Place(n, r) ==
  IF n.begin_port_hash_table /\ PortsOf(r) # {}
  THEN ToTable(Counted(n), r, Max(PortsOf(r)))
  ELSE ToList(Counted(n), r)

\* mutant: the rules that were counted already are counted again
BeginKeepingCount(n) ==
  FoldLeft(Place, [n EXCEPT !.begin_port_hash_table = TRUE,
                            !.rule_node = <<>>, !.max_priority = 0], n.rule_node)

\* the calls of InsertRule in here cannot begin again
BeginTables(n) ==
  FoldLeft(Place, [n EXCEPT !.begin_port_hash_table = TRUE, !.rule_node = <<>>,
                            !.rules_num = 0, !.max_priority = 0], n.rule_node)

Inserted(n, r) ==
  LET m == Place(n, r)
  IN  IF m.rules_num >= Up /\ ~n.begin_port_hash_table THEN BeginTables(m) ELSE m

InsertRule(r) ==
  /\ ret # Ended
  /\ r \notin Stored
  /\ hash_node' = Inserted(hash_node, r)
  /\ ret' = 0

----------------------------------------------------------------------------
(***************************************************************************)
(* DeleteRule, of any rule: callers may delete one they never inserted.    *)
(***************************************************************************)
Uncounted(n) == [n EXCEPT !.rules_num = @ - 1]

FromTable(n, r, i) ==
  UpdatePriority(Uncounted([n EXCEPT !.port_hash_table[i] = @ \ {r}]))

FromList(n, r) ==
  LET place == SelectInSeq(n.rule_node, LAMBDA q : q = r)
      m == Uncounted([n EXCEPT !.rule_node = RemoveAt(@, place)])
  IN  IF place = 1 THEN UpdatePriority(m) ELSE m

\* mutant: the rules of the second table are forgotten
EndOneTable(n) ==
  LET moved == SetToSeq(n.port_hash_table[0])
  IN  FoldLeft(Inserted, [n EXCEPT !.rules_num = @ - Len(moved),
                                   !.begin_port_hash_table = FALSE,
                                   !.has_port_hash_table = FALSE,
                                   !.made = NewNode.made,
                                   !.port_hash_table = NewNode.port_hash_table], moved)

\* back to the list, in the order the tables give their rules; any order does
EndTables(n) ==
  LET moved == SetToSeq(n.port_hash_table[0]) \o SetToSeq(n.port_hash_table[1])
  IN  FoldLeft(Inserted, [n EXCEPT !.rules_num = @ - Len(moved),
                                   !.begin_port_hash_table = FALSE,
                                   !.has_port_hash_table = FALSE,
                                   !.made = NewNode.made,
                                   !.port_hash_table = NewNode.port_hash_table], moved)

Shrunk(n) == IF n.begin_port_hash_table /\ n.rules_num <= Down THEN EndTables(n) ELSE n

\* HashTable::DeleteRule frees a node with no rule left
Kept(n) == IF n.rules_num = 0 THEN NewNode ELSE n

DeleteFromTable(r) ==
  /\ ret # Ended /\ hash_node.begin_port_hash_table
  /\ \E i \in PortsOf(r) :
       /\ r \in hash_node.port_hash_table[i]
       /\ hash_node' = Kept(Shrunk(FromTable(hash_node, r, i)))
  /\ ret' = 0

InTables(r) == hash_node.begin_port_hash_table /\ PortsOf(r) # {}

DeleteFromList(r) ==
  /\ ret # Ended /\ ~InTables(r)
  /\ r \in ToSet(hash_node.rule_node)
  /\ hash_node' = Kept(Shrunk(FromList(hash_node, r)))
  /\ ret' = 0

\* "no port_hash_table", or the rule is not in the list: the whole node is lost
DeleteFails(r) ==
  /\ ret # Ended
  /\ hash_node.rules_num > 0
  /\ IF InTables(r)
     THEN ~hash_node.made[Max(PortsOf(r))]
     ELSE r \notin ToSet(hash_node.rule_node)
  /\ hash_node' = NewNode
  /\ ret' = 1

\* "cann't delete in port_hash_table": exit(1)
DeleteExits(r) ==
  /\ ret # Ended
  /\ InTables(r)
  /\ hash_node.made[Max(PortsOf(r))]
  /\ r \notin hash_node.port_hash_table[Max(PortsOf(r))]
  /\ ret' = Ended
  /\ UNCHANGED hash_node

\* the program has ended
Exited == ret = Ended /\ UNCHANGED vars

DeleteRule(r) == DeleteFromTable(r) \/ DeleteFromList(r) \/ DeleteFails(r) \/ DeleteExits(r)

Init == hash_node = NewNode /\ ret = 0
Next == (\E r \in Rules : InsertRule(r) \/ DeleteRule(r)) \/ Exited
Spec == Init /\ [][Next]_vars

----------------------------------------------------------------------------
(***************************************************************************)
(* What DynamicTuple::Lookup does with a node of the right key, for a      *)
(* packet that matches the rules M, when it has a match of priority p: the *)
(* two port tables, then the list up to the first rule that cannot win.    *)
(***************************************************************************)
ProbeTable(n, i, M, p) ==
  IF n.has_port_hash_table /\ n.made[i]
  THEN Max({p, Best(n.port_hash_table[i] \cap M)}) ELSE p

ProbeList(list, M, p) ==
  LET k == SelectInSeq(list, LAMBDA q : p >= Prio[q] \/ q \in M)
  IN  IF k = 0 THEN p ELSE Max({p, Prio[list[k]]})

Probe(n, M, p) ==
  IF p >= n.max_priority THEN p
  ELSE ProbeList(n.rule_node, M, ProbeTable(n, 1, M, ProbeTable(n, 0, M, p)))

----------------------------------------------------------------------------
(***************************************************************************)
(* Properties.                                                             *)
(***************************************************************************)

\* Every rule of the node is in its list or in the one port table a delete would
\* look in, the list descends, and rules_num, max_priority and has_port_hash_table
\* are what is really there: after every crossing of the two limits, where the node
\* puts its rules in again through itself (hashnode.cpp:71-87, 138-154).
NodePlaced ==
  LET n == hash_node IN
  /\ \A r \in ToSet(n.rule_node) : ~(n.begin_port_hash_table /\ PortsOf(r) # {})
  /\ \A i \in 0 .. 1 : \A r \in n.port_hash_table[i] : i \in PortsOf(r) /\ n.made[i]
  /\ \A j, k \in DOMAIN n.rule_node : j < k => Prio[n.rule_node[j]] > Prio[n.rule_node[k]]
NodeCounts ==
  LET n == hash_node IN
  /\ n.rules_num = Cardinality(Stored)
  /\ n.max_priority = Best(Stored)
  /\ n.has_port_hash_table = \E i \in 0 .. 1 : n.made[i]
  /\ n.has_port_hash_table => n.begin_port_hash_table
\* and between the limits it stays as it is, below Down a list, from Up on with tables
NodeLimits ==
  IF hash_node.begin_port_hash_table THEN hash_node.rules_num > Down ELSE hash_node.rules_num < Up
NodeSound == NodePlaced /\ NodeCounts /\ NodeLimits

\* A lookup that comes to the node with priority p leaves with the best of p and
\* the rules that match, wherever they are (dynamictuple.cpp:369-411).
ProbeRight ==
  \A p \in {0} \cup {Prio[q] : q \in Rules}, packet \in Packets :
    LET M == {r \in Rules : Matches(r, packet)}
    IN  Probe(hash_node, M, p) = Max({p, Best(Stored \cap M)})
=============================================================================
