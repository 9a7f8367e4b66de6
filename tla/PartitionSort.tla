--------------------------- MODULE PartitionSort ---------------------------
(***************************************************************************)
(* PartitionSort (partitionsort/PartitionSort/PartitionSort.cpp and .h,    *)
(* OptimizedMITree.h): interval trees in descending order of best          *)
(* priority.  A rule goes into the first tree whose rules it is comparable *)
(* to in the tree's order of the fields, else into a new tree, whose order *)
(* its own ranges decide.                                                  *)
(*                                                                         *)
(* A pointer to a tree is a member of Nat, and the allocator may give the  *)
(* address of a deleted tree to the next one.  Callers delete only rules   *)
(* that are stored and insert only others, as                              *)
(* PerformOnlyPacketClassification does (Simulation.cpp:179-182).          *)
(* Reconstruction of a small tree never changes it: its field selection    *)
(* looks at partitions that nothing fills                                  *)
(* (LightWeightedInterval::Push has no caller).                            *)
(***************************************************************************)
EXTENDS Prefix, FiniteSets, IntervalTree

CONSTANT Prio   \* Prio[r]: rule.priority

(***************************************************************************)
(* RBTreeCanInsert, CompareBox and the chains cut the points of a range to *)
(* an unsigned before they compare.  Of the rules' ranges that confuses no *)
(* two: those that meet when cut do meet, and those that are the same when *)
(* cut are the same.  So it is when a field has IntBits bits, and when a   *)
(* wider one, a MAC, is absent, exact or told apart by its low bits; two   *)
(* prefixes of a MAC with equal low bits break it (module MCWideBox).      *)
(***************************************************************************)
CutHarmless ==
  \A r, q \in Rules, f \in Fields :
    LET b == <<Lo[r][f], Hi[r][f]>>
        c == <<Lo[q][f], Hi[q][f]>>
    IN  /\ IsIntersect(b, c) <=> Lo[r][f] <= Hi[q][f] /\ Lo[q][f] <= Hi[r][f]
        /\ IsIdentical(b, c) => b = c

SortAssumption ==
  /\ IsFiniteSet(Rules) /\ IsFiniteSet(Fields)
  /\ \A r \in Rules : Prio[r] \in Nat \ {0}
  /\ \A r, q \in Rules : Prio[r] = Prio[q] => r = q
  /\ \A r \in Rules, f \in Fields : Hi[r][f] \in Nat /\ Lo[r][f] <= Hi[r][f]
  /\ CutHarmless

VARIABLES
  mitree,         \* the live trees by address
  mitrees,        \* their addresses, in the order of the vector
  rule_tree_map,  \* for each rule ever inserted, the address of its last tree
  scan,           \* the lookup in progress, or NoScan
  answer          \* the packet and the result of a lookup, until the next update

vars == <<mitree, mitrees, rule_tree_map, scan, answer>>
store == <<mitree, mitrees, rule_tree_map>>

NoScan == [packet |-> <<>>, query |-> 0, result |-> 0]

\* numRules is the size of priorityContainer, which holds the priorities of the rules
NewTree(order) ==
  [fieldOrder |-> order, root |-> RBTreeCreate, priorityContainer |-> {}, maxPriority |-> -1]
RulesOf(t) == {r \in Rules : Prio[r] \in mitree[t].priorityContainer}
Stored == UNION {RulesOf(t) : t \in DOMAIN mitree}

\* the highest of the priorities in P, -1 when there is none
Top(P) == CHOOSE m \in {-1} \cup P : \A n \in P : n <= m

Init ==
  /\ mitree = [t \in {} |-> NewTree(<<>>)]
  /\ mitrees = <<>>
  /\ rule_tree_map = [r \in {} |-> 0]
  /\ scan = NoScan
  /\ answer = <<>>

\* where the next tree is allocated
Address == CHOOSE a \in 1 .. Cardinality(DOMAIN mitree) + 1 : a \notin DOMAIN mitree

(***************************************************************************)
(* The order of the fields for the first rule of a tree: points first, all *)
(* values last (GetFieldOrderByRule; sort_indexes may leave equal ranks in *)
(* any order).                                                             *)
(***************************************************************************)
Rank(r, f) ==
  LET length == Hi[r][f] - Lo[r][f] + 1 IN
  IF length = 1 THEN 0
  ELSE IF length < 2 ^ (Width[f] - 1) THEN 1
  ELSE IF length < 2 ^ Width[f] THEN 2 ELSE 3

FieldOrders(r) ==
  {o \in [1 .. Cardinality(Fields) -> Fields] :
     \A i, j \in DOMAIN o : i < j => o[i] # o[j] /\ Rank(r, o[i]) <= Rank(r, o[j])}

KeyOf(r, order) == [i \in DOMAIN order |-> <<Lo[r][order[i]], Hi[r][order[i]]>>]

\* InsertionSortMITrees: the one order that descends, as best priorities differ
Descends(h, s) ==
  \A i, j \in DOMAIN s : i < j => h[s[i]].maxPriority >= h[s[j]].maxPriority
Sorted(h, list) ==
  LET D == DOMAIN list
      orders == {f \in [D -> D] : {f[i] : i \in D} = D}
  IN  {s \in {[i \in D |-> list[f[i]]] : f \in orders} : Descends(h, s)}

----------------------------------------------------------------------------
(***************************************************************************)
(* Updates.                                                                *)
(***************************************************************************)
CanInsertRule(T, r) == RBTreeCanInsert(T.root, KeyOf(r, T.fieldOrder))

TreeInsertion(T, r) ==
  [T EXCEPT !.root = RBTreeInsert(@, KeyOf(r, T.fieldOrder), Prio[r]),
            !.priorityContainer = @ \cup {Prio[r]},
            !.maxPriority = IF Prio[r] > @ THEN Prio[r] ELSE @]

TreeDeletion(T, r) ==
  [T EXCEPT !.root = RBTreeDelete(@, KeyOf(r, T.fieldOrder), Prio[r]),
            !.priorityContainer = @ \ {Prio[r]},
            !.maxPriority = IF Prio[r] = @ \/ T.priorityContainer = {Prio[r]}
                            THEN Top(T.priorityContainer \ {Prio[r]}) ELSE @]

Remember(r, t) ==
  rule_tree_map' = [q \in DOMAIN rule_tree_map \cup {r} |-> IF q = r THEN t ELSE rule_tree_map[q]]

Takers(r) == {i \in DOMAIN mitrees : CanInsertRule(mitree[mitrees[i]], r)}

InsertInto(r) ==
  /\ Takers(r) # {}
  /\ LET t == mitrees[CHOOSE i \in Takers(r) : \A j \in Takers(r) : i <= j]
         h == [mitree EXCEPT ![t] = TreeInsertion(@, r)]
     IN  /\ mitree' = h
         /\ mitrees' \in IF Prio[r] > mitree[t].maxPriority THEN Sorted(h, mitrees) ELSE {mitrees}
         /\ Remember(r, t)

InsertNewTree(r) ==
  /\ Takers(r) = {}
  /\ \E order \in FieldOrders(r) :
       LET h == [t \in DOMAIN mitree \cup {Address} |->
                   IF t = Address THEN TreeInsertion(NewTree(order), r) ELSE mitree[t]]
       IN  /\ mitree' = h
           /\ mitrees' \in Sorted(h, Append(mitrees, Address))
  /\ Remember(r, Address)

InsertRule(r) ==
  /\ scan = NoScan /\ r \notin Stored
  /\ InsertInto(r) \/ InsertNewTree(r)
  /\ answer' = <<>>
  /\ UNCHANGED scan

\* An emptied tree is the last one once the trees are sorted.
DeleteRule(r) ==
  /\ scan = NoScan /\ r \in Stored
  /\ LET t == rule_tree_map[r]
         T == TreeDeletion(mitree[t], r)
         h == [mitree EXCEPT ![t] = T]
     IN  \E list \in IF Prio[r] = mitree[t].maxPriority \/ T.priorityContainer = {}
                     THEN Sorted(h, mitrees) ELSE {mitrees} :
           IF T.priorityContainer = {}
           THEN /\ mitree' = [u \in DOMAIN mitree \ {t} |-> mitree[u]]
                /\ mitrees' = SubSeq(list, 1, Len(list) - 1)
           ELSE mitree' = h /\ mitrees' = list
  /\ answer' = <<>>
  /\ UNCHANGED <<rule_tree_map, scan>>

----------------------------------------------------------------------------
(***************************************************************************)
(* ClassifyAPacket, one step for each tree; the variant that counts        *)
(* accesses is the same loop.                                              *)
(***************************************************************************)
ClassifyStart(p) ==
  /\ scan = NoScan
  /\ scan' = [NoScan EXCEPT !.packet = p]
  /\ UNCHANGED <<store, answer>>

NextTree == mitree[mitrees[scan.query + 1]]
ScanOver == scan.query < Len(mitrees) => scan.result > NextTree.maxPriority

Points(T, p) == [i \in DOMAIN T.fieldOrder |-> p[T.fieldOrder[i]]]

ClassifyProbe ==
  /\ scan # NoScan /\ ~ScanOver
  /\ LET found == RBExactQuery(NextTree.root, Points(NextTree, scan.packet)) IN
     scan' = [scan EXCEPT !.query = @ + 1, !.result = IF found > @ THEN found ELSE @]
  /\ UNCHANGED <<store, answer>>

ClassifyEnd ==
  /\ scan # NoScan /\ ScanOver
  /\ answer' = <<scan.packet, scan.result>>
  /\ scan' = NoScan
  /\ UNCHANGED store

Next == \/ \E r \in Rules : InsertRule(r) \/ DeleteRule(r)
        \/ \E p \in Packets : ClassifyStart(p)
        \/ ClassifyProbe \/ ClassifyEnd

Spec == Init /\ [][Next]_vars

----------------------------------------------------------------------------
(***************************************************************************)
(* Properties.                                                             *)
(***************************************************************************)

\* Types of the members (PartitionSort.h:83-85); the vector lists every live tree
\* once and no deleted one, so what the last entry of it was when a tree was
\* emptied, was that tree (PartitionSort.cpp:54-57).
TypeOK ==
  /\ \A t \in DOMAIN mitree :
       /\ mitree[t].fieldOrder \in [1 .. Cardinality(Fields) -> Fields]
       /\ mitree[t].priorityContainer \subseteq Nat /\ mitree[t].maxPriority \in Nat
  /\ {mitrees[i] : i \in DOMAIN mitrees} = DOMAIN mitree
  /\ Len(mitrees) = Cardinality(DOMAIN mitree)
  /\ DOMAIN rule_tree_map \subseteq Rules
  /\ scan = NoScan \/ scan \in [packet : Packets, query : 0 .. Len(mitrees), result : Nat]

\* The rules of a tree are comparable: where two keys differ first, the boxes are
\* disjoint.  A packet then matches the boxes of one key at most.
Sortable ==
  \A t \in DOMAIN mitree : \A r, q \in RulesOf(t) :
    LET u == KeyOf(r, mitree[t].fieldOrder)
        v == KeyOf(q, mitree[t].fieldOrder)
        n == Agreement(u, v) + 1
    IN  n <= Len(u) => u[n][2] < v[n][1] \/ v[n][2] < u[n][1]

(***************************************************************************)
(* A tree is the path compression of its rules, whatever was inserted and  *)
(* deleted before: there is a tree for each path along which two rules or  *)
(* more go, and for the first of each rule alone, which has the rest of    *)
(* its key; counts, and the lists where queries end, are right             *)
(* (red_black_tree.cpp:399-489, 1191-1280).                                *)
(***************************************************************************)
Along(t, q) == {r \in RulesOf(t) : OnWay(q, KeyOf(r, mitree[t].fieldOrder))}
Compressed ==
  \A t \in DOMAIN mitree :
    LET root == mitree[t].root
        keys == {KeyOf(r, mitree[t].fieldOrder) : r \in RulesOf(t)}
    IN  /\ DOMAIN root = {<<>>} \cup {q \in UNION {{Upto(k, l) : l \in 1 .. Len(k)} : k \in keys} :
                                        Cardinality(Along(t, Upto(q, Len(q) - 1))) > 1}
        /\ \A q \in DOMAIN root :
             /\ root[q].count = Cardinality(Along(t, q))
             /\ root[q].count = 1 => \A r \in Along(t, q) : q \o root[q].chain_boxes = KeyOf(r, mitree[t].fieldOrder)
             /\ root[q].count > 1 => root[q].chain_boxes = <<>>
             /\ root[q].count = 1 \/ Len(q) = Cardinality(Fields) =>
                  root[q].priority_list = {Prio[r] : r \in Along(t, q)}

\* The map names the tree of every stored rule, each tree caches the best priority
\* it holds, none is empty, and the vector descends.
TreesListed ==
  /\ \A t \in DOMAIN mitree : /\ \A r \in RulesOf(t) : rule_tree_map[r] = t
                              /\ RulesOf(t) # {}
                              /\ mitree[t].maxPriority = Top(mitree[t].priorityContainer)
  /\ Descends(mitree, mitrees)

\* During a lookup the best match so far is that of the trees queried, and when
\* the lookup ends early nothing better is left (PartitionSort.h:24-32).
Matched(S) == Top({Prio[r] : r \in {r \in S : Matches(r, scan.packet)}} \cup {0})
ScanExact ==
  scan # NoScan =>
    /\ scan.result = Matched(UNION {RulesOf(mitrees[i]) : i \in 1 .. scan.query})
    /\ ScanOver => scan.result = Matched(Stored)

\* The structure updates and lookups rest on.
TreesSound == Sortable /\ Compressed /\ TreesListed /\ ScanExact

\* PartitionSort implements the classifier.
Abstract == INSTANCE Classifier WITH stored <- Stored
ClassifierSpec == Abstract!Spec
=============================================================================
