----------------------------- MODULE HashTable -----------------------------
(***************************************************************************)
(* tuplestructure/hashtable.cpp with the rule lists of                     *)
(* tuplestructure/hashnode.cpp: the hash table behind every tuple.  A      *)
(* bucket is a chain of hash nodes, a hash node holds the rules of one key *)
(* as a list, both kept in descending priority so that a lookup may stop   *)
(* at the first entry that cannot beat what it already has.  The table     *)
(* doubles when its load reaches 85%.                                      *)
(*                                                                         *)
(* A call runs in steps, because the loop that moves the nodes at a        *)
(* doubling is the part worth looking into: the call picks the node out of *)
(* its chain and changes it (pc = "link"), InsertHashNode puts it back,    *)
(* first moving every node one by one when the table is full (pc =         *)
(* "resize"), and the call then settles max_priority (pc = "finish").      *)
(* Nothing else runs in between: the program has one thread.               *)
(*                                                                         *)
(* The port hash tables inside a node are in module PortTables: every      *)
(* classifier of the program is created with use_port_hash_table = false.  *)
(***************************************************************************)
EXTENDS Integers, Sequences, FiniteSets

CONSTANTS
  Rules,      \* the rules of the rule set
  Prio,       \* Prio[r]: rule->priority
  KeyOf,      \* KeyOf[r]: the key the tuple computes for r
  HashOf,     \* HashOf[r]: the hash the tuple computes for r
  InitSize,   \* the size given to Init, 32 in the code
  Collide,    \* the limit given to InsertRuleCollide, 15 in the code
  Careless    \* may a caller delete a rule it has not inserted?

(***************************************************************************)
(* ReadRules (io.cpp:189) numbers the rules n..1, so priorities are        *)
(* distinct and 0 means "no rule".  A table of size 1 has room for no node *)
(* at all (85% of 1 rounds to 0); the code creates them with 32.           *)
(***************************************************************************)
ASSUME TableAssumption ==
  /\ Rules # {}
  /\ Prio \in [Rules -> Nat \ {0}]
  /\ \A r, q \in Rules : Prio[r] = Prio[q] => r = q
  /\ KeyOf \in [Rules -> Nat]
  /\ HashOf \in [Rules -> Nat]
  /\ InitSize \in Nat \ {0, 1}
  /\ Collide \in Nat \ {0}
  /\ Careless \in BOOLEAN

(***************************************************************************)
(* What makes a chain searchable: rules with the same key have the same    *)
(* hash.  It is an assumption about the caller (module Tuple examines it), *)
(* not about this table.                                                   *)
(***************************************************************************)
KeyDeterminesHash == \A r, q \in Rules : KeyOf[r] = KeyOf[q] => HashOf[r] = HashOf[q]

Node == [key : Nat, hash : Nat, rules : Seq(Rules), max_priority : Nat]

NewNode(r) == [key |-> KeyOf[r], hash |-> HashOf[r], rules |-> <<>>, max_priority |-> 0]
NoNode == [key |-> 0, hash |-> 0, rules |-> <<>>, max_priority |-> 0]

VARIABLES
  hash_node_arr,      \* the buckets: a function from 0..mask to chains
  mask,
  hash_node_num,
  max_hash_node_num,
  max_priority,
  pc,                 \* where the current call stands
  op,                 \* the current call
  hand,               \* the node the current call holds outside the chains
  origin,             \* origin_hash_node_arr, during a doubling
  ret                 \* what the last finished call returned

vars == <<hash_node_arr, mask, hash_node_num, max_hash_node_num, max_priority,
          pc, op, hand, origin, ret>>

(***************************************************************************)
(* Some definitions have a mutated form just before them: a plausible      *)
(* mistake in the code they model, which one of the properties catches.    *)
(***************************************************************************)

\* mutant: a table that grows only when every bucket is taken
MaxNodesFull(size) == size

(***************************************************************************)
(* size * HASHTABLEMAX.  Sizes are powers of two and 0.85 is not a dyadic  *)
(* fraction, so the product is never an integer and truncating the double  *)
(* is exactly this division.                                               *)
(***************************************************************************)
MaxNodes(size) == (size * 85) \div 100

\* hash & mask; sizes are powers of two
Index(hash) == hash % (mask + 1)

EmptyTable(size) == [b \in 0 .. size - 1 |-> <<>>]

\* s with e put in at position i
Put(s, i, e) == [j \in 1 .. Len(s) + 1 |-> IF j < i THEN s[j]
                                          ELSE IF j = i THEN e ELSE s[j - 1]]
\* s without its element at position i
Cut(s, i) == [j \in 1 .. Len(s) - 1 |-> IF j < i THEN s[j] ELSE s[j + 1]]

(***************************************************************************)
(* The scan both kinds of list use to find a place: the first position     *)
(* whose priority is strictly smaller, or the end.                         *)
(***************************************************************************)
IsPlace(p, n, i, x) ==
  /\ i \in 1 .. n + 1
  /\ \A j \in 1 .. i - 1 : p[j] >= x
  /\ i <= n => x > p[i]

\* mutant: a rule goes to the end of its list
ListPlaceEnd(list, i, r) == i = Len(list) + 1

ChainPlace(chain, i, x) ==
  IsPlace([j \in DOMAIN chain |-> chain[j].max_priority], Len(chain), i, x)
ListPlace(list, i, r) ==
  IsPlace([j \in DOMAIN list |-> Prio[list[j]]], Len(list), i, Prio[r])

(***************************************************************************)
(* HashNode::InsertRule and HashNode::DeleteRule on the list of a node     *)
(* without port tables.  UpdatePriority runs only when the head changes.   *)
(***************************************************************************)
NodeInsert(n, r, i) ==
  [n EXCEPT !.rules = Put(@, i, r),
            !.max_priority = IF i = 1 THEN Prio[r] ELSE @]

HeadPriority(list) == IF list = <<>> THEN 0 ELSE Prio[list[1]]

NodeDelete(n, i) ==
  LET rest == Cut(n.rules, i)
  IN  [n EXCEPT !.rules = rest,
                !.max_priority = IF i = 1 THEN HeadPriority(rest) ELSE @]

\* position i of bucket b holds the first node with this key
IsPick(b, i, key) ==
  /\ i \in DOMAIN hash_node_arr[b]
  /\ hash_node_arr[b][i].key = key
  /\ \A j \in 1 .. i - 1 : hash_node_arr[b][j].key # key

NoPick(b, key) == \A i \in DOMAIN hash_node_arr[b] : hash_node_arr[b][i].key # key

\* the elements of a list; those of a chain are nodes, those of a node rules
Elements(list) == {list[i] : i \in DOMAIN list}
NodesOf(arr) == UNION {Elements(arr[b]) : b \in DOMAIN arr}
Keys(arr) == {n.key : n \in NodesOf(arr)}
RulesOf(nodes) == UNION {Elements(n.rules) : n \in nodes}

\* every node of the table: in a chain, in an old chain or in the hand
Nodes == NodesOf(hash_node_arr) \cup NodesOf(origin) \cup {hand}
Stored == RulesOf(Nodes)

Init ==
  /\ hash_node_arr = EmptyTable(InitSize)
  /\ mask = InitSize - 1
  /\ hash_node_num = 0
  /\ max_hash_node_num = MaxNodes(InitSize)
  /\ max_priority = 0
  /\ pc = "idle"
  /\ op = [kind |-> "none", rule |-> CHOOSE r \in Rules : TRUE]
  /\ hand = NoNode
  /\ origin = EmptyTable(0)
  /\ ret = 0

----------------------------------------------------------------------------
(***************************************************************************)
(* The calls.                                                              *)
(***************************************************************************)

\* PickHashNode takes position i out of bucket b
Unlink(b, i) ==
  /\ hash_node_arr' = [hash_node_arr EXCEPT ![b] = Cut(@, i)]
  /\ hash_node_num' = hash_node_num - 1

Hold(kind, r, n) == /\ hand' = n
                    /\ op' = [kind |-> kind, rule |-> r]
                    /\ pc' = "link"

\* InsertRule and InsertRuleCollide when no node has the key
InsertNew(kind, r) ==
  /\ pc = "idle" /\ r \notin Stored
  /\ NoPick(Index(HashOf[r]), KeyOf[r])
  /\ Hold(kind, r, NodeInsert(NewNode(r), r, 1))
  /\ UNCHANGED <<hash_node_arr, mask, hash_node_num, max_hash_node_num,
                 max_priority, origin, ret>>

\* InsertRule and InsertRuleCollide into an existing node
InsertOld(kind, r) ==
  /\ pc = "idle" /\ r \notin Stored
  /\ LET b == Index(HashOf[r]) IN
     \E i \in DOMAIN hash_node_arr[b] :
       /\ IsPick(b, i, KeyOf[r])
       /\ Unlink(b, i)
       /\ LET n == hash_node_arr[b][i] IN
          IF kind = "insert" \/ Len(n.rules) < Collide
          THEN \E k \in 1 .. Len(n.rules) + 1 :
                 /\ ListPlace(n.rules, k, r)
                 /\ Hold(kind, r, NodeInsert(n, r, k))
          ELSE Hold("refused", r, n)
  /\ UNCHANGED <<mask, max_hash_node_num, max_priority, origin, ret>>

InsertRule(r) == InsertNew("insert", r) \/ InsertOld("insert", r)
InsertRuleCollide(r) == InsertNew("collide", r) \/ InsertOld("collide", r)

\* DeleteRule of a rule its node holds
DeleteRule(r) ==
  /\ pc = "idle"
  /\ LET b == Index(HashOf[r]) IN
     \E i \in DOMAIN hash_node_arr[b] :
       LET n == hash_node_arr[b][i] IN
       /\ IsPick(b, i, KeyOf[r])
       /\ Unlink(b, i)
       /\ \E k \in DOMAIN n.rules :
            /\ n.rules[k] = r
            /\ \A j \in 1 .. k - 1 : n.rules[j] # r
            /\ LET m == NodeDelete(n, k) IN
               /\ op' = [kind |-> "delete", rule |-> r]
               /\ IF m.rules = <<>>
                  THEN hand' = NoNode /\ pc' = "finish"
                  ELSE hand' = m /\ pc' = "link"
  /\ UNCHANGED <<mask, max_hash_node_num, max_priority, origin, ret>>

\* mutant: hash_node_num is decremented before the node is found
DeleteNoNodeCounts(r) ==
  /\ pc = "idle" /\ (Careless \/ r \in Stored)
  /\ NoPick(Index(HashOf[r]), KeyOf[r])
  /\ ret' = 1
  /\ hash_node_num' = hash_node_num - 1
  /\ UNCHANGED <<hash_node_arr, mask, max_hash_node_num,
                 max_priority, pc, op, hand, origin>>

\* DeleteRule when no node has the key: "Wrong: No such hash_node"
DeleteNoNode(r) ==
  /\ pc = "idle" /\ (Careless \/ r \in Stored)
  /\ NoPick(Index(HashOf[r]), KeyOf[r])
  /\ ret' = 1
  /\ UNCHANGED <<hash_node_arr, mask, hash_node_num, max_hash_node_num,
                 max_priority, pc, op, hand, origin>>

(***************************************************************************)
(* DeleteRule when the node has the key but not the rule: "Wrong: HashNode *)
(* DeleteRule".  The node was unlinked by PickHashNode and is not linked   *)
(* again, so all its rules go with it; max_priority is not recomputed.     *)
(***************************************************************************)
DeleteNotInNode(r) ==
  /\ pc = "idle" /\ (Careless \/ r \in Stored)
  /\ LET b == Index(HashOf[r]) IN
     \E i \in DOMAIN hash_node_arr[b] :
       /\ IsPick(b, i, KeyOf[r])
       /\ \A k \in DOMAIN hash_node_arr[b][i].rules : hash_node_arr[b][i].rules[k] # r
       /\ Unlink(b, i)
  /\ ret' = 1
  /\ UNCHANGED <<mask, max_hash_node_num, max_priority, pc, op, hand, origin>>

----------------------------------------------------------------------------
(***************************************************************************)
(* InsertHashNode and HashTableResize.                                     *)
(***************************************************************************)

\* put n into its chain of the table a of this size
Linked(a, n) ==
  \E i \in 1 .. Len(a[Index(n.hash)]) + 1 :
    /\ ChainPlace(a[Index(n.hash)], i, n.max_priority)
    /\ hash_node_arr' = [a EXCEPT ![Index(n.hash)] = Put(@, i, n)]

Link ==
  /\ pc = "link" /\ hash_node_num # max_hash_node_num
  /\ Linked(hash_node_arr, hand)
  /\ hash_node_num' = hash_node_num + 1
  /\ hand' = NoNode
  /\ pc' = "finish"
  /\ UNCHANGED <<mask, max_hash_node_num, max_priority, op, origin, ret>>

\* A doubling to `size' buckets that goes on from `num' nodes with the old array `old'.
Rehash(size, num, old) ==
  /\ pc = "link" /\ hash_node_num = max_hash_node_num
  /\ hash_node_arr' = EmptyTable(size)
  /\ mask' = size - 1
  /\ max_hash_node_num' = MaxNodes(size)
  /\ hash_node_num' = num
  /\ origin' = old
  /\ pc' = "resize"
  /\ UNCHANGED <<max_priority, op, hand, ret>>

\* mutants: the old array is lost, the size stays the same
StartResizeLosing == Rehash(2 * (mask + 1), 0, EmptyTable(0))
StartResizeInPlace == Rehash(mask + 1, 0, hash_node_arr)

StartResize == Rehash(2 * (mask + 1), 0, hash_node_arr)

(***************************************************************************)
(* One turn of the loop: the first node left in the old array goes into    *)
(* the new one through InsertHashNode, whose own test for a full table     *)
(* must not fire here.                                                     *)
(***************************************************************************)
\* mutant: a node stays in the bucket it had before the doubling
ResizeMoveSameBucket ==
  /\ pc = "resize" /\ hash_node_num # max_hash_node_num
  /\ \E b \in DOMAIN origin :
       /\ origin[b] # <<>>
       /\ \A c \in DOMAIN origin : c < b => origin[c] = <<>>
       /\ hash_node_arr' = [hash_node_arr EXCEPT ![b] = Append(@, origin[b][1])]
       /\ origin' = [origin EXCEPT ![b] = Cut(@, 1)]
  /\ hash_node_num' = hash_node_num + 1
  /\ UNCHANGED <<mask, max_hash_node_num, max_priority, pc, op, hand, ret>>

ResizeMove ==
  /\ pc = "resize" /\ hash_node_num # max_hash_node_num
  /\ \E b \in DOMAIN origin :
       /\ origin[b] # <<>>
       /\ \A c \in DOMAIN origin : c < b => origin[c] = <<>>
       /\ Linked(hash_node_arr, origin[b][1])
       /\ origin' = [origin EXCEPT ![b] = Cut(@, 1)]
  /\ hash_node_num' = hash_node_num + 1
  /\ UNCHANGED <<mask, max_hash_node_num, max_priority, pc, op, hand, ret>>

ResizeDone ==
  /\ pc = "resize"
  /\ \A b \in DOMAIN origin : origin[b] = <<>>
  /\ origin' = EmptyTable(0)
  /\ pc' = "link"
  /\ UNCHANGED <<hash_node_arr, mask, hash_node_num, max_hash_node_num,
                 max_priority, op, hand, ret>>

----------------------------------------------------------------------------
(***************************************************************************)
(* What the calls do after InsertHashNode.                                 *)
(***************************************************************************)
Return(code) == /\ ret' = code
                /\ pc' = "idle"
                /\ UNCHANGED <<hash_node_arr, mask, hash_node_num,
                               max_hash_node_num, op, hand, origin>>

\* mutant: max_priority is set by the first insert only
FinishInsertOnce ==
  /\ pc = "finish" /\ op.kind \in {"insert", "collide"}
  /\ max_priority' = IF max_priority = 0 THEN Prio[op.rule] ELSE max_priority
  /\ Return(0)

FinishInsert ==
  /\ pc = "finish" /\ op.kind \in {"insert", "collide"}
  /\ max_priority' = IF Prio[op.rule] > max_priority THEN Prio[op.rule] ELSE max_priority
  /\ Return(0)

FinishRefused ==
  /\ pc = "finish" /\ op.kind = "refused"
  /\ Return(-1)
  /\ UNCHANGED max_priority

\* the priorities at the heads of the chains, and 0
HeadPriorities ==
  {0} \cup {hash_node_arr[b][1].max_priority :
              b \in {c \in DOMAIN hash_node_arr : hash_node_arr[c] # <<>>}}

FinishDelete ==
  /\ pc = "finish" /\ op.kind = "delete"
  /\ IF Prio[op.rule] = max_priority
     THEN \E m \in HeadPriorities : /\ \A h \in HeadPriorities : h <= m
                                    /\ max_priority' = m
     ELSE UNCHANGED max_priority
  /\ Return(0)

Call == \E r \in Rules : \/ InsertRule(r) \/ InsertRuleCollide(r)
                         \/ DeleteRule(r) \/ DeleteNoNode(r) \/ DeleteNotInNode(r)
Finish == FinishInsert \/ FinishRefused \/ FinishDelete
Go == Link \/ StartResize \/ ResizeMove \/ ResizeDone \/ Finish
Next == Call \/ Go

Spec == Init /\ [][Next]_vars
\* the one thread goes on with the call it is in; nothing makes it call
FairSpec == Spec /\ WF_vars(Go)

----------------------------------------------------------------------------
(***************************************************************************)
(* A lookup in the table: what RlTuple::Lookup (rltuple.cpp:627-645) does  *)
(* with one tuple, for a packet with this key that matches the rules M,    *)
(* when it already has a match of priority p.  Both scans end at the first *)
(* entry that cannot beat p.                                               *)
(***************************************************************************)
Reaches(chain, i, key, p) ==
  /\ i \in DOMAIN chain /\ chain[i].key = key
  /\ \A j \in 1 .. i : p < chain[j].max_priority
  /\ \A j \in 1 .. i - 1 : chain[j].key # key

Hits(list, k, M, p) ==
  /\ k \in DOMAIN list /\ list[k] \in M
  /\ \A j \in 1 .. k : p < Prio[list[j]]
  /\ \A j \in 1 .. k - 1 : list[j] \notin M

Hit(hash, key, M, p) ==
  LET chain == hash_node_arr[Index(hash)]
  IN  {r \in M : \E i \in DOMAIN chain : \E k \in DOMAIN chain[i].rules :
                   /\ Reaches(chain, i, key, p)
                   /\ Hits(chain[i].rules, k, M, p)
                   /\ chain[i].rules[k] = r}

----------------------------------------------------------------------------
(***************************************************************************)
(* Properties.                                                             *)
(***************************************************************************)

\* Types of the table's fields and of the call in progress (hashtable.h:15-24).
TypeOK ==
  /\ mask \in Nat
  /\ hash_node_arr \in [0 .. mask -> Seq(Node)]
  /\ hash_node_num \in Nat /\ max_hash_node_num \in Nat /\ max_priority \in Nat
  /\ pc \in {"idle", "link", "resize", "finish"}
  /\ op \in [kind : {"none", "insert", "collide", "refused", "delete"}, rule : Rules]
  /\ hand \in Node
  /\ DOMAIN origin \subseteq Nat /\ origin \in [DOMAIN origin -> Seq(Node)]
  /\ ret \in {-1, 0, 1}

\* Every chain descends in max_priority, in the new array and in what is left
\* of the old one: what lets a lookup stop early (hashtable.cpp:26-40).
ChainOrdered(chain) ==
  \A i, j \in DOMAIN chain : i < j => chain[i].max_priority >= chain[j].max_priority
ChainsOrdered ==
  /\ \A b \in DOMAIN hash_node_arr : ChainOrdered(hash_node_arr[b])
  /\ \A b \in DOMAIN origin : ChainOrdered(origin[b])

\* Every node outside a call holds at least one rule, its list strictly
\* descends in priority (so no rule is in it twice), all its rules have its
\* key and hash, and its cached max_priority is that of its best rule
\* (hashnode.cpp:20-28, 48-66, 116-136).
Descending(list) == \A i, j \in DOMAIN list : i < j => Prio[list[i]] > Prio[list[j]]
NodeSound(n) ==
  /\ n.rules # <<>>
  /\ Descending(n.rules)
  /\ \A r \in Elements(n.rules) : KeyOf[r] = n.key /\ HashOf[r] = n.hash
  /\ n.max_priority = HeadPriority(n.rules)
NodesSound == /\ \A n \in NodesOf(hash_node_arr) \cup NodesOf(origin) : NodeSound(n)
              /\ pc \in {"link", "resize"} => NodeSound(hand)

\* Every node is in the chain its hash asks for under the current mask, so a
\* lookup or a delete looks for it where it is, before and after a doubling.
Placed == \A b \in DOMAIN hash_node_arr :
            \A i \in DOMAIN hash_node_arr[b] : Index(hash_node_arr[b][i].hash) = b

\* No two nodes have the same key, wherever they are in the middle of a call:
\* PickHashNode finds the only one, and no rule is stored twice.
KeysOnce(arr) ==
  \A b, c \in DOMAIN arr : \A i \in DOMAIN arr[b], j \in DOMAIN arr[c] :
    arr[b][i].key = arr[c][j].key => b = c /\ i = j
OneNodePerKey ==
  /\ KeysOnce(hash_node_arr) /\ KeysOnce(origin)
  /\ Keys(hash_node_arr) \cap Keys(origin) = {}
  /\ pc \in {"link", "resize"} => hand.key \notin Keys(hash_node_arr) \cup Keys(origin)

\* hash_node_num counts the nodes of the chains at every step of every call,
\* failed deletes and doublings included (hashtable.cpp:22, 54, 68).
CountExact == hash_node_num = Cardinality(Keys(hash_node_arr))

\* The structure every search rests on, in the middle of a doubling too.
TableSound == ChainsOrdered /\ NodesSound /\ Placed /\ OneNodePerKey /\ CountExact

\* The load never passes 85%, and InsertHashNode never finds the table full
\* again while a doubling moves the nodes (hashtable.cpp:20-21, 82).
LoadBounded ==
  /\ 100 * hash_node_num <= 85 * (mask + 1)
  /\ pc = "resize" => hash_node_num < max_hash_node_num

\* Between calls no stored rule is better than max_priority, by which a lookup
\* decides to skip the whole table (hashtable.cpp:96, 117, 137-142): failed
\* deletes may leave it too high, which costs a wasted probe, never too low.
MaxCovers == pc = "idle" => \A r \in Stored : Prio[r] <= max_priority

\* When callers delete only what is stored, max_priority is exactly the best
\* stored priority, or 0 in an empty table (hashtable.cpp:137-142).
MaxExact == pc = "idle" => \/ Careless
                           \/ /\ \A r \in Stored : Prio[r] <= max_priority
                              /\ max_priority \in {0} \cup {Prio[r] : r \in Stored}

\* And then no delete ever fails: the rule is found in the chain and in the node
\* where it is looked for, after every history of inserts, refusals, deletes
\* and doublings (hashtable.cpp:125-131).
DeleteFinds == Careless \/ ret # 1

\* A lookup that comes with priority p leaves with the best of p and the
\* stored rules that match: neither early end of a scan hides a better rule.
ProbeExact ==
  pc = "idle" =>
    \A r \in Rules, p \in {0} \cup {Prio[q] : q \in Rules} :
      \A M \in SUBSET {q \in Rules : KeyOf[q] = KeyOf[r]} :
        Hit(HashOf[r], KeyOf[r], M, p) =
          {q \in Stored \cap M : Prio[q] > p /\ \A s \in Stored \cap M : Prio[s] <= Prio[q]}

\* Every call returns: in particular a doubling always makes room.
CallReturns == pc # "idle" ~> pc = "idle"

\* The table implements a set of rules (module RuleStore), whatever the calls.
Store == INSTANCE RuleStore WITH stored <- Stored
StoreSpec == Store!Spec
=============================================================================
