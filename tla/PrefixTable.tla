---------------------------- MODULE PrefixTable ----------------------------
(***************************************************************************)
(* The hash tables of the classifiers under partitionsort/: PriorityTuple  *)
(* (OVS/TupleSpaceSearch.cpp) and SlottedTable (TupleMerge).  A table has  *)
(* a prefix length for each of the two address fields, hashes what the     *)
(* lengths leave of them, chains the rules of one hash and caches its best *)
(* priority, -1 when it is empty.  priority_container, a multiset, holds   *)
(* the priorities of the rules: callers delete only rules a table has.     *)
(* The map under it is taken to be a set (CuckooMap says why).             *)
(***************************************************************************)
EXTENDS Prefix, FiniteSets

CONSTANTS
  Prio,      \* Prio[r]: rule.priority
  Hash(_)    \* of the masked values of the indexed fields

Indexed == {0, 1}   \* FieldSA and FieldDA

ASSUME TableAssumption ==
  /\ IsFiniteSet(Rules)
  /\ \A r \in Rules : Prio[r] \in Nat \ {0}
  /\ \A r, q \in Rules : Prio[r] = Prio[q] => r = q
  /\ Indexed \subseteq Fields
  /\ \A f \in Indexed : Width[f] < 2 ^ 6   \* 32 in the code
  /\ \A r \in Rules, f \in Indexed :    \* ReadRules clears the bits after a prefix
       PrefixLen[r][f] <= Width[f] /\ Lo[r][f] % 2 ^ (Width[f] - PrefixLen[r][f]) = 0

Lengths == [Indexed -> Nat]
Table == [lengths : Lengths, rules : SUBSET Rules, maxPriority : Nat \cup {-1}]
NewTable(len) == [lengths |-> len, rules |-> {}, maxPriority |-> -1]

\* the lengths of the rule in the indexed fields
LengthsOf(r) == [f \in Indexed |-> PrefixLen[r][f]]

\* the highest of the priorities of the rules in S, -1 when there is none
Top(S) == CHOOSE m \in {-1} \cup {Prio[r] : r \in S} : \A r \in S : Prio[r] <= m

\* x[f] & Mask(len[f]), for each indexed field
Masked(x, len) ==
  [f \in Indexed |-> LET rest == Width[f] - len[f] IN Shr(x[f], rest) * 2 ^ rest]

HashPacket(p, T) == Hash(Masked(p, T.lengths))
\* (PriorityTuple masks nothing here: a rule has no bits after its own lengths)
HashRule(r, T) == Hash(Masked(Lo[r], T.lengths))

\* the chain cmap_find returns for hash h
Chain(T, h) == {q \in T.rules : HashRule(q, T) = h}

Insertion(T, r) ==
  [T EXCEPT !.rules = @ \cup {r},
            !.maxPriority = IF Prio[r] > @ THEN Prio[r] ELSE @]

\* mutant: only the delete of the last rule sets the best priority again
DeletionStale(T, r) ==
  [T EXCEPT !.rules = @ \ {r}, !.maxPriority = IF T.rules = {r} THEN -1 ELSE @]

Deletion(T, r) ==
  [T EXCEPT !.rules = @ \ {r},
            !.maxPriority = IF T.rules = {r} THEN -1
                            ELSE IF Prio[r] = @ THEN Top(T.rules \ {r}) ELSE @]

\* does Deletion set priority_change?
DeletionChanges(T, r) == T.rules = {r} \/ Prio[r] = T.maxPriority

\* the best match in the chain of the packet's hash
FindMatchPacket(T, p) == Top({r \in Chain(T, HashPacket(p, T)) : Matches(r, p)})

(***************************************************************************)
(* Lists of tables in descending order of best priority.  std::sort leaves *)
(* the order of equal ones open.  h maps the elements to their tables.     *)
(***************************************************************************)
Elements(list) == {list[i] : i \in DOMAIN list}
Descends(h, s) ==
  \A i, j \in DOMAIN s : i < j => h[s[i]].maxPriority >= h[s[j]].maxPriority
Permuted(list) ==
  LET D == DOMAIN list
  IN  {[i \in D |-> list[pi[i]]] : pi \in {f \in [D -> D] : Elements(f) = D}}
Sorted(h, list) == {s \in Permuted(list) : Descends(h, s)}
=============================================================================
