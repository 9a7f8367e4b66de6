---------------------------- MODULE DynamicTuple ----------------------------
(***************************************************************************)
(* dynamictuple/dynamictuple.cpp: the classifier whose tuples come from a  *)
(* partition of the grid of prefix lengths (module DtRanges computes it).  *)
(* All rules whose lengths are in one range share the tuple of the range's *)
(* least lengths; a tuple is allocated by the first rule of its range and  *)
(* freed by the delete of the last.                                        *)
(*                                                                         *)
(* Callers delete only rules that are stored and insert only others, as    *)
(* runUpdate does (main.cpp:165-168); Create's insertion of all rules is a *)
(* sequence of inserts.  Tuples are named by their keys in the map, which  *)
(* they keep for life.  A tuple's hash table is a set of rules (module     *)
(* HashTable).  addTuple, step, InsertRuleTuple and DeleteRuleTuple have   *)
(* no caller, and Reconstruct returns at once: nothing sets method_name.   *)
(***************************************************************************)
EXTENDS TupleKey, FiniteSets

CONSTANTS
  Prio,        \* Prio[r]: rule->priority
  Partitions,  \* the partitions DynamicTupleRanges may return
  InitTuples   \* the first capacity of tuples_arr, 16 in the code

TupleRange == [x1 : Nat, y1 : Nat, x2 : Nat, y2 : Nat]

\* prefix_down: the least lengths of the range the rule's lengths are in
Covers(g, r) == /\ g.x1 <= PrefixLen[r][0] /\ PrefixLen[r][0] <= g.x2
                /\ g.y1 <= PrefixLen[r][1] /\ PrefixLen[r][1] <= g.y2

ASSUME DynamicAssumption ==
  /\ IsFiniteSet(Rules)
  /\ Prio \in [Rules -> Nat \ {0}]
  /\ \A r, q \in Rules : Prio[r] = Prio[q] => r = q
  /\ {0, 1} \subseteq Fields
  /\ \A r \in Rules : PrefixLen[r][1] < 2 ^ 6   \* addresses have 32 bits
  /\ Width[0] + Width[1] <= KeyBits               \* and keys 64: every shape fits
  /\ \A r \in Rules, f \in {0, 1} : ValueFits(r, f)
  /\ \A P \in Partitions :
       /\ P \subseteq TupleRange
       /\ \A r \in Rules : \E g \in P : Covers(g, r)
       /\ \A r \in Rules : \A g, h \in P : Covers(g, r) /\ Covers(h, r) => g = h
  /\ InitTuples \in Nat \ {0}

VARIABLES
  tuple_ranges,
  tuples_map,      \* from keys to tuples
  tuples_arr,      \* the keys of the tuples in the array; tuples_num is its length
  max_tuples_num,
  rules_num,
  max_priority,
  scan,            \* the lookup in progress, or NoScan
  answer           \* the packet and the result of a lookup, until the next update

vars == <<tuple_ranges, tuples_map, tuples_arr, max_tuples_num, rules_num,
          max_priority, scan, answer>>
store == <<tuples_map, tuples_arr, max_tuples_num, rules_num, max_priority>>

Tuple == [shape : Shape, rules : SUBSET Rules, rules_num : Nat, max_priority : Nat]
NewTuple(x, y) == [shape |-> [used_field |-> <<0, 1>>, prefix_len |-> <<x, y>>],
                   rules |-> {}, rules_num |-> 0, max_priority |-> 0]

NoScan == [packet |-> <<>>, tuples |-> 0, priority |-> 0]

Elements(list) == {list[i] : i \in DOMAIN list}
Stored == UNION {tuples_map[k].rules : k \in DOMAIN tuples_map}

\* the highest of the priorities of the rules in S and 0
Best(S) == CHOOSE m \in {0} \cup {Prio[r] : r \in S} : \A r \in S : Prio[r] <= m

Init ==
  /\ tuple_ranges \in Partitions
  /\ tuples_map = [k \in {} |-> NewTuple(0, 0)]
  /\ tuples_arr = <<>>
  /\ max_tuples_num = InitTuples
  /\ rules_num = 0
  /\ max_priority = 0
  /\ scan = NoScan
  /\ answer = <<>>

----------------------------------------------------------------------------
(***************************************************************************)
(* The tuple of a rule and the order of the tuples.                        *)
(***************************************************************************)
RangeOf(r) == CHOOSE g \in tuple_ranges : Covers(g, r)

\* mutant: the shift is missing
PrefixPairNarrow(r) == RangeOf(r).x1 + RangeOf(r).y1

\* prefix_src << 6 | prefix_dst
PrefixPair(r) == RangeOf(r).x1 * 2 ^ 6 + RangeOf(r).y1

TupleInsert(T, r) ==
  [T EXCEPT !.rules = @ \cup {r},
            !.rules_num = @ + 1,
            !.max_priority = IF Prio[r] > @ THEN Prio[r] ELSE @]

TupleDelete(T, r) ==
  [T EXCEPT !.rules = @ \ {r},
            !.rules_num = @ - 1,
            !.max_priority = IF Prio[r] = @ THEN Best(T.rules \ {r}) ELSE @]

\* best priorities descend along s; m is the map of the tuples
Descends(m, s) ==
  \A i, j \in DOMAIN s : i < j => m[s[i]].max_priority >= m[s[j]].max_priority

\* SortTuples: std::sort leaves the order of equal elements open
Permuted(list) ==
  LET D == DOMAIN list
  IN  {[i \in D |-> list[pi[i]]] : pi \in {f \in [D -> D] : Elements(f) = D}}
Sorted(m, list) == {s \in Permuted(list) : Descends(m, s)}

----------------------------------------------------------------------------
(***************************************************************************)
(* Updates.                                                                *)
(***************************************************************************)

\* InsertRule once the rule's tuple is in the array arr and r in it, in the map m
Settle(m, arr, r) ==
  /\ tuples_map' = m
  /\ IF Prio[r] = m[PrefixPair(r)].max_priority
     THEN tuples_arr' \in Sorted(m, arr) ELSE tuples_arr' = arr
  /\ rules_num' = rules_num + 1
  /\ max_priority' = IF Prio[r] > max_priority THEN Prio[r] ELSE max_priority

InsertOld(r) ==
  /\ PrefixPair(r) \in DOMAIN tuples_map
  /\ Settle([tuples_map EXCEPT ![PrefixPair(r)] = TupleInsert(@, r)], tuples_arr, r)
  /\ UNCHANGED max_tuples_num

\* InsertTuple doubles a full array
InsertNew(r) ==
  LET k == PrefixPair(r)
      T == TupleInsert(NewTuple(RangeOf(r).x1, RangeOf(r).y1), r)
  IN  /\ k \notin DOMAIN tuples_map
      /\ Settle([j \in DOMAIN tuples_map \cup {k} |-> IF j = k THEN T ELSE tuples_map[j]],
                Append(tuples_arr, k), r)
      /\ max_tuples_num' = IF Len(tuples_arr) = max_tuples_num
                           THEN 2 * max_tuples_num ELSE max_tuples_num

InsertRule(r) ==
  /\ scan = NoScan /\ r \notin Stored
  /\ InsertOld(r) \/ InsertNew(r)
  /\ answer' = <<>>
  /\ UNCHANGED <<tuple_ranges, scan>>

\* mutant: an emptied tuple is dropped without a sort
DeleteLastUnsorted(r) ==
  LET k == PrefixPair(r) IN
  /\ tuples_map[k].rules_num = 1
  /\ tuples_arr' = SubSeq(tuples_arr, 1, Len(tuples_arr) - 1)
  /\ tuples_map' = [j \in DOMAIN tuples_map \ {k} |-> tuples_map[j]]
  /\ UNCHANGED max_priority

(***************************************************************************)
(* The delete that empties a tuple sorts, drops the last entry of the      *)
(* array, erases the tuple from the map and frees it; it returns before    *)
(* max_priority is looked at.                                              *)
(***************************************************************************)
DeleteLast(r) ==
  LET k == PrefixPair(r)
      m == [tuples_map EXCEPT ![k] = [TupleDelete(@, r) EXCEPT !.max_priority = 0]]
  IN  /\ tuples_map[k].rules_num = 1
      /\ \E s \in Sorted(m, tuples_arr) : tuples_arr' = SubSeq(s, 1, Len(s) - 1)
      /\ tuples_map' = [j \in DOMAIN tuples_map \ {k} |-> tuples_map[j]]
      /\ UNCHANGED max_priority

DeleteOne(r) ==
  LET k == PrefixPair(r)
      m == [tuples_map EXCEPT ![k] = TupleDelete(@, r)]
  IN  /\ tuples_map[k].rules_num # 1
      /\ tuples_map' = m
      /\ IF Prio[r] > m[k].max_priority
         THEN tuples_arr' \in Sorted(m, tuples_arr) ELSE UNCHANGED tuples_arr
      /\ max_priority' = IF Prio[r] = max_priority
                         THEN m[tuples_arr'[1]].max_priority ELSE max_priority

DeleteRule(r) ==
  /\ scan = NoScan
  /\ PrefixPair(r) \in DOMAIN tuples_map
  /\ r \in tuples_map[PrefixPair(r)].rules
  /\ DeleteOne(r) \/ DeleteLast(r)
  /\ rules_num' = rules_num - 1
  /\ answer' = <<>>
  /\ UNCHANGED <<tuple_ranges, max_tuples_num, scan>>

----------------------------------------------------------------------------
(***************************************************************************)
(* Lookup, one step for each tuple probed; LookupAccess is the same loop   *)
(* and counts.                                                             *)
(***************************************************************************)
LookupStart(p) ==
  /\ scan = NoScan
  /\ scan' = [NoScan EXCEPT !.packet = p]
  /\ UNCHANGED <<tuple_ranges, store, answer>>

NextTuple == tuples_map[tuples_arr[scan.tuples + 1]]
ScanOver == scan.tuples < Len(tuples_arr) => scan.priority >= NextTuple.max_priority

\* the rules of tuple T that match p and are better than x: all in one node
Hits(T, p, x) ==
  {r \in T.rules : /\ RuleKey(r, T.shape) = PacketKey(p, T.shape)
                   /\ Matches(r, p)
                   /\ Prio[r] > x}

LookupProbe ==
  /\ scan # NoScan /\ ~ScanOver
  /\ LET hits == Hits(NextTuple, scan.packet, scan.priority) IN
     scan' = [scan EXCEPT !.tuples = @ + 1,
                          !.priority = IF hits = {} THEN @ ELSE Best(hits)]
  /\ UNCHANGED <<tuple_ranges, store, answer>>

LookupEnd ==
  /\ scan # NoScan /\ ScanOver
  /\ answer' = <<scan.packet, scan.priority>>
  /\ scan' = NoScan
  /\ UNCHANGED <<tuple_ranges, store>>

Next == \/ \E r \in Rules : InsertRule(r) \/ DeleteRule(r)
        \/ \E p \in Packets : LookupStart(p)
        \/ LookupProbe \/ LookupEnd

Spec == Init /\ [][Next]_vars

----------------------------------------------------------------------------
(***************************************************************************)
(* Properties.                                                             *)
(***************************************************************************)

\* Types of the members (dynamictuple.h:36-55): every entry of the array is a
\* tuple that has not been freed, and the array never outgrows its allocation.
TypeOK ==
  /\ tuple_ranges \subseteq TupleRange
  /\ \A k \in DOMAIN tuples_map : k \in Nat /\ tuples_map[k] \in Tuple
  /\ tuples_arr \in Seq(DOMAIN tuples_map)
  /\ max_tuples_num \in Nat /\ Len(tuples_arr) <= max_tuples_num
  /\ rules_num \in Nat /\ max_priority \in Nat
  /\ scan = NoScan \/ scan \in [packet : Packets, tuples : 0 .. Len(tuples_arr), priority : Nat]

\* The array lists the tuples of the map, each once, in descending order: the
\* entry dropped by the delete that empties a tuple is that tuple (l.204-210).
ArrayExact ==
  /\ Elements(tuples_arr) = DOMAIN tuples_map
  /\ Len(tuples_arr) = Cardinality(DOMAIN tuples_map)
  /\ Descends(tuples_map, tuples_arr)

\* A tuple is not empty, holds the stored rules of its range and no other, all of
\* which fit it, and its caches are exact; the rule count is exact too.
TuplesExact ==
  /\ \A k \in DOMAIN tuples_map :
       LET T == tuples_map[k] IN
       /\ T.rules # {} /\ T.rules = {r \in Stored : PrefixPair(r) = k}
       /\ \A r \in T.rules : Fits(r, T.shape)
       /\ T.rules_num = Cardinality(T.rules)
       /\ T.max_priority = Best(T.rules)
  /\ rules_num = Cardinality(Stored)

\* max_priority is never too low; the delete that empties a tuple may leave it
\* too high (l.204-212).
MaxCovers == \A r \in Stored : Prio[r] <= max_priority

\* What updates and lookups rest on.
TuplesSound == TypeOK /\ ArrayExact /\ TuplesExact /\ MaxCovers

\* DynamicTuple implements the classifier, whatever the partition.
Abstract == INSTANCE Classifier WITH stored <- Stored
ClassifierSpec == Abstract!Spec
=============================================================================
