------------------------------- MODULE RLTuple -------------------------------
(***************************************************************************)
(* RLTuple/rltuple.cpp: the classifier whose tuples the learning agent     *)
(* chooses.  Rules go to the least specific acceptable tuple, tuples are   *)
(* kept in descending order of the best priority they hold, and a lookup   *)
(* probes them in that order until no later one can beat what it has.      *)
(*                                                                         *)
(* A tuple is its shape, the set of its rules and the two numbers it       *)
(* caches.  What its hash table does with the rules is module HashTable's  *)
(* subject; here the table is what that module shows it to be, a set whose *)
(* rules of one key share a node.  It is one as long as the key tells      *)
(* which bucket a rule is in, and so the bits of every shape must fit the  *)
(* key and the values of the rules their fields: of a wider shape, which   *)
(* addTuple takes as well, a stored rule may not be found by its delete    *)
(* (module MCWideKey).  Tuples are never freed before the whole classifier *)
(* is, so pointers are indices into the list of allocations.               *)
(*                                                                         *)
(* A lookup is a loop over the tuples, one step for each tuple probed.     *)
(* LookupAccess, LookupAccessWithClock and LookupACcnt run the same loop   *)
(* and count; their number of tuples is the counter of the loop.           *)
(***************************************************************************)
EXTENDS TupleKey, FiniteSets

CONSTANTS
  Prio,        \* Prio[r]: rule->priority
  Shapes,      \* the shapes callers give to addTuple
  Collide,     \* collide_thresh, 15 in the code
  InitTuples,  \* the first capacity of tuples_arr, 16 in the code
  MaxTuples,   \* bound: addTuple is called at most so often
  Careless,    \* may a caller delete a rule it has not inserted?
  MaxDrift     \* bound: a delete fails only while rules_num counts fewer lost rules

\* the fields and lengths of the tuple that takes what no other one accepts
Default == [used_field |-> <<0>>, prefix_len |-> <<0>>]

ASSUME ClassifierAssumption ==
  /\ IsFiniteSet(Rules)
  /\ Prio \in [Rules -> Nat \ {0}]
  /\ \A r, q \in Rules : Prio[r] = Prio[q] => r = q
  /\ Shapes \subseteq Shape
  /\ \A s \in Shapes : s.used_field # <<>> /\ Len(s.used_field) = Len(s.prefix_len)
  /\ \A s \in Shapes : FitsKey(s)
  /\ \A r \in Rules, f \in Fields : ValueFits(r, f)
  /\ Collide \in Nat \ {0}
  /\ InitTuples \in Nat \ {0}
  /\ MaxTuples \in Nat
  /\ Careless \in BOOLEAN
  /\ MaxDrift \in Nat

NULL == 0

VARIABLES
  tuple,           \* the tuples in the order of their allocation
  tuples_arr,      \* their order in the array; tuples_num is its length
  max_tuples_num,
  id2tuple,        \* for each rule that has an entry, its tuple or NULL
  rules_num,
  max_priority,
  scan,            \* the lookup in progress, or NoScan
  answer           \* the packet and the result of a lookup, until the next update

vars == <<tuple, tuples_arr, max_tuples_num, id2tuple, rules_num, max_priority,
          scan, answer>>
store == <<tuple, tuples_arr, max_tuples_num, id2tuple, rules_num, max_priority>>

Tuple == [shape : Shapes \cup {Default}, rules : SUBSET Rules,
          rules_num : Nat, max_priority : Nat]
NewTuple(s) == [shape |-> s, rules |-> {}, rules_num |-> 0, max_priority |-> 0]

NoScan == [packet |-> <<>>, tuples |-> 0, priority |-> 0]

Elements(list) == {list[i] : i \in DOMAIN list}
Stored == UNION {tuple[t].rules : t \in DOMAIN tuple}

\* the highest of the priorities of the rules in S and 0
Best(S) == CHOOSE m \in {0} \cup {Prio[r] : r \in S} : \A r \in S : Prio[r] <= m

Init ==
  /\ tuple = <<>>
  /\ tuples_arr = <<>>
  /\ max_tuples_num = InitTuples
  /\ id2tuple = [r \in {} |-> NULL]
  /\ rules_num = 0
  /\ max_priority = 0
  /\ scan = NoScan
  /\ answer = <<>>

----------------------------------------------------------------------------
(***************************************************************************)
(* Operations of one tuple.                                                *)
(***************************************************************************)

\* the rules of T that are in the hash node r belongs to
Group(T, r) == {q \in T.rules : RuleKey(q, T.shape) = RuleKey(r, T.shape)}

\* InsertRuleRLWithCollide refuses a rule whose node is full
Accepts(T, r) == Cardinality(Group(T, r)) < Collide

\* InsertRuleRL, and InsertRuleRLWithCollide of a rule the tuple accepts
TupleInsert(T, r) ==
  [T EXCEPT !.rules = @ \cup {r},
            !.rules_num = @ + 1,
            !.max_priority = IF Prio[r] > @ THEN Prio[r] ELSE @]

\* mutants: the best priority is not looked for again, the whole node goes
TupleDeleteStale(T, r) == [T EXCEPT !.rules = @ \ {r}, !.rules_num = @ - 1]
TupleDeleteNode(T, r) ==
  [T EXCEPT !.rules = @ \ Group(T, r),
            !.rules_num = @ - 1,
            !.max_priority = IF Prio[r] = @ THEN Best(T.rules \ Group(T, r)) ELSE @]

\* DeleteRuleRL of a rule the tuple holds, whose shape fits the key
TupleDelete(T, r) ==
  [T EXCEPT !.rules = @ \ {r},
            !.rules_num = @ - 1,
            !.max_priority = IF Prio[r] = @ THEN Best(T.rules \ {r}) ELSE @]

\* DeleteRuleRL of a rule the tuple does not hold: the node is lost and the
\* call returns before it touches the two numbers
TupleLose(T, r) == [T EXCEPT !.rules = @ \ Group(T, r)]

----------------------------------------------------------------------------
(***************************************************************************)
(* The array of tuples.                                                    *)
(***************************************************************************)

\* s lists the same tuples as arr
Rearranges(s, arr) == Len(s) = Len(arr) /\ Elements(s) = Elements(arr)

\* best priorities descend along s; h is the heap of tuples
Descends(h, s) ==
  \A i, j \in DOMAIN s : i < j => h[s[i]].max_priority >= h[s[j]].max_priority

\* SortTuples: std::sort leaves the order of equal elements open
SortTuples(h, arr) ==
  \E s \in [DOMAIN arr -> Elements(arr)] :
    Rearranges(s, arr) /\ Descends(h, s) /\ tuples_arr' = s

\* mutant: InsertTuple does not look whether there is room
CapacityKept(n) == max_tuples_num

\* the capacity after InsertTuple into an array of n tuples
Capacity(n) == IF n = max_tuples_num THEN 2 * max_tuples_num ELSE max_tuples_num

addTuple(s) ==
  /\ scan = NoScan /\ Len(tuple) < MaxTuples
  /\ tuple' = Append(tuple, NewTuple(s))
  /\ tuples_arr' = Append(tuples_arr, Len(tuple) + 1)
  /\ max_tuples_num' = Capacity(Len(tuples_arr))
  /\ UNCHANGED <<id2tuple, rules_num, max_priority, scan, answer>>

----------------------------------------------------------------------------
(***************************************************************************)
(* InsertRule.                                                             *)
(***************************************************************************)

\* mutants: sort only for the best rule of all, keep the last priority as the best
SettleRarely(h, arr, t, r) ==
  /\ tuple' = h
  /\ IF Prio[r] > max_priority THEN SortTuples(h, arr) ELSE tuples_arr' = arr
  /\ rules_num' = rules_num + 1
  /\ max_priority' = IF Prio[r] > max_priority THEN Prio[r] ELSE max_priority
  /\ answer' = <<>>
  /\ UNCHANGED scan
SettleLast(h, arr, t, r) ==
  /\ tuple' = h
  /\ IF Prio[r] = h[t].max_priority THEN SortTuples(h, arr) ELSE tuples_arr' = arr
  /\ rules_num' = rules_num + 1
  /\ max_priority' = Prio[r]
  /\ answer' = <<>>
  /\ UNCHANGED scan

\* what all its branches do once r is in tuple t of the heap h, the array being arr
Settle(h, arr, t, r) ==
  /\ tuple' = h
  /\ IF Prio[r] = h[t].max_priority THEN SortTuples(h, arr) ELSE tuples_arr' = arr
  /\ rules_num' = rules_num + 1
  /\ max_priority' = IF Prio[r] > max_priority THEN Prio[r] ELSE max_priority
  /\ answer' = <<>>
  /\ UNCHANGED scan

PutInto(t, r) == Settle([tuple EXCEPT ![t] = TupleInsert(@, r)], tuples_arr, t, r)

\* mutant: a returning rule goes to any tuple it fits, its entry stays
InsertKnownAnywhere(r) ==
  /\ r \in DOMAIN id2tuple /\ id2tuple[r] # NULL
  /\ \E t \in DOMAIN tuple : Fits(r, tuple[t].shape) /\ PutInto(t, r)
  /\ UNCHANGED <<max_tuples_num, id2tuple>>

(***************************************************************************)
(* A rule with an entry in id2tuple goes where it was, with no limit on    *)
(* the size of its node.  (An entry that is NULL, left by a delete of an   *)
(* unknown rule, is dereferenced: no step.)                                *)
(***************************************************************************)
InsertKnown(r) ==
  /\ r \in DOMAIN id2tuple /\ id2tuple[r] # NULL
  /\ PutInto(id2tuple[r], r)
  /\ UNCHANGED <<max_tuples_num, id2tuple>>

\* tuples2insert
Candidates(r) == {t \in DOMAIN tuple : Fits(r, tuple[t].shape)}

(***************************************************************************)
(* The candidates are tried in ascending order of Slack, equal ones in any *)
(* order, and a refusal changes nothing: the rule goes to one of least     *)
(* Slack among those that accept it.                                       *)
(***************************************************************************)
Chosen(r) ==
  LET accepting == {t \in Candidates(r) : Accepts(tuple[t], r)}
  IN  {t \in accepting : \A u \in accepting :
                           Slack(r, tuple[t].shape) <= Slack(r, tuple[u].shape)}

Remember(r, t) ==
  id2tuple' = [q \in DOMAIN id2tuple \cup {r} |-> IF q = r THEN t ELSE id2tuple[q]]

InsertChosen(r) ==
  /\ r \notin DOMAIN id2tuple
  /\ \E t \in Chosen(r) : PutInto(t, r) /\ Remember(r, t)
  /\ UNCHANGED max_tuples_num

\* default_tuple: the last candidate of the array whose first length is 0
IsDefault(i, r) ==
  /\ tuples_arr[i] \in Candidates(r)
  /\ tuple[tuples_arr[i]].shape.prefix_len[1] = 0

InsertDefault(r) ==
  /\ r \notin DOMAIN id2tuple /\ Chosen(r) = {}
  /\ \E i \in DOMAIN tuples_arr :
       /\ IsDefault(i, r)
       /\ \A j \in DOMAIN tuples_arr : i < j => ~IsDefault(j, r)
       /\ PutInto(tuples_arr[i], r)
       /\ Remember(r, tuples_arr[i])
  /\ UNCHANGED max_tuples_num

InsertNewDefault(r) ==
  /\ r \notin DOMAIN id2tuple /\ Chosen(r) = {}
  /\ \A i \in DOMAIN tuples_arr : ~IsDefault(i, r)
  /\ LET t == Len(tuple) + 1 IN
     /\ Settle(Append(tuple, TupleInsert(NewTuple(Default), r)), Append(tuples_arr, t), t, r)
     /\ Remember(r, t)
  /\ max_tuples_num' = Capacity(Len(tuples_arr))

InsertRule(r) ==
  /\ scan = NoScan /\ r \notin Stored
  /\ InsertKnown(r) \/ InsertChosen(r) \/ InsertDefault(r) \/ InsertNewDefault(r)

----------------------------------------------------------------------------
(***************************************************************************)
(* DeleteRule.                                                             *)
(***************************************************************************)
DeleteRule(r) ==
  /\ scan = NoScan /\ r \in DOMAIN id2tuple /\ id2tuple[r] # NULL
  /\ LET t == id2tuple[r]
         T == TupleDelete(tuple[t], r)
         emptied == T.rules_num = 0
         h == [tuple EXCEPT ![t] = IF emptied THEN [T EXCEPT !.max_priority = 0] ELSE T]
     IN
     /\ r \in tuple[t].rules
     /\ tuple' = h
     /\ IF emptied \/ Prio[r] > T.max_priority
        THEN SortTuples(h, tuples_arr) ELSE UNCHANGED tuples_arr
     /\ max_priority' = IF ~emptied /\ Prio[r] = max_priority
                        THEN h[tuples_arr'[1]].max_priority ELSE max_priority
  /\ rules_num' = rules_num - 1
  /\ answer' = <<>>
  /\ UNCHANGED <<max_tuples_num, id2tuple, scan>>

\* a rule that is no longer stored: its tuple's table loses the node of its key
DeleteAgain(r) ==
  /\ Careless /\ scan = NoScan /\ rules_num - Cardinality(Stored) < MaxDrift
  /\ r \in DOMAIN id2tuple /\ id2tuple[r] # NULL
  /\ r \notin tuple[id2tuple[r]].rules
  /\ tuple' = [tuple EXCEPT ![id2tuple[r]] = TupleLose(@, r)]
  /\ answer' = <<>>
  /\ UNCHANGED <<tuples_arr, max_tuples_num, id2tuple, rules_num, max_priority, scan>>

\* id2tuple[rule->priority] makes a NULL entry for a rule never inserted
DeleteUnknown(r) ==
  /\ Careless /\ scan = NoScan
  /\ r \notin DOMAIN id2tuple
  /\ Remember(r, NULL)
  /\ UNCHANGED <<tuple, tuples_arr, max_tuples_num, rules_num, max_priority, scan, answer>>

----------------------------------------------------------------------------
(***************************************************************************)
(* Lookup.                                                                 *)
(***************************************************************************)
LookupStart(p) ==
  /\ scan = NoScan
  /\ scan' = [packet |-> p, tuples |-> 0, priority |-> 0]
  /\ UNCHANGED <<store, answer>>

\* the loop ends after the last tuple, or before one that holds nothing better
ScanOver ==
  scan.tuples < Len(tuples_arr) =>
    scan.priority >= tuple[tuples_arr[scan.tuples + 1]].max_priority

\* the rules of tuple T that match p and are better than x: all in one node
Hits(T, p, x) ==
  {r \in T.rules : /\ RuleKey(r, T.shape) = PacketKey(p, T.shape)
                   /\ Matches(r, p)
                   /\ Prio[r] > x}

LookupProbe ==
  /\ scan # NoScan /\ ~ScanOver
  /\ LET hits == Hits(tuple[tuples_arr[scan.tuples + 1]], scan.packet, scan.priority) IN
     scan' = [scan EXCEPT !.tuples = @ + 1,
                          !.priority = IF hits = {} THEN @ ELSE Best(hits)]
  /\ UNCHANGED <<store, answer>>

LookupEnd ==
  /\ scan # NoScan /\ ScanOver
  /\ answer' = <<scan.packet, scan.priority>>
  /\ scan' = NoScan
  /\ UNCHANGED store

Update == \/ \E s \in Shapes : addTuple(s)
          \/ \E r \in Rules : InsertRule(r) \/ DeleteRule(r) \/ DeleteAgain(r) \/ DeleteUnknown(r)
Lookup == LookupProbe \/ LookupEnd
Next == Update \/ (\E p \in Packets : LookupStart(p)) \/ Lookup

Spec == Init /\ [][Next]_vars

----------------------------------------------------------------------------
(***************************************************************************)
(* Other readers of the array.                                             *)
(***************************************************************************)

\* TupleNum: the tuples before the first one that is empty
TupleNum ==
  CHOOSE n \in 0 .. Len(tuples_arr) :
    /\ \A i \in 1 .. n : tuple[tuples_arr[i]].rules_num # 0
    /\ n < Len(tuples_arr) => tuple[tuples_arr[n + 1]].rules_num = 0

(***************************************************************************)
(* evaluateWithWeight estimates what a lookup costs that ends with rule r  *)
(* of the tuple at position i: tuple_index1 runs from i to the first tuple *)
(* that r's priority beats.  It is not reset between the rules of a node,  *)
(* which are visited best first.                                           *)
(***************************************************************************)
RunTo(x, from) ==
  CHOOSE k \in from .. Len(tuples_arr) :
    /\ \A j \in from + 1 .. k : x < tuple[tuples_arr[j]].max_priority
    /\ k < Len(tuples_arr) => x >= tuple[tuples_arr[k + 1]].max_priority

\* mutant: the run begins at the tuple of the rule itself
EstimatedTuplesShort(r, i) == RunTo(Prio[r], i - 1)

EstimatedTuples(r, i) ==
  LET before == {q \in Group(tuple[tuples_arr[i]], r) : Prio[q] > Prio[r]}
      starts == {i} \cup {RunTo(Prio[q], i) : q \in before}
  IN  RunTo(Prio[r], CHOOSE k \in starts : \A j \in starts : j <= k)

----------------------------------------------------------------------------
(***************************************************************************)
(* Properties.                                                             *)
(***************************************************************************)

\* Types of the fields of RlTuple (rltuple.h:38-52); tuples_arr lists every
\* tuple once and never outgrows its allocation.
TypeOK ==
  /\ tuple \in Seq(Tuple)
  /\ tuples_arr \in Seq(DOMAIN tuple)
  /\ Elements(tuples_arr) = DOMAIN tuple /\ Len(tuples_arr) = Len(tuple)
  /\ max_tuples_num \in Nat \ {0} /\ Len(tuples_arr) <= max_tuples_num
  /\ DOMAIN id2tuple \subseteq Rules
  /\ \A r \in DOMAIN id2tuple : id2tuple[r] \in DOMAIN tuple \cup {NULL}
  /\ rules_num \in Nat /\ max_priority \in Nat
  /\ scan = NoScan \/ scan \in [packet : Packets, tuples : 0 .. Len(tuples_arr), priority : Nat]

\* The array descends after every update, although InsertRule and DeleteRule
\* sort it only when they think it necessary (rltuple.cpp:77, 137, 255, 260):
\* the early end of a lookup (l.615) rests on it.
ArraySorted == Descends(tuple, tuples_arr)

\* A stored rule is in the one tuple id2tuple names, so a delete goes where
\* the rule is, whichever tuple took it (rltuple.cpp:73-75, 140, 245).
EntryExact == \A t \in DOMAIN tuple : \A r \in tuple[t].rules :
                r \in DOMAIN id2tuple /\ id2tuple[r] = t

\* A stored rule fits its tuple, also when it came back through id2tuple or
\* fell to a default tuple: packets it matches then have its key (l.92, 107).
RulesFit == \A t \in DOMAIN tuple : \A r \in tuple[t].rules : Fits(r, tuple[t].shape)

\* Together: a delete goes where the rule is, and a lookup finds it there.
RulesPlaced == EntryExact /\ RulesFit

\* With careful callers the two numbers of a tuple and rules_num are exact.
NumbersExact ==
  /\ \A t \in DOMAIN tuple : /\ tuple[t].rules_num = Cardinality(tuple[t].rules)
                             /\ tuple[t].max_priority = Best(tuple[t].rules)
  /\ rules_num = Cardinality(Stored)

\* No stored rule is better than max_priority; it may stay too high, since the
\* delete that empties a tuple returns before it is set (rltuple.cpp:252-262).
MaxCovers == \A r \in Stored : Prio[r] <= max_priority

\* TupleNum, which stops at the first empty tuple, counts all that are not:
\* runUpdate takes 0 for "not built yet" (main.cpp:98).
TupleNumExact ==
  TupleNum = Cardinality({t \in DOMAIN tuple : tuple[t].rules # {}})

\* The counters, which each update keeps up by ones, tell what is stored, as long
\* as callers delete only what is.
CountersExact == NumbersExact /\ TupleNumExact

\* evaluateWithWeight never uses the occupation of an empty tuple, a division by
\* zero (l.373), and charges a rule with the number of tuples a lookup probes.
EstimateDefined ==
  \A i \in DOMAIN tuples_arr : \A r \in tuple[tuples_arr[i]].rules :
    \A j \in 1 .. EstimatedTuples(r, i) : tuple[tuples_arr[j]].rules # {}
EstimateExact ==
  scan # NoScan /\ ScanOver =>
    \A i \in DOMAIN tuples_arr : \A r \in tuple[tuples_arr[i]].rules :
      Prio[r] = scan.priority => EstimatedTuples(r, i) = scan.tuples

\* The reward the agent learns from is defined and true, under the same condition.
EstimateSound == EstimateDefined /\ EstimateExact

\* During a lookup the best match so far is the best of the tuples probed, and
\* when it ends early nothing better is left (rltuple.cpp:612-668).
Probed == UNION {tuple[tuples_arr[i]].rules : i \in 1 .. scan.tuples}
ScanExact ==
  scan # NoScan =>
    /\ scan.priority = Best({r \in Probed : Matches(r, scan.packet)})
    /\ ScanOver => scan.priority = Best({r \in Stored : Matches(r, scan.packet)})

\* RlTuple implements the classifier: inserts and deletes change the set of
\* rules by that rule, and every lookup answers with the best match.
Abstract == INSTANCE Classifier WITH stored <- Stored
ClassifierSpec == Abstract!Spec
=============================================================================
