------------------------ MODULE DynamicTuple_proofs ------------------------
(***************************************************************************)
(* DynamicTuple keeps its array and its map of tuples in step, its rules   *)
(* in tuples they fit, its counters exact and its lookups right, whatever  *)
(* the rules and the partition of the lengths are, and implements the      *)
(* classifier of module Classifier.                                        *)
(***************************************************************************)
EXTENDS DynamicTuple, ListLemmas

----------------------------------------------------------------------------
(***************************************************************************)
(* The best of a set of rules.                                             *)
(***************************************************************************)

IsBest(m, S) == m \in {0} \cup {Prio[r] : r \in S} /\ \A r \in S : Prio[r] <= m

LEMMA PrioType ==
  /\ \A r \in Rules : Prio[r] \in Nat /\ Prio[r] > 0
  /\ \A S \in SUBSET Rules : IsFiniteSet(S) /\ Cardinality(S) \in Nat
PROOF
  <1>1. \A r \in Rules : Prio[r] \in Nat /\ Prio[r] > 0
    BY DynamicAssumption
  <1>2. \A S \in SUBSET Rules : IsFiniteSet(S)
    BY FS_Subset, DynamicAssumption
  <1> QED BY <1>1, <1>2, FS_CardinalityType

LEMMA BestExists ==
  ASSUME NEW S \in SUBSET Rules
  PROVE  /\ IsBest(Best(S), S) /\ Best(S) \in Nat
         /\ S # {} => \E r \in S : Best(S) = Prio[r] /\ Best(S) > 0
PROOF
  <1>1. \A r \in S : Prio[r] \in Nat /\ Prio[r] > 0
    BY PrioType
  <1>2. \E m \in {0} \cup {Prio[r] : r \in S} : \A r \in S : Prio[r] <= m
    <2>1. CASE S = {}
      BY <2>1
    <2>2. CASE S # {}
      <3>1. PICK b \in S : \A r \in S : Prio[r] <= Prio[b]
        BY <1>1, <2>2, PrioType, SomeBest
      <3> QED BY <3>1
    <2> QED BY <2>1, <2>2
  <1>3. IsBest(Best(S), S)
    BY <1>2 DEF IsBest, Best
  <1>4. Best(S) \in Nat
    BY <1>1, <1>3 DEF IsBest
  <1>5. ASSUME S # {} PROVE \E r \in S : Best(S) = Prio[r] /\ Best(S) > 0
    <2>1. PICK q \in S : Prio[q] <= Best(S)
      BY <1>3, <1>5 DEF IsBest
    <2>2. Best(S) > 0
      BY <1>1, <1>4, <2>1
    <2> QED BY <1>3, <2>2 DEF IsBest
  <1> QED BY <1>3, <1>4, <1>5

LEMMA BestUnique ==
  ASSUME NEW S \in SUBSET Rules, NEW m, IsBest(m, S)
  PROVE  m = Best(S)
PROOF
  <1>1. IsBest(Best(S), S)
    BY BestExists
  <1>2. \A r \in S : Prio[r] \in Nat /\ Prio[r] > 0
    BY PrioType
  <1> QED BY <1>1, <1>2 DEF IsBest

----------------------------------------------------------------------------
(***************************************************************************)
(* The range of a rule, its key and its shape.                             *)
(***************************************************************************)

RangesGood == tuple_ranges \in Partitions

\* the shape of the tuples made for the range of rule r
ShapeOf(r) == NewTuple(RangeOf(r).x1, RangeOf(r).y1).shape

LEMMA RangeProps ==
  ASSUME RangesGood, NEW r \in Rules
  PROVE  /\ RangeOf(r).x1 \in Nat /\ RangeOf(r).y1 \in Nat /\ RangeOf(r).y1 < 64
         /\ Covers(RangeOf(r), r)
         /\ PrefixPair(r) = RangeOf(r).x1 * 64 + RangeOf(r).y1 /\ PrefixPair(r) \in Nat
PROOF
  <1>1. /\ tuple_ranges \subseteq TupleRange /\ \E g \in tuple_ranges : Covers(g, r)
        /\ PrefixLen[r][1] < 2 ^ 6 /\ 1 \in Fields
    BY DynamicAssumption DEF RangesGood
  <1>2. RangeOf(r) \in TupleRange /\ Covers(RangeOf(r), r)
    BY <1>1 DEF RangeOf
  <1>3. RangeOf(r).x1 \in Nat /\ RangeOf(r).y1 \in Nat
    BY <1>2 DEF TupleRange
  <1>4. 2 ^ 6 = 64
    OBVIOUS
  <1>5. PrefixLen[r][1] \in Nat
    BY <1>1, PrefixAssumption
  <1>6. RangeOf(r).y1 < 64
    BY <1>1, <1>2, <1>3, <1>4, <1>5 DEF Covers
  <1>7. PrefixPair(r) = RangeOf(r).x1 * 64 + RangeOf(r).y1
    BY <1>4 DEF PrefixPair
  <1> QED BY <1>2, <1>3, <1>6, <1>7

\* One key, one shape: the least lengths can be read from the key.
LEMMA KeyShape ==
  ASSUME RangesGood, NEW r \in Rules, NEW q \in Rules, PrefixPair(r) = PrefixPair(q)
  PROVE  ShapeOf(r) = ShapeOf(q)
PROOF
  <1>1. RangeOf(r).x1 = RangeOf(q).x1 /\ RangeOf(r).y1 = RangeOf(q).y1
    BY RangeProps
  <1> QED BY <1>1 DEF ShapeOf

LEMMA ShapeType ==
  ASSUME RangesGood, NEW r \in Rules
  PROVE  /\ ShapeOf(r) \in Shape /\ Fits(r, ShapeOf(r))
         /\ DOMAIN ShapeOf(r).used_field = DOMAIN ShapeOf(r).prefix_len
         /\ \A j \in DOMAIN ShapeOf(r).used_field :
              /\ ShapeOf(r).used_field[j] \in Fields
              /\ ShapeOf(r).prefix_len[j] \in Nat
PROOF
  <1> DEFINE x == RangeOf(r).x1  y == RangeOf(r).y1
  <1>1. x \in Nat /\ y \in Nat /\ Covers(RangeOf(r), r)
    BY RangeProps
  <1>2. ShapeOf(r) = [used_field |-> <<0, 1>>, prefix_len |-> <<x, y>>]
    BY DEF ShapeOf, NewTuple
  <1>3. 0 \in Fields /\ 1 \in Fields
    BY DynamicAssumption
  <1>4. PrefixLen[r][0] >= x /\ PrefixLen[r][1] >= y
    <2>1. PrefixLen[r][0] \in Nat /\ PrefixLen[r][1] \in Nat
      BY <1>3, PrefixAssumption
    <2> QED BY <1>1, <2>1 DEF Covers
  <1> HIDE DEF x, y
  <1>5. ShapeOf(r) \in Shape
    BY <1>1, <1>2, <1>3 DEF Shape
  <1>6. DOMAIN <<0, 1>> = {1, 2} /\ DOMAIN <<x, y>> = {1, 2}
    OBVIOUS
  <1>7. Fits(r, ShapeOf(r))
    BY <1>2, <1>4, <1>6 DEF Fits
  <1> QED BY <1>1, <1>2, <1>3, <1>5, <1>6, <1>7

\* A rule that fits a shape has the key of every packet it matches.
LEMMA SameKey ==
  ASSUME RangesGood, NEW r \in Rules, NEW p \in Packets, Matches(r, p)
  PROVE  RuleKey(r, ShapeOf(r)) = PacketKey(p, ShapeOf(r))
PROOF
  <1> DEFINE s == ShapeOf(r)
  <1>1. ASSUME NEW j \in DOMAIN s.used_field
        PROVE  Shr(Lo[r][s.used_field[j]], Width[s.used_field[j]] - s.prefix_len[j])
               = Shr(p[s.used_field[j]], Width[s.used_field[j]] - s.prefix_len[j])
    <2> DEFINE f == s.used_field[j]  len == s.prefix_len[j]
    <2>1. f \in Fields /\ len \in Nat /\ PrefixLen[r][f] >= len
      BY ShapeType DEF Fits
    <2>2. len \in 0 .. PrefixLen[r][f]
      <3>1. PrefixLen[r][f] \in Nat
        BY <2>1, PrefixAssumption
      <3> QED BY <2>1, <3>1
    <2>3. Lo[r][f] <= p[f] /\ p[f] <= Hi[r][f]
      BY <2>1 DEF Matches
    <2> HIDE DEF f, len
    <2>4. Shr(p[f], Width[f] - len) = Shr(Lo[r][f], Width[f] - len)
      BY <2>1, <2>2, <2>3, PrefixAssumption
    <2> QED BY <2>4 DEF f, len
  <1>2. Values(Lo[r], s) = Values(p, s)
    BY <1>1 DEF Values
  <1> QED BY <1>2 DEF RuleKey, PacketKey

----------------------------------------------------------------------------
(***************************************************************************)
(* The inductive invariant.  A tuple is good when it is not empty, all its *)
(* rules have its key and the shape it was made with, and its counters are *)
(* exact; the array lists the keys of the map, each once.  What a lookup   *)
(* in progress has found is the best of the tuples it has probed.          *)
(***************************************************************************)

GoodTuple(T, k) ==
  /\ T \in Tuple
  /\ T.rules # {}
  /\ \A r \in T.rules : PrefixPair(r) = k /\ T.shape = ShapeOf(r)
  /\ T.rules_num = Cardinality(T.rules)
  /\ T.max_priority = Best(T.rules)

GoodMap(m) == \A k \in DOMAIN m : k \in Nat /\ GoodTuple(m[k], k)

\* the rules of the tuples of map m
RulesOf(m) == UNION {m[k].rules : k \in DOMAIN m}

ArrayGood == /\ Lists(tuples_arr, DOMAIN tuples_map) /\ Descends(tuples_map, tuples_arr)
             /\ max_tuples_num \in Nat \ {0} /\ Len(tuples_arr) <= max_tuples_num

ScanTyped ==
  scan = NoScan \/ scan \in [packet : Packets, tuples : 0 .. Len(tuples_arr), priority : Nat]

Probed == UNION {tuples_map[tuples_arr[i]].rules : i \in 1 .. scan.tuples}
ScanBest == scan # NoScan =>
              scan.priority = Best({r \in Probed : Matches(r, scan.packet)})

Inv == /\ RangesGood
       /\ GoodMap(tuples_map)
       /\ ArrayGood
       /\ rules_num = Cardinality(Stored)
       /\ max_priority \in Nat /\ MaxCovers
       /\ ScanTyped /\ ScanBest

LEMMA TupleType ==
  ASSUME NEW T \in Tuple
  PROVE  /\ T.shape \in Shape /\ T.rules \in SUBSET Rules /\ T.rules_num \in Nat
         /\ T.max_priority \in Nat /\ IsFiniteSet(T.rules) /\ Cardinality(T.rules) \in Nat
PROOF
  <1>1. T.shape \in Shape /\ T.rules \in SUBSET Rules /\ T.rules_num \in Nat /\ T.max_priority \in Nat
    BY DEF Tuple
  <1> QED BY <1>1, PrioType

\* Stored rules are rules, in tuples they fit, and a tuple has all of its key.
LEMMA StoredProps ==
  ASSUME Inv
  PROVE  /\ Stored = RulesOf(tuples_map) /\ Stored \in SUBSET Rules
         /\ IsFiniteSet(Stored) /\ Cardinality(Stored) \in Nat
         /\ \A k \in DOMAIN tuples_map :
              /\ GoodTuple(tuples_map[k], k)
              /\ tuples_map[k].rules = {r \in Stored : PrefixPair(r) = k}
PROOF
  <1>1. \A k \in DOMAIN tuples_map : GoodTuple(tuples_map[k], k)
    BY DEF Inv, GoodMap
  <1>2. Stored \in SUBSET Rules
    <2>1. \A k \in DOMAIN tuples_map : tuples_map[k].rules \in SUBSET Rules
      BY <1>1, TupleType DEF GoodTuple
    <2> QED BY <2>1 DEF Stored
  <1>3. ASSUME NEW k \in DOMAIN tuples_map
        PROVE  tuples_map[k].rules = {r \in Stored : PrefixPair(r) = k}
    BY <1>1 DEF GoodTuple, Stored
  <1> QED BY <1>1, <1>2, <1>3, PrioType DEF Stored, RulesOf

----------------------------------------------------------------------------
(***************************************************************************)
(* A rule comes to a tuple, or leaves it.                                  *)
(***************************************************************************)

LEMMA InsertGood ==
  ASSUME RangesGood, NEW r \in Rules, NEW T, GoodTuple(T, PrefixPair(r)), r \notin T.rules
  PROVE  LET U == TupleInsert(T, r) IN
         /\ GoodTuple(U, PrefixPair(r)) /\ U.rules = T.rules \cup {r}
         /\ U.max_priority # Prio[r] => U.max_priority = T.max_priority
PROOF
  <1> DEFINE U == TupleInsert(T, r)
             best == IF Prio[r] > T.max_priority THEN Prio[r] ELSE T.max_priority
             more == T.rules \cup {r}
  <1>1. /\ T.shape \in Shape /\ T.rules \in SUBSET Rules /\ T.rules_num \in Nat
        /\ T.max_priority \in Nat /\ IsFiniteSet(T.rules) /\ Cardinality(T.rules) \in Nat
        /\ T \in Tuple /\ T.rules_num = Cardinality(T.rules) /\ T.max_priority = Best(T.rules)
    BY TupleType DEF GoodTuple
  <1>2. Prio[r] \in Nat /\ Prio[r] > 0
    BY PrioType
  <1>3. U = [T EXCEPT !.rules = more, !.rules_num = T.rules_num + 1, !.max_priority = best]
    BY DEF TupleInsert
  <1>4. best \in Nat /\ more \in SUBSET Rules
    BY <1>1, <1>2
  <1>5. IsBest(best, more)
    <2>1. IsBest(T.max_priority, T.rules)
      BY <1>1, BestExists
    <2>2. \A q \in T.rules : Prio[q] \in Nat
      BY <1>1, PrioType
    <2> QED BY <1>1, <1>2, <2>1, <2>2 DEF IsBest
  <1>6. best = Best(more)
    <2> HIDE DEF best, more
    <2> QED BY <1>4, <1>5, BestUnique
  <1>7. Cardinality(more) = T.rules_num + 1
    BY <1>1, FS_AddElement
  <1>a. T.rules_num + 1 \in Nat
    BY <1>1
  <1> HIDE DEF best, more, U
  <1>8. /\ U \in Tuple /\ U.shape = T.shape /\ U.rules = more /\ U.rules_num = T.rules_num + 1
        /\ U.max_priority = best
    BY <1>1, <1>3, <1>4, <1>a DEF Tuple
  <1>9. \A q \in more : PrefixPair(q) = PrefixPair(r) /\ U.shape = ShapeOf(q)
    <2>1. PICK q \in T.rules : T.shape = ShapeOf(q) /\ PrefixPair(q) = PrefixPair(r) /\ q \in Rules
      BY <1>1 DEF GoodTuple
    <2>2. ShapeOf(q) = ShapeOf(r)
      BY <2>1, KeyShape
    <2> QED BY <1>8, <2>1, <2>2 DEF GoodTuple, more
  <1>10. GoodTuple(U, PrefixPair(r))
    <2>1. U.rules # {}
      BY <1>8 DEF more
    <2> QED BY <1>6, <1>7, <1>8, <1>9, <2>1 DEF GoodTuple
  <1>11. U.max_priority # Prio[r] => U.max_priority = T.max_priority
    BY <1>8 DEF best
  <1> QED BY <1>8, <1>10, <1>11 DEF U, more

LEMMA FirstGood ==
  ASSUME RangesGood, NEW r \in Rules
  PROVE  LET U == TupleInsert(NewTuple(RangeOf(r).x1, RangeOf(r).y1), r) IN
         GoodTuple(U, PrefixPair(r)) /\ U.rules = {r} /\ U.max_priority = Prio[r]
PROOF
  <1> DEFINE N == NewTuple(RangeOf(r).x1, RangeOf(r).y1)
             U == TupleInsert(N, r)
  <1>1. N = [shape |-> ShapeOf(r), rules |-> {}, rules_num |-> 0, max_priority |-> 0]
    BY DEF NewTuple, ShapeOf
  <1>2. Prio[r] \in Nat /\ Prio[r] > 0 /\ ShapeOf(r) \in Shape
    BY PrioType, ShapeType
  <1>3. /\ N.rules \cup {r} = {r} /\ N.rules_num + 1 = 1
        /\ (IF Prio[r] > N.max_priority THEN Prio[r] ELSE N.max_priority) = Prio[r]
    BY <1>1, <1>2
  <1> HIDE DEF N
  <1>a. U = [N EXCEPT !.rules = {r}, !.rules_num = 1, !.max_priority = Prio[r]]
    BY <1>3 DEF TupleInsert
  <1> HIDE DEF U
  <1>b. U = [shape |-> ShapeOf(r), rules |-> {r}, rules_num |-> 1, max_priority |-> Prio[r]]
    BY <1>1, <1>a
  <1>4. /\ U \in Tuple /\ U.shape = ShapeOf(r) /\ U.rules = {r} /\ U.rules_num = 1
        /\ U.max_priority = Prio[r]
    BY <1>2, <1>b DEF Tuple
  <1>5. Prio[r] = Best({r})
    <2>1. IsBest(Prio[r], {r})
      BY <1>2 DEF IsBest
    <2> QED BY <2>1, BestUnique
  <1>6. Cardinality({r}) = 1
    BY FS_Singleton
  <1>7. GoodTuple(U, PrefixPair(r))
    BY <1>4, <1>5, <1>6 DEF GoodTuple
  <1> QED BY <1>4, <1>7 DEF U, N

LEMMA DeleteGood ==
  ASSUME NEW k, NEW T, GoodTuple(T, k), NEW r \in T.rules
  PROVE  LET U == TupleDelete(T, r) IN
         /\ T.rules_num = 1 => T.rules = {r}
         /\ T.rules_num # 1 =>
              /\ GoodTuple(U, k) /\ U.rules = T.rules \ {r}
              /\ ~(Prio[r] > U.max_priority) => U.max_priority = T.max_priority
PROOF
  <1> DEFINE U == TupleDelete(T, r)
             rest == T.rules \ {r}
             best == IF Prio[r] = T.max_priority THEN Best(rest) ELSE T.max_priority
  <1>1. /\ T.shape \in Shape /\ T.rules \in SUBSET Rules /\ T.rules_num \in Nat
        /\ T.max_priority \in Nat /\ IsFiniteSet(T.rules) /\ Cardinality(T.rules) \in Nat
        /\ T \in Tuple /\ T.rules_num = Cardinality(T.rules) /\ T.max_priority = Best(T.rules)
    BY TupleType DEF GoodTuple
  <1>2. rest \in SUBSET Rules /\ \A q \in T.rules : Prio[q] \in Nat /\ Prio[q] > 0
    BY <1>1, PrioType
  <1>3. Cardinality(rest) = T.rules_num - 1 /\ Cardinality(rest) \in Nat /\ IsFiniteSet(rest)
    BY <1>1, <1>2, FS_RemoveElement, PrioType
  <1>4. IsBest(T.max_priority, T.rules) /\ IsBest(Best(rest), rest) /\ Best(rest) \in Nat
    BY <1>1, <1>2, BestExists
  <1>5. best \in Nat /\ IsBest(best, rest)
    <2>1. CASE Prio[r] = T.max_priority
      BY <1>4, <2>1
    <2>2. CASE Prio[r] # T.max_priority
      BY <1>1, <1>4, <2>2 DEF IsBest
    <2> QED BY <2>1, <2>2
  <1>6. U = [T EXCEPT !.rules = rest, !.rules_num = T.rules_num - 1, !.max_priority = best]
    BY DEF TupleDelete
  <1>7. best = Best(rest)
    <2> HIDE DEF best, rest
    <2> QED BY <1>2, <1>5, BestUnique
  <1>8. ASSUME ~(Prio[r] > best) PROVE best = T.max_priority
    <2>1. Prio[r] <= T.max_priority
      BY <1>4 DEF IsBest
    <2>2. CASE Prio[r] = T.max_priority
      <3>1. Best(rest) <= T.max_priority
        BY <1>1, <1>2, <1>4 DEF IsBest
      <3> HIDE DEF rest
      <3> QED BY <1>1, <1>4, <1>8, <2>2, <3>1
    <2> QED BY <2>2
  <1>9. T.rules_num = 1 => T.rules = {r}
    <2>1. Cardinality(rest) = 0 => rest = {}
      BY <1>3, FS_EmptySet
    <2> QED BY <1>1, <1>3, <2>1
  <1>10. ASSUME T.rules_num # 1
         PROVE  /\ GoodTuple(U, k) /\ U.rules = rest
                /\ ~(Prio[r] > U.max_priority) => U.max_priority = T.max_priority
    <2>1. rest # {}
      BY <1>1, <1>3, <1>10, FS_EmptySet
    <2> HIDE DEF best, U
    <2>2. T.rules_num - 1 \in Nat
      BY <1>3
    <2> HIDE DEF rest
    <2>3. /\ U \in Tuple /\ U.shape = T.shape /\ U.rules = rest /\ U.rules_num = T.rules_num - 1
          /\ U.max_priority = best
      BY <1>1, <1>2, <1>5, <1>6, <2>2 DEF Tuple
    <2>4. \A q \in U.rules : PrefixPair(q) = k /\ U.shape = ShapeOf(q)
      BY <2>3 DEF GoodTuple, rest
    <2>5. GoodTuple(U, k)
      BY <1>3, <1>7, <2>1, <2>3, <2>4 DEF GoodTuple
    <2> QED BY <1>8, <2>3, <2>5
  <1> QED BY <1>9, <1>10 DEF U, rest

----------------------------------------------------------------------------
(***************************************************************************)
(* The array.                                                              *)
(***************************************************************************)

LEMMA SortedLists ==
  ASSUME NEW m, NEW D, NEW arr, Lists(arr, D), NEW s \in Sorted(m, arr)
  PROVE  Lists(s, D) /\ Len(s) = Len(arr) /\ Descends(m, s)
PROOF
  <1>1. PICK f \in [DOMAIN arr -> DOMAIN arr] :
          Elements(f) = DOMAIN arr /\ s = [i \in DOMAIN arr |-> arr[f[i]]] /\ Descends(m, s)
    BY DEF Sorted, Permuted
  <1>2. \A j \in DOMAIN arr : \E i \in DOMAIN arr : f[i] = j
    BY <1>1 DEF Elements
  <1>3. InOrder(s, arr, f)
    BY <1>1, <1>2 DEF InOrder
  <1>4. Lists(s, D) /\ Len(s) = Len(arr)
    BY <1>3, PermutedLists
  <1> QED BY <1>1, <1>4

\* An array that descends goes on descending when no max_priority changes.
LEMMA DescendsStill ==
  ASSUME NEW m, NEW D, NEW g, NEW arr, Lists(arr, D), Descends(m, arr),
         \A k \in D : g[k].max_priority = m[k].max_priority
  PROVE  Descends(g, arr)
PROOF
  <1>1. \A i \in DOMAIN arr : arr[i] \in D
    BY DEF Lists
  <1> QED BY <1>1 DEF Descends

----------------------------------------------------------------------------
(***************************************************************************)
(* Steps outside a lookup.                                                 *)
(***************************************************************************)

\* What is good of a map stays good: the ranges never change.
LEMMA SameRanges ==
  ASSUME RangesGood, tuple_ranges' = tuple_ranges, NEW m, GoodMap(m), tuples_map' = m
  PROVE  RangesGood' /\ GoodMap(tuples_map)'
PROOF
  <1>1. RangesGood'
    BY DEF RangesGood
  <1>2. \A r : PrefixPair(r)' = PrefixPair(r) /\ ShapeOf(r)' = ShapeOf(r)
    BY DEF PrefixPair, ShapeOf, RangeOf, NewTuple
  <1>3. \A T, k : GoodTuple(T, k) =>
          /\ T \in Tuple /\ T.rules # {}
          /\ \A r \in T.rules : PrefixPair(r)' = k /\ T.shape = ShapeOf(r)'
          /\ T.rules_num = Cardinality(T.rules) /\ T.max_priority = Best(T.rules)
    BY <1>2 DEF GoodTuple
  <1>4. \A k \in DOMAIN m :
          /\ k \in Nat /\ m[k] \in Tuple /\ m[k].rules # {}
          /\ \A r \in m[k].rules : PrefixPair(r)' = k /\ m[k].shape = ShapeOf(r)'
          /\ m[k].rules_num = Cardinality(m[k].rules) /\ m[k].max_priority = Best(m[k].rules)
    BY <1>3 DEF GoodMap
  <1>5. GoodMap(tuples_map)'
    BY <1>4 DEF GoodMap, GoodTuple
  <1> QED BY <1>1, <1>5

\* Inv after an update that leaves the map m and the array tuples_arr'.
LEMMA Join ==
  ASSUME Inv, tuple_ranges' = tuple_ranges, scan' = NoScan,
         NEW m, GoodMap(m), tuples_map' = m,
         Lists(tuples_arr', DOMAIN m), Descends(m, tuples_arr'),
         max_tuples_num' \in Nat \ {0}, Len(tuples_arr') <= max_tuples_num',
         rules_num' = Cardinality(Stored'),
         max_priority' \in Nat, \A r \in Stored' : Prio[r] <= max_priority'
  PROVE  Inv'
PROOF
  <1>1. RangesGood' /\ GoodMap(tuples_map)'
    BY SameRanges DEF Inv
  <1>2. ArrayGood'
    BY DEF ArrayGood
  <1>3. ScanTyped' /\ ScanBest' /\ MaxCovers'
    BY DEF ScanTyped, ScanBest, MaxCovers
  <1> QED BY <1>1, <1>2, <1>3 DEF Inv

----------------------------------------------------------------------------
(***************************************************************************)
(* Inserts.                                                                *)
(***************************************************************************)

LEMMA SettleInv ==
  ASSUME Inv, tuple_ranges' = tuple_ranges, scan' = NoScan, NEW r \in Rules, r \notin Stored,
         NEW m, GoodMap(m), RulesOf(m) = Stored \cup {r},
         NEW arr, Lists(arr, DOMAIN m),
         Prio[r] # m[PrefixPair(r)].max_priority => Descends(m, arr),
         max_tuples_num' \in Nat \ {0}, Len(arr) <= max_tuples_num',
         Settle(m, arr, r)
  PROVE  Inv' /\ Stored' = Stored \cup {r}
PROOF
  <1>1. /\ tuples_map' = m
        /\ IF Prio[r] = m[PrefixPair(r)].max_priority
           THEN tuples_arr' \in Sorted(m, arr) ELSE tuples_arr' = arr
        /\ rules_num' = rules_num + 1
        /\ max_priority' = IF Prio[r] > max_priority THEN Prio[r] ELSE max_priority
    BY DEF Settle
  <1>2. Lists(tuples_arr', DOMAIN m) /\ Descends(m, tuples_arr') /\ Len(tuples_arr') = Len(arr)
    <2>1. CASE Prio[r] = m[PrefixPair(r)].max_priority
      <3>1. tuples_arr' \in Sorted(m, arr)
        BY <1>1, <2>1
      <3> QED BY <3>1, SortedLists
    <2>2. CASE Prio[r] # m[PrefixPair(r)].max_priority
      BY <1>1, <2>2
    <2> QED BY <2>1, <2>2
  <1>3. Stored' = Stored \cup {r}
    BY <1>1 DEF Stored, RulesOf
  <1>4. /\ rules_num = Cardinality(Stored) /\ max_priority \in Nat
        /\ \A q \in Stored : Prio[q] <= max_priority
    BY DEF Inv, MaxCovers
  <1>5. /\ IsFiniteSet(Stored) /\ Stored \in SUBSET Rules /\ Prio[r] \in Nat
        /\ \A q \in Stored : Prio[q] \in Nat
    BY StoredProps, PrioType
  <1>6. rules_num' = Cardinality(Stored')
    BY <1>1, <1>3, <1>4, <1>5, FS_AddElement
  <1>7. max_priority' \in Nat /\ \A q \in Stored' : Prio[q] <= max_priority'
    BY <1>1, <1>3, <1>4, <1>5
  <1>8. Len(tuples_arr') <= max_tuples_num'
    BY <1>2
  <1>9. Inv'
    <2> HIDE DEF Inv
    <2> QED BY <1>1, <1>2, <1>6, <1>7, <1>8, Join
  <1> QED BY <1>3, <1>9

LEMMA InsertOldInv ==
  ASSUME Inv, tuple_ranges' = tuple_ranges, scan' = NoScan, NEW r \in Rules, r \notin Stored,
         InsertOld(r)
  PROVE  Inv' /\ Stored' = Stored \cup {r}
PROOF
  <1> DEFINE k == PrefixPair(r)
             T == tuples_map[k]
             U == TupleInsert(T, r)
             m == [tuples_map EXCEPT ![k] = U]
  <1>1. k \in DOMAIN tuples_map /\ Settle(m, tuples_arr, r) /\ max_tuples_num' = max_tuples_num
    BY DEF InsertOld
  <1>2. GoodMap(tuples_map) /\ GoodTuple(T, k) /\ r \notin T.rules /\ RangesGood
    BY <1>1 DEF Inv, GoodMap, Stored
  <1>3. /\ GoodTuple(U, k) /\ U.rules = T.rules \cup {r}
        /\ U.max_priority # Prio[r] => U.max_priority = T.max_priority
    <2> HIDE DEF T
    <2> QED BY <1>2, InsertGood
  <1> HIDE DEF U, k
  <1>4. /\ DOMAIN m = DOMAIN tuples_map /\ m[k] = U
        /\ \A j \in DOMAIN tuples_map : j # k => m[j] = tuples_map[j]
    BY <1>1
  <1> HIDE DEF m
  <1>5. GoodMap(m)
    BY <1>1, <1>2, <1>3, <1>4 DEF GoodMap
  <1>6. RulesOf(m) = Stored \cup {r}
    BY <1>1, <1>3, <1>4 DEF RulesOf, Stored
  <1>7. Lists(tuples_arr, DOMAIN tuples_map) /\ Descends(tuples_map, tuples_arr)
        /\ max_tuples_num \in Nat \ {0} /\ Len(tuples_arr) <= max_tuples_num
    BY DEF Inv, ArrayGood
  <1>8. ASSUME Prio[r] # m[k].max_priority PROVE Descends(m, tuples_arr)
    <2>1. \A j \in DOMAIN tuples_map : m[j].max_priority = tuples_map[j].max_priority
      BY <1>1, <1>3, <1>4, <1>8
    <2> QED BY <1>7, <2>1, DescendsStill
  <1> HIDE DEF Inv
  <1> QED BY <1>1, <1>4, <1>5, <1>6, <1>7, <1>8, SettleInv DEF k

LEMMA InsertNewInv ==
  ASSUME Inv, tuple_ranges' = tuple_ranges, scan' = NoScan, NEW r \in Rules, r \notin Stored,
         InsertNew(r)
  PROVE  Inv' /\ Stored' = Stored \cup {r}
PROOF
  <1> DEFINE k == PrefixPair(r)
             U == TupleInsert(NewTuple(RangeOf(r).x1, RangeOf(r).y1), r)
             m == [j \in DOMAIN tuples_map \cup {k} |-> IF j = k THEN U ELSE tuples_map[j]]
             arr == Append(tuples_arr, k)
  <1>1. /\ k \notin DOMAIN tuples_map /\ Settle(m, arr, r)
        /\ max_tuples_num' = IF Len(tuples_arr) = max_tuples_num
                             THEN 2 * max_tuples_num ELSE max_tuples_num
    BY DEF InsertNew
  <1>2. GoodMap(tuples_map) /\ RangesGood
    BY DEF Inv
  <1>3. GoodTuple(U, k) /\ U.rules = {r} /\ U.max_priority = Prio[r] /\ k \in Nat
    BY <1>2, FirstGood, RangeProps
  <1> HIDE DEF U, k
  <1>4. /\ DOMAIN m = DOMAIN tuples_map \cup {k} /\ m[k] = U
        /\ \A j \in DOMAIN tuples_map : m[j] = tuples_map[j]
    BY <1>1
  <1> HIDE DEF m
  <1>5. GoodMap(m)
    BY <1>1, <1>2, <1>3, <1>4 DEF GoodMap
  <1>6. RulesOf(m) = Stored \cup {r}
    BY <1>1, <1>3, <1>4 DEF RulesOf, Stored
  <1>7. Lists(tuples_arr, DOMAIN tuples_map)
        /\ max_tuples_num \in Nat \ {0} /\ Len(tuples_arr) <= max_tuples_num
    BY DEF Inv, ArrayGood
  <1>8. Lists(arr, DOMAIN m) /\ Len(arr) = Len(tuples_arr) + 1
    BY <1>1, <1>4, <1>7, AppendLists
  <1>9. max_tuples_num' \in Nat \ {0} /\ Len(arr) <= max_tuples_num'
    <2>1. Len(tuples_arr) \in Nat
      BY <1>7, ListsCount
    <2> HIDE DEF arr
    <2> QED BY <1>1, <1>7, <1>8, <2>1
  <1>10. Prio[r] = m[k].max_priority
    BY <1>3, <1>4
  <1> HIDE DEF Inv, arr
  <1> QED BY <1>1, <1>5, <1>6, <1>8, <1>9, <1>10, SettleInv DEF k

LEMMA InsertRuleInv ==
  ASSUME Inv, NEW r \in Rules, InsertRule(r)
  PROVE  Inv' /\ r \notin Stored /\ Stored' = Stored \cup {r} /\ answer' = <<>>
PROOF
  <1>1. /\ tuple_ranges' = tuple_ranges /\ scan' = NoScan /\ r \notin Stored
        /\ InsertOld(r) \/ InsertNew(r)
        /\ answer' = <<>>
    BY DEF InsertRule
  <1> HIDE DEF Inv
  <1> QED BY <1>1, InsertOldInv, InsertNewInv

----------------------------------------------------------------------------
(***************************************************************************)
(* Deletes.                                                                *)
(***************************************************************************)

\* One rule fewer to count.
LEMMA OneFewer ==
  ASSUME Inv, NEW r \in Stored, rules_num' = rules_num - 1, Stored' = Stored \ {r}
  PROVE  rules_num' = Cardinality(Stored')
PROOF
  <1>1. IsFiniteSet(Stored)
    BY StoredProps
  <1>2. rules_num = Cardinality(Stored)
    BY DEF Inv
  <1> QED BY <1>1, <1>2, FS_RemoveElement

\* The first tuple of an array that descends covers all rules of the map.
LEMMA FirstCovers ==
  ASSUME NEW m, GoodMap(m), DOMAIN m # {}, NEW arr, Lists(arr, DOMAIN m), Descends(m, arr)
  PROVE  /\ arr[1] \in DOMAIN m /\ m[arr[1]].max_priority \in Nat
         /\ \A q \in RulesOf(m) : Prio[q] <= m[arr[1]].max_priority
PROOF
  <1>1. Len(arr) \in Nat /\ DOMAIN arr = 1 .. Len(arr)
    BY ListsCount
  <1>2. 1 \in DOMAIN arr
    <2>1. PICK i \in DOMAIN arr : TRUE
      BY DEF Lists
    <2> QED BY <1>1, <2>1
  <1>3. arr[1] \in DOMAIN m
    BY <1>2 DEF Lists
  <1>4. \A k \in DOMAIN m : /\ m[k].max_priority \in Nat /\ m[k].rules \in SUBSET Rules
                            /\ m[k].max_priority = Best(m[k].rules)
    BY TupleType DEF GoodMap, GoodTuple
  <1>5. ASSUME NEW q \in RulesOf(m) PROVE Prio[q] <= m[arr[1]].max_priority
    <2>1. PICK k \in DOMAIN m : q \in m[k].rules
      BY DEF RulesOf
    <2>2. Prio[q] <= m[k].max_priority /\ Prio[q] \in Nat
      BY <1>4, <2>1, BestExists, PrioType DEF IsBest
    <2>3. PICK i \in DOMAIN arr : arr[i] = k
      BY DEF Lists
    <2>4. m[arr[1]].max_priority >= m[k].max_priority
      <3>1. CASE i = 1
        BY <1>4, <2>3, <3>1
      <3>2. CASE i # 1
        BY <1>1, <1>2, <2>3, <3>2 DEF Descends
      <3> QED BY <3>1, <3>2
    <2> QED BY <1>3, <1>4, <2>2, <2>4
  <1> QED BY <1>3, <1>4, <1>5

LEMMA DeleteOneInv ==
  ASSUME Inv, tuple_ranges' = tuple_ranges, scan' = NoScan, max_tuples_num' = max_tuples_num,
         rules_num' = rules_num - 1,
         NEW r \in Rules, PrefixPair(r) \in DOMAIN tuples_map,
         r \in tuples_map[PrefixPair(r)].rules, DeleteOne(r)
  PROVE  Inv' /\ r \in Stored /\ Stored' = Stored \ {r}
PROOF
  <1> DEFINE k == PrefixPair(r)
             T == tuples_map[k]
             U == TupleDelete(T, r)
             m == [tuples_map EXCEPT ![k] = U]
  <1>1. /\ T.rules_num # 1 /\ tuples_map' = m
        /\ IF Prio[r] > m[k].max_priority
           THEN tuples_arr' \in Sorted(m, tuples_arr) ELSE tuples_arr' = tuples_arr
        /\ max_priority' = IF Prio[r] = max_priority
                           THEN m[tuples_arr'[1]].max_priority ELSE max_priority
    BY DEF DeleteOne
  <1>2. GoodMap(tuples_map) /\ GoodTuple(T, k) /\ k \in DOMAIN tuples_map /\ r \in T.rules
    BY DEF Inv, GoodMap
  <1>3. /\ GoodTuple(U, k) /\ U.rules = T.rules \ {r}
        /\ ~(Prio[r] > U.max_priority) => U.max_priority = T.max_priority
    <2> HIDE DEF T, k
    <2> QED BY <1>1, <1>2, DeleteGood
  <1> HIDE DEF U
  <1>4. /\ DOMAIN m = DOMAIN tuples_map /\ m[k] = U
        /\ \A j \in DOMAIN tuples_map : j # k => m[j] = tuples_map[j]
    <2> HIDE DEF k
    <2> QED BY <1>2
  <1>5. r \in Stored /\ Stored' = Stored \ {r}
    <2>1. \A j \in DOMAIN tuples_map : r \in tuples_map[j].rules => j = k
      BY <1>2 DEF GoodMap, GoodTuple
    <2> HIDE DEF m, k
    <2> QED BY <1>1, <1>2, <1>3, <1>4, <2>1 DEF Stored
  <1> HIDE DEF m, k
  <1>6. GoodMap(m)
    BY <1>2, <1>3, <1>4 DEF GoodMap
  <1>7. RulesOf(m) = Stored'
    BY <1>1 DEF RulesOf, Stored
  <1>8. Lists(tuples_arr, DOMAIN m) /\ Descends(tuples_map, tuples_arr)
        /\ max_tuples_num \in Nat \ {0} /\ Len(tuples_arr) <= max_tuples_num
    BY <1>4 DEF Inv, ArrayGood
  <1>9. Lists(tuples_arr', DOMAIN m) /\ Descends(m, tuples_arr') /\ Len(tuples_arr') = Len(tuples_arr)
    <2>1. CASE Prio[r] > m[k].max_priority
      <3>1. tuples_arr' \in Sorted(m, tuples_arr)
        BY <1>1, <2>1
      <3> QED BY <1>8, <3>1, SortedLists
    <2>2. CASE ~(Prio[r] > m[k].max_priority)
      <3>1. \A j \in DOMAIN m : m[j].max_priority = tuples_map[j].max_priority
        BY <1>3, <1>4, <2>2
      <3>2. Descends(m, tuples_arr)
        BY <1>8, <3>1, DescendsStill
      <3> QED BY <1>1, <1>8, <2>2, <3>2
    <2> QED BY <2>1, <2>2
  <1>10. rules_num' = Cardinality(Stored')
    BY <1>5, OneFewer
  <1>11. max_priority' \in Nat /\ \A q \in Stored' : Prio[q] <= max_priority'
    <2>1. DOMAIN m # {}
      BY <1>2, <1>4
    <2>2. /\ m[tuples_arr'[1]].max_priority \in Nat
          /\ \A q \in Stored' : Prio[q] <= m[tuples_arr'[1]].max_priority
      BY <1>6, <1>7, <1>9, <2>1, FirstCovers
    <2>3. max_priority \in Nat /\ \A q \in Stored' : Prio[q] <= max_priority
      BY <1>5 DEF Inv, MaxCovers
    <2> QED BY <1>1, <2>2, <2>3
  <1>12. max_tuples_num' \in Nat \ {0} /\ Len(tuples_arr') <= max_tuples_num'
    BY <1>8, <1>9
  <1>13. Inv'
    <2> HIDE DEF Inv
    <2> QED BY <1>1, <1>6, <1>9, <1>10, <1>11, <1>12, Join
  <1> QED BY <1>5, <1>13

\* The emptied tuple alone has priority 0, so it ends up last, where it is dropped.
LEMMA DeleteLastInv ==
  ASSUME Inv, tuple_ranges' = tuple_ranges, scan' = NoScan, max_tuples_num' = max_tuples_num,
         rules_num' = rules_num - 1,
         NEW r \in Rules, PrefixPair(r) \in DOMAIN tuples_map,
         r \in tuples_map[PrefixPair(r)].rules, DeleteLast(r)
  PROVE  Inv' /\ r \in Stored /\ Stored' = Stored \ {r}
PROOF
  <1> DEFINE k == PrefixPair(r)
             T == tuples_map[k]
             U == [TupleDelete(T, r) EXCEPT !.max_priority = 0]
             m == [tuples_map EXCEPT ![k] = U]
             g == [j \in DOMAIN tuples_map \ {k} |-> tuples_map[j]]
  <1>1. /\ T.rules_num = 1 /\ tuples_map' = g /\ max_priority' = max_priority
        /\ \E s \in Sorted(m, tuples_arr) : tuples_arr' = SubSeq(s, 1, Len(s) - 1)
    BY DEF DeleteLast
  <1>2. GoodMap(tuples_map) /\ GoodTuple(T, k) /\ k \in DOMAIN tuples_map /\ r \in T.rules
    BY DEF Inv, GoodMap
  <1>3. T.rules = {r}
    <2> HIDE DEF T, k
    <2> QED BY <1>1, <1>2, DeleteGood
  <1>4. U.max_priority = 0
    BY <1>2 DEF GoodTuple, Tuple, TupleDelete
  <1> HIDE DEF U, k
  <1>5. /\ DOMAIN m = DOMAIN tuples_map /\ m[k].max_priority = 0
        /\ \A j \in DOMAIN tuples_map : j # k => m[j] = tuples_map[j]
    BY <1>2, <1>4
  <1>6. DOMAIN g = DOMAIN tuples_map \ {k} /\ \A j \in DOMAIN g : g[j] = tuples_map[j] /\ g[j] = m[j]
    BY <1>5
  <1> HIDE DEF m, g
  <1>7. Lists(tuples_arr, DOMAIN m) /\ max_tuples_num \in Nat \ {0} /\ Len(tuples_arr) <= max_tuples_num
    BY <1>5 DEF Inv, ArrayGood
  <1>8. PICK s \in Sorted(m, tuples_arr) : tuples_arr' = SubSeq(s, 1, Len(s) - 1)
    BY <1>1
  <1>9. Lists(s, DOMAIN m) /\ Len(s) = Len(tuples_arr) /\ Descends(m, s)
    BY <1>7, SortedLists
  <1>10. /\ Len(s) \in DOMAIN s /\ Lists(tuples_arr', DOMAIN m \ {s[Len(s)]})
         /\ Len(tuples_arr') = Len(s) - 1 /\ DOMAIN tuples_arr' = 1 .. Len(s) - 1
         /\ \A i \in DOMAIN tuples_arr' : i \in DOMAIN s /\ tuples_arr'[i] = s[i]
    BY <1>2, <1>5, <1>8, <1>9, FrontLists
  <1>11. DOMAIN s = 1 .. Len(s) /\ Len(s) \in Nat
    BY <1>9, ListsCount
  <1>12. s[Len(s)] = k
    <2> SUFFICES ASSUME s[Len(s)] # k PROVE FALSE
      OBVIOUS
    <2> DEFINE last == s[Len(s)]
    <2>1. PICK i \in DOMAIN s : s[i] = k
      BY <1>2, <1>5, <1>9 DEF Lists
    <2>2. i < Len(s)
      BY <1>11, <2>1
    <2>3. m[k].max_priority >= m[last].max_priority
      BY <1>9, <1>10, <2>1, <2>2 DEF Descends
    <2>4. last \in DOMAIN tuples_map /\ last # k
      BY <1>5, <1>9, <1>10 DEF Lists
    <2> HIDE DEF last
    <2>5. /\ tuples_map[last].rules # {} /\ tuples_map[last].rules \in SUBSET Rules
          /\ tuples_map[last].max_priority = Best(tuples_map[last].rules)
      BY <1>2, <2>4, TupleType DEF GoodMap, GoodTuple
    <2>6. Best(tuples_map[last].rules) \in Nat /\ Best(tuples_map[last].rules) > 0
      BY <2>5, BestExists
    <2>7. m[last].max_priority = Best(tuples_map[last].rules)
      BY <1>5, <2>4, <2>5
    <2> QED BY <1>5, <2>3, <2>6, <2>7
  <1>13. Lists(tuples_arr', DOMAIN g)
    BY <1>5, <1>6, <1>10, <1>12
  <1>14. Descends(g, tuples_arr')
    <2>1. \A i \in DOMAIN tuples_arr' : g[tuples_arr'[i]] = m[s[i]] /\ i \in DOMAIN s
      <3>1. \A i \in DOMAIN tuples_arr' : tuples_arr'[i] \in DOMAIN g
        BY <1>13 DEF Lists
      <3> QED BY <1>6, <1>10, <3>1
    <2> QED BY <1>9, <2>1 DEF Descends
  <1>15. GoodMap(g)
    BY <1>2, <1>6 DEF GoodMap
  <1>16. r \in Stored /\ Stored' = Stored \ {r}
    <2>1. \A j \in DOMAIN tuples_map : r \in tuples_map[j].rules => j = k
      BY <1>2 DEF GoodMap, GoodTuple, k
    <2> QED BY <1>1, <1>2, <1>3, <1>6, <2>1 DEF Stored
  <1>17. rules_num' = Cardinality(Stored')
    BY <1>16, OneFewer
  <1>18. max_priority' \in Nat /\ \A q \in Stored' : Prio[q] <= max_priority'
    BY <1>1, <1>16 DEF Inv, MaxCovers
  <1>19. max_tuples_num' \in Nat \ {0} /\ Len(tuples_arr') <= max_tuples_num'
    BY <1>7, <1>9, <1>10, <1>11
  <1>20. Inv'
    <2> HIDE DEF Inv
    <2> QED BY <1>1, <1>13, <1>14, <1>15, <1>17, <1>18, <1>19, Join
  <1> QED BY <1>16, <1>20

LEMMA DeleteRuleInv ==
  ASSUME Inv, NEW r \in Rules, DeleteRule(r)
  PROVE  Inv' /\ r \in Stored /\ Stored' = Stored \ {r} /\ answer' = <<>>
PROOF
  <1>1. /\ tuple_ranges' = tuple_ranges /\ scan' = NoScan /\ max_tuples_num' = max_tuples_num
        /\ rules_num' = rules_num - 1
        /\ PrefixPair(r) \in DOMAIN tuples_map /\ r \in tuples_map[PrefixPair(r)].rules
        /\ DeleteOne(r) \/ DeleteLast(r)
        /\ answer' = <<>>
    BY DEF DeleteRule
  <1> HIDE DEF Inv
  <1> QED BY <1>1, DeleteOneInv, DeleteLastInv

----------------------------------------------------------------------------
(***************************************************************************)
(* Lookups.                                                                *)
(***************************************************************************)

\* A step that leaves the classifier alone keeps all but what speaks of scan.
LEMMA StoreSame ==
  ASSUME Inv, tuple_ranges' = tuple_ranges, UNCHANGED store, ScanTyped', ScanBest'
  PROVE  Inv' /\ Stored' = Stored
PROOF
  <1>1. /\ tuples_map' = tuples_map /\ tuples_arr' = tuples_arr
        /\ max_tuples_num' = max_tuples_num /\ rules_num' = rules_num
        /\ max_priority' = max_priority
    BY DEF store
  <1>2. Stored' = Stored
    BY <1>1 DEF Stored
  <1>3. RangesGood' /\ GoodMap(tuples_map)'
    BY <1>1, SameRanges DEF Inv
  <1>4. ArrayGood' /\ MaxCovers' /\ rules_num' = Cardinality(Stored') /\ max_priority' \in Nat
    BY <1>1, <1>2 DEF Inv, ArrayGood, MaxCovers
  <1> QED BY <1>2, <1>3, <1>4 DEF Inv

LEMMA ScanType ==
  ASSUME Inv, scan # NoScan
  PROVE  /\ scan \in [packet : Packets, tuples : 0 .. Len(tuples_arr), priority : Nat]
         /\ scan.packet \in Packets /\ scan.tuples \in Nat /\ scan.tuples <= Len(tuples_arr)
         /\ scan.priority \in Nat /\ Len(tuples_arr) \in Nat
         /\ DOMAIN tuples_arr = 1 .. Len(tuples_arr)
         /\ \A i \in DOMAIN tuples_arr : tuples_arr[i] \in DOMAIN tuples_map
         /\ Probed \subseteq Stored
PROOF
  <1>1. Len(tuples_arr) \in Nat /\ DOMAIN tuples_arr = 1 .. Len(tuples_arr)
        /\ \A i \in DOMAIN tuples_arr : tuples_arr[i] \in DOMAIN tuples_map
    BY ListsCount DEF Inv, ArrayGood, Lists
  <1>2. scan \in [packet : Packets, tuples : 0 .. Len(tuples_arr), priority : Nat]
    BY DEF Inv, ScanTyped
  <1>3. scan.packet \in Packets /\ scan.tuples \in Nat /\ scan.tuples <= Len(tuples_arr)
        /\ scan.priority \in Nat
    BY <1>1, <1>2
  <1>4. Probed \subseteq Stored
    BY <1>1, <1>3 DEF Probed, Stored
  <1> QED BY <1>1, <1>2, <1>3, <1>4

LEMMA LookupStartInv ==
  ASSUME Inv, NEW p \in Packets, LookupStart(p)
  PROVE  Inv' /\ Stored' = Stored /\ answer' = answer
PROOF
  <1>1. /\ scan' = [packet |-> p, tuples |-> 0, priority |-> 0]
        /\ UNCHANGED store /\ answer' = answer /\ tuple_ranges' = tuple_ranges
    BY DEF LookupStart, NoScan
  <1>2. Len(tuples_arr) \in Nat /\ tuples_arr' = tuples_arr
    BY <1>1, ListsCount DEF Inv, ArrayGood, store
  <1>3. ScanTyped'
    BY <1>1, <1>2 DEF ScanTyped
  <1>4. ScanBest'
    <2>1. Probed' = {}
      BY <1>1 DEF Probed
    <2>2. {r \in Probed' : Matches(r, scan'.packet)} = {}
      BY <2>1
    <2>3. IsBest(0, {})
      BY DEF IsBest
    <2>4. 0 = Best({})
      BY <2>3, BestUnique
    <2> QED BY <1>1, <2>2, <2>4 DEF ScanBest
  <1> QED BY <1>1, <1>3, <1>4, StoreSame

\* What one probe finds is what the tuple holds that matches and is better.
LEMMA HitsExact ==
  ASSUME Inv, NEW k \in DOMAIN tuples_map, NEW p \in Packets, NEW x
  PROVE  Hits(tuples_map[k], p, x) = {r \in tuples_map[k].rules : Matches(r, p) /\ Prio[r] > x}
PROOF
  <1>1. ASSUME NEW r \in tuples_map[k].rules, Matches(r, p)
        PROVE  RuleKey(r, tuples_map[k].shape) = PacketKey(p, tuples_map[k].shape)
    <2>1. RangesGood /\ GoodTuple(tuples_map[k], k)
      BY DEF Inv, GoodMap
    <2>2. r \in Rules /\ tuples_map[k].shape = ShapeOf(r)
      BY <2>1, TupleType DEF GoodTuple
    <2> QED BY <1>1, <2>1, <2>2, SameKey
  <1> QED BY <1>1 DEF Hits

LEMMA LookupProbeInv ==
  ASSUME Inv, LookupProbe
  PROVE  Inv' /\ Stored' = Stored /\ answer' = answer
PROOF
  <1> DEFINE i == scan.tuples + 1
             k == tuples_arr[i]
             p == scan.packet
             x == scan.priority
             hits == Hits(tuples_map[k], p, x)
             y == IF hits = {} THEN x ELSE Best(hits)
             A == {r \in Probed : Matches(r, p)}
             B == {r \in tuples_map[k].rules : Matches(r, p)}
  <1>1. /\ scan # NoScan /\ ~ScanOver /\ UNCHANGED store /\ answer' = answer
        /\ tuple_ranges' = tuple_ranges
        /\ scan' = [scan EXCEPT !.tuples = i, !.priority = y]
    BY DEF LookupProbe, NextTuple
  <1>2. /\ scan \in [packet : Packets, tuples : 0 .. Len(tuples_arr), priority : Nat]
        /\ p \in Packets /\ scan.tuples \in Nat /\ x \in Nat /\ Len(tuples_arr) \in Nat
        /\ DOMAIN tuples_arr = 1 .. Len(tuples_arr)
        /\ \A j \in DOMAIN tuples_arr : tuples_arr[j] \in DOMAIN tuples_map
        /\ Probed \subseteq Stored /\ scan.tuples < Len(tuples_arr)
    BY <1>1, ScanType DEF ScanOver
  <1>3. i \in 1 .. Len(tuples_arr) /\ k \in DOMAIN tuples_map
    BY <1>2
  <1>4. hits = {r \in B : Prio[r] > x}
    BY <1>2, <1>3, HitsExact
  <1>5. A \in SUBSET Rules /\ B \in SUBSET Rules /\ hits \in SUBSET Rules
    BY <1>2, <1>3, <1>4, StoredProps DEF Stored
  <1>6. x = Best(A)
    BY <1>1 DEF Inv, ScanBest
  <1>7. IsBest(x, A) /\ IsBest(Best(hits), hits) /\ Best(hits) \in Nat
    BY <1>5, <1>6, BestExists
  <1>8. \A r \in Rules : Prio[r] \in Nat
    BY PrioType
  <1>9. y \in Nat
    BY <1>2, <1>7
  <1>10. Probed' = Probed \cup tuples_map[k].rules
    <2>1. scan'.tuples = i /\ tuples_map' = tuples_map /\ tuples_arr' = tuples_arr
      BY <1>1, <1>2 DEF store
    <2>2. 1 .. i = 1 .. scan.tuples \cup {i}
      BY <1>2
    <2> QED BY <2>1, <2>2 DEF Probed
  <1>11. scan'.packet = p /\ scan'.priority = y /\ ScanTyped'
    <2>1. i \in 0 .. Len(tuples_arr)
      BY <1>2
    <2>2. tuples_arr' = tuples_arr
      BY <1>1 DEF store
    <2> HIDE DEF y, i
    <2> QED BY <1>1, <1>2, <1>9, <2>1, <2>2 DEF ScanTyped
  <1> HIDE DEF hits
  <1>12. IsBest(y, A \cup B)
    <2>1. CASE hits = {}
      <3>1. ASSUME NEW r \in B PROVE Prio[r] <= x
        BY <1>2, <1>4, <1>5, <1>8, <2>1, <3>1
      <3> HIDE DEF A, B
      <3> QED BY <1>7, <2>1, <3>1 DEF IsBest
    <2>2. CASE hits # {}
      <3>1. PICK q \in hits : Best(hits) >= Prio[q] /\ Prio[q] > x /\ Prio[q] \in Nat
        BY <1>4, <1>5, <1>7, <1>8, <2>2 DEF IsBest
      <3>2. Best(hits) > x
        BY <1>2, <1>7, <3>1
      <3> HIDE DEF A, B
      <3>3. ASSUME NEW r \in A PROVE Prio[r] <= Best(hits)
        BY <1>2, <1>5, <1>7, <1>8, <3>2, <3>3 DEF IsBest
      <3>4. ASSUME NEW r \in B PROVE Prio[r] <= Best(hits)
        <4>1. CASE Prio[r] > x
          BY <1>4, <1>7, <4>1 DEF IsBest
        <4>2. CASE ~(Prio[r] > x)
          BY <1>2, <1>5, <1>7, <1>8, <3>2, <4>2
        <4> QED BY <4>1, <4>2
      <3>5. Best(hits) \in {Prio[r] : r \in B}
        <4>1. Best(hits) # 0
          BY <1>2, <1>7, <3>2
        <4>2. Best(hits) \in {Prio[r] : r \in hits}
          BY <1>7, <4>1 DEF IsBest
        <4> QED BY <1>4, <4>2
      <3> QED BY <2>2, <3>3, <3>4, <3>5 DEF IsBest
    <2> QED BY <2>1, <2>2
  <1>13. y = Best(A \cup B)
    <2> HIDE DEF A, B, y
    <2> QED BY <1>5, <1>12, BestUnique
  <1>14. {r \in Probed' : Matches(r, scan'.packet)} = A \cup B
    BY <1>10, <1>11
  <1>15. ScanBest'
    BY <1>11, <1>13, <1>14 DEF ScanBest
  <1> QED BY <1>1, <1>11, <1>15, StoreSame

\* The loop ends early only when nothing better is left.
LEMMA OverIsBest ==
  ASSUME Inv, scan # NoScan, ScanOver
  PROVE  scan.priority = Best({r \in Stored : Matches(r, scan.packet)})
PROOF
  <1> DEFINE p == scan.packet
             x == scan.priority
             A == {r \in Probed : Matches(r, p)}
             S == {r \in Stored : Matches(r, p)}
  <1>1. /\ p \in Packets /\ scan.tuples \in Nat /\ scan.tuples <= Len(tuples_arr)
        /\ x \in Nat /\ Len(tuples_arr) \in Nat /\ DOMAIN tuples_arr = 1 .. Len(tuples_arr)
        /\ \A j \in DOMAIN tuples_arr : tuples_arr[j] \in DOMAIN tuples_map
        /\ Probed \subseteq Stored
    BY ScanType
  <1>2. A \subseteq S /\ S \in SUBSET Rules
    BY <1>1, StoredProps
  <1>3. IsBest(x, A)
    <2>1. x = Best(A)
      BY DEF Inv, ScanBest
    <2> HIDE DEF A, x
    <2> QED BY <1>2, <2>1, BestExists
  <1>4. \A k \in DOMAIN tuples_map :
          /\ tuples_map[k].max_priority \in Nat
          /\ \A r \in tuples_map[k].rules : Prio[r] <= tuples_map[k].max_priority
    <2>1. ASSUME NEW k \in DOMAIN tuples_map
          PROVE  /\ tuples_map[k].rules \in SUBSET Rules /\ tuples_map[k].max_priority \in Nat
                 /\ tuples_map[k].max_priority = Best(tuples_map[k].rules)
      BY TupleType DEF Inv, GoodMap, GoodTuple
    <2> QED BY <2>1, BestExists DEF IsBest
  <1>5. ASSUME NEW r \in S PROVE Prio[r] <= x
    <2>1. CASE r \in Probed
      BY <1>3, <2>1 DEF IsBest
    <2>2. CASE r \notin Probed
      <3>1. PICK u \in DOMAIN tuples_map : r \in tuples_map[u].rules
        BY DEF Stored
      <3>2. PICK i \in DOMAIN tuples_arr : tuples_arr[i] = u
        BY <3>1 DEF Inv, ArrayGood, Lists
      <3>3. i > scan.tuples
        BY <1>1, <2>2, <3>1, <3>2 DEF Probed
      <3> DEFINE k == scan.tuples + 1
      <3>4. k \in DOMAIN tuples_arr /\ k <= i /\ scan.tuples < Len(tuples_arr)
        BY <1>1, <3>2, <3>3
      <3>5. x >= tuples_map[tuples_arr[k]].max_priority
        BY <3>4 DEF ScanOver, NextTuple
      <3>6. tuples_map[tuples_arr[k]].max_priority \in Nat
        BY <1>1, <1>4, <3>4
      <3>7. tuples_map[tuples_arr[k]].max_priority >= tuples_map[u].max_priority
        <4>1. CASE k = i
          BY <1>4, <3>2, <3>6, <4>1
        <4>2. CASE k # i
          <5>1. k < i
            BY <1>1, <3>2, <3>4, <4>2
          <5> HIDE DEF k
          <5> QED BY <3>2, <3>4, <5>1 DEF Inv, ArrayGood, Descends
        <4> QED BY <4>1, <4>2
      <3>8. Prio[r] <= tuples_map[u].max_priority /\ tuples_map[u].max_priority \in Nat
        BY <1>4, <3>1
      <3>9. Prio[r] \in Nat
        BY <1>2, PrioType
      <3> HIDE DEF k
      <3> QED BY <1>1, <3>5, <3>6, <3>7, <3>8, <3>9
    <2> QED BY <2>1, <2>2
  <1>6. IsBest(x, S)
    <2>1. x \in {0} \cup {Prio[r] : r \in S}
      BY <1>2, <1>3 DEF IsBest
    <2> HIDE DEF S, x
    <2> QED BY <1>5, <2>1 DEF IsBest
  <1> HIDE DEF S, x
  <1>7. x = Best(S)
    BY <1>2, <1>6, BestUnique
  <1> QED BY <1>7 DEF S, x

LEMMA LookupEndInv ==
  ASSUME Inv, LookupEnd
  PROVE  /\ Inv' /\ Stored' = Stored /\ scan.packet \in Packets
         /\ answer' = <<scan.packet, Best({r \in Stored : Matches(r, scan.packet)})>>
PROOF
  <1>1. /\ scan # NoScan /\ ScanOver /\ answer' = <<scan.packet, scan.priority>>
        /\ scan' = NoScan /\ UNCHANGED store /\ tuple_ranges' = tuple_ranges
    BY DEF LookupEnd
  <1>2. ScanBest' /\ ScanTyped'
    BY <1>1 DEF ScanBest, ScanTyped
  <1> QED BY <1>1, <1>2, ScanType, OverIsBest, StoreSame

----------------------------------------------------------------------------
(***************************************************************************)
(* The invariant holds throughout.                                         *)
(***************************************************************************)

LEMMA InitInv == Init => Inv /\ Stored = {} /\ answer = <<>>
PROOF
  <1> SUFFICES ASSUME Init PROVE Inv /\ Stored = {} /\ answer = <<>>
    OBVIOUS
  <1>1. /\ tuple_ranges \in Partitions /\ DOMAIN tuples_map = {} /\ tuples_arr = <<>>
        /\ max_tuples_num = InitTuples /\ rules_num = 0 /\ max_priority = 0
        /\ scan = NoScan /\ answer = <<>>
    BY DEF Init
  <1>2. Stored = {}
    BY <1>1 DEF Stored
  <1>3. GoodMap(tuples_map) /\ RangesGood
    BY <1>1 DEF GoodMap, RangesGood
  <1>4. ArrayGood
    <2>1. Len(tuples_arr) = 0 /\ DOMAIN tuples_arr = {}
      BY <1>1
    <2>2. max_tuples_num \in Nat \ {0}
      BY <1>1, DynamicAssumption
    <2>3. Lists(tuples_arr, DOMAIN tuples_map)
      BY <1>1, EmptyLists
    <2> QED BY <1>1, <2>1, <2>2, <2>3 DEF ArrayGood, Descends
  <1>5. rules_num = Cardinality(Stored)
    BY <1>1, <1>2, FS_EmptySet
  <1> QED BY <1>1, <1>2, <1>3, <1>4, <1>5 DEF Inv, MaxCovers, ScanTyped, ScanBest

\* LookupStart and LookupProbe map to stutters, the rest to steps of the
\* classifier, in which no lookup ever answers wrong.
StepMeaning ==
  \/ Stored' = Stored /\ answer' = answer
  \/ \E r \in Rules :
       \/ r \notin Stored /\ Stored' = Stored \cup {r} /\ answer' = <<>>
       \/ r \in Stored /\ Stored' = Stored \ {r} /\ answer' = <<>>
  \/ \E p \in Packets :
       Stored' = Stored /\ answer' = <<p, Best({r \in Stored : Matches(r, p)})>>

LEMMA StepInv == Inv /\ [Next]_vars => Inv' /\ StepMeaning
PROOF
  <1> SUFFICES ASSUME Inv, [Next]_vars PROVE Inv' /\ StepMeaning
    OBVIOUS
  <1> HIDE DEF Inv
  <1>1. ASSUME NEW r \in Rules, InsertRule(r) PROVE Inv' /\ StepMeaning
    BY <1>1, InsertRuleInv DEF StepMeaning
  <1>2. ASSUME NEW r \in Rules, DeleteRule(r) PROVE Inv' /\ StepMeaning
    BY <1>2, DeleteRuleInv DEF StepMeaning
  <1>3. ASSUME NEW p \in Packets, LookupStart(p) PROVE Inv' /\ StepMeaning
    BY <1>3, LookupStartInv DEF StepMeaning
  <1>4. CASE LookupProbe
    BY <1>4, LookupProbeInv DEF StepMeaning
  <1>5. CASE LookupEnd
    BY <1>5, LookupEndInv DEF StepMeaning
  <1>6. CASE UNCHANGED vars
    <2>1. UNCHANGED store /\ scan' = scan /\ answer' = answer /\ tuple_ranges' = tuple_ranges
          /\ tuples_map' = tuples_map /\ tuples_arr' = tuples_arr
      BY <1>6 DEF vars, store
    <2>2. ScanBest' /\ ScanTyped'
      <3>1. Probed' = Probed
        BY <2>1 DEF Probed
      <3> QED BY <2>1, <3>1 DEF Inv, ScanTyped, ScanBest
    <2> QED BY <2>1, <2>2, StoreSame DEF StepMeaning
  <1> QED BY <1>1, <1>2, <1>3, <1>4, <1>5, <1>6 DEF Next

\* The invariant holds in every state.
THEOREM Invariance == Spec => []Inv
PROOF
  <1>1. Init => Inv
    BY InitInv
  <1>2. Inv /\ [Next]_vars => Inv'
    BY StepInv
  <1> QED BY <1>1, <1>2, PTL DEF Spec

----------------------------------------------------------------------------
(***************************************************************************)
(* The properties.                                                         *)
(***************************************************************************)

LEMMA InvTypeOK == Inv => TypeOK
PROOF
  <1> SUFFICES ASSUME Inv PROVE TypeOK
    OBVIOUS
  <1>1. tuple_ranges \subseteq TupleRange
    BY DynamicAssumption DEF Inv, RangesGood
  <1>2. \A k \in DOMAIN tuples_map : k \in Nat /\ tuples_map[k] \in Tuple
    BY DEF Inv, GoodMap, GoodTuple
  <1>3. tuples_arr \in Seq(DOMAIN tuples_map) /\ max_tuples_num \in Nat
        /\ Len(tuples_arr) <= max_tuples_num
    BY DEF Inv, ArrayGood, Lists
  <1>4. rules_num \in Nat /\ max_priority \in Nat
    BY StoredProps DEF Inv
  <1> QED BY <1>1, <1>2, <1>3, <1>4 DEF Inv, ScanTyped, TypeOK

LEMMA InvArrayExact == Inv => ArrayExact
BY ListsCount DEF Inv, ArrayGood, ArrayExact, Elements

LEMMA InvTuplesExact == Inv => TuplesExact
PROOF
  <1> SUFFICES ASSUME Inv PROVE TuplesExact
    OBVIOUS
  <1>1. ASSUME NEW k \in DOMAIN tuples_map
        PROVE  LET T == tuples_map[k] IN
               /\ T.rules # {} /\ T.rules = {r \in Stored : PrefixPair(r) = k}
               /\ \A r \in T.rules : Fits(r, T.shape)
               /\ T.rules_num = Cardinality(T.rules)
               /\ T.max_priority = Best(T.rules)
    <2>1. GoodTuple(tuples_map[k], k) /\ RangesGood
          /\ tuples_map[k].rules = {r \in Stored : PrefixPair(r) = k}
      BY StoredProps DEF Inv
    <2>2. ASSUME NEW r \in tuples_map[k].rules PROVE Fits(r, tuples_map[k].shape)
      <3>1. r \in Rules /\ tuples_map[k].shape = ShapeOf(r)
        BY <2>1, TupleType DEF GoodTuple
      <3> QED BY <2>1, <3>1, ShapeType
    <2> QED BY <2>1, <2>2 DEF GoodTuple
  <1> QED BY <1>1 DEF TuplesExact, Inv

\* Map, array and counters agree after every update and at every turn of a lookup, a
\* rule fits the tuple it is in, and the entry a delete drops from the end of the
\* array is the tuple it has emptied (dynamictuple.cpp:52-93, 190-223).
THEOREM Sound == Spec => []TuplesSound
PROOF
  <1>1. Inv => TuplesSound
    BY InvTypeOK, InvArrayExact, InvTuplesExact DEF Inv, TuplesSound
  <1> QED BY <1>1, Invariance, PTL

\* DynamicTuple implements the classifier, whatever the partition: the initial
\* states and every step of it (dynamictuple.cpp:70-93, 190-223, 354-417).
THEOREM Refinement == Spec => ClassifierSpec
PROOF
  <1>1. Init => Abstract!Init
    BY InitInv DEF Abstract!Init
  <1>2. \A S : Abstract!Best(S) = Best(S)
    BY DEF Abstract!Best, Best
  <1>3. StepMeaning => [Abstract!Next]_<<Stored, answer>>
    <2> SUFFICES ASSUME StepMeaning PROVE [Abstract!Next]_<<Stored, answer>>
      OBVIOUS
    <2>1. CASE Stored' = Stored /\ answer' = answer
      BY <2>1
    <2>2. ASSUME NEW r \in Rules, r \notin Stored, Stored' = Stored \cup {r}, answer' = <<>>
          PROVE  Abstract!Next
      BY <2>2 DEF Abstract!Next, Abstract!Insert
    <2>3. ASSUME NEW r \in Rules, r \in Stored, Stored' = Stored \ {r}, answer' = <<>>
          PROVE  Abstract!Next
      BY <2>3 DEF Abstract!Next, Abstract!Delete
    <2>4. ASSUME NEW p \in Packets, Stored' = Stored,
                 answer' = <<p, Best({r \in Stored : Matches(r, p)})>>
          PROVE  Abstract!Next
      BY <1>2, <2>4 DEF Abstract!Next, Abstract!Lookup
    <2> QED BY <2>1, <2>2, <2>3, <2>4 DEF StepMeaning
  <1>4. Inv /\ [Next]_vars => [Abstract!Next]_<<Stored, answer>>
    BY <1>3, StepInv
  <1> QED BY <1>1, <1>4, Invariance, PTL DEF Spec, ClassifierSpec, Abstract!Spec
=============================================================================
