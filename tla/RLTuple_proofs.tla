--------------------------- MODULE RLTuple_proofs ---------------------------
(***************************************************************************)
(* RLTuple keeps its array sorted, its rules findable and its lookups      *)
(* right, whatever the rules, the shapes that fit a key and the limits     *)
(* are, and implements the classifier of module Classifier.  With callers  *)
(* that delete only what is stored, its counters and the estimate are      *)
(* exact too: module MCRLTuple has the variable that says so, and none of  *)
(* its values for the constants is used here.  The last part is about the  *)
(* session with the learning agent, module RLSession, whose program is     *)
(* such a caller.                                                          *)
(***************************************************************************)
EXTENDS MCRLTuple, RLSession, ListLemmas

----------------------------------------------------------------------------
(***************************************************************************)
(* The best of a set of rules.                                             *)
(***************************************************************************)

IsBest(m, S) == m \in {0} \cup {Prio[r] : r \in S} /\ \A r \in S : Prio[r] <= m

\* A non-empty set of rules has one that is best.
LEMMA SomeRuleBest ==
  ASSUME NEW S \in SUBSET Rules, S # {}
  PROVE  \E m \in S : \A r \in S : Prio[r] <= Prio[m]
PROOF
  <1>1. IsFiniteSet(S) /\ \A r \in S : Prio[r] \in Int
    BY FS_Subset, ClassifierAssumption
  <1> QED BY <1>1, SomeBest

LEMMA BestExists ==
  ASSUME NEW S \in SUBSET Rules
  PROVE  IsBest(Best(S), S) /\ Best(S) \in Nat
PROOF
  <1>1. Prio \in [Rules -> Nat]
    BY ClassifierAssumption
  <1>2. \E m \in {0} \cup {Prio[r] : r \in S} : \A r \in S : Prio[r] <= m
    <2>1. CASE S = {}
      BY <2>1
    <2>2. CASE S # {}
      <3>1. PICK b \in S : \A r \in S : Prio[r] <= Prio[b]
        BY <2>2, SomeRuleBest
      <3> QED BY <3>1
    <2> QED BY <2>1, <2>2
  <1>3. IsBest(Best(S), S)
    BY <1>2 DEF IsBest, Best
  <1> QED BY <1>1, <1>3 DEF IsBest

LEMMA BestUnique ==
  ASSUME NEW S \in SUBSET Rules, NEW m, IsBest(m, S)
  PROVE  m = Best(S)
PROOF
  <1>1. Prio \in [Rules -> Nat \ {0}]
    BY ClassifierAssumption
  <1>2. IsBest(Best(S), S)
    BY BestExists
  <1> QED BY <1>1, <1>2 DEF IsBest

----------------------------------------------------------------------------
(***************************************************************************)
(* A rule that fits a shape has the key of every packet it matches.        *)
(***************************************************************************)

TupleShapes == Shapes \cup {Default}

LEMMA ShapeType ==
  ASSUME NEW s \in TupleShapes
  PROVE  /\ s \in Shape /\ DOMAIN s.used_field = DOMAIN s.prefix_len
         /\ \A j \in DOMAIN s.used_field : s.used_field[j] \in Fields /\ s.prefix_len[j] \in Nat
PROOF
  <1>1. CASE s \in Shapes
    BY <1>1, ClassifierAssumption DEF Shape
  <1>2. CASE s = Default
    <2>1. <<0>> \in Seq(Fields) /\ <<0>> \in Seq(Nat)
      BY PrefixAssumption
    <2> QED BY <1>2, <2>1 DEF Default, Shape
  <1> QED BY <1>1, <1>2 DEF TupleShapes

LEMMA SameKey ==
  ASSUME NEW r \in Rules, NEW p \in Packets, NEW s \in TupleShapes,
         Fits(r, s), Matches(r, p)
  PROVE  RuleKey(r, s) = PacketKey(p, s)
PROOF
  <1>1. ASSUME NEW j \in DOMAIN s.used_field
        PROVE  Shr(Lo[r][s.used_field[j]], Width[s.used_field[j]] - s.prefix_len[j])
               = Shr(p[s.used_field[j]], Width[s.used_field[j]] - s.prefix_len[j])
    <2> DEFINE f == s.used_field[j]  len == s.prefix_len[j]
    <2>1. f \in Fields /\ len \in Nat
      BY ShapeType
    <2>2. len \in 0 .. PrefixLen[r][f]
      <3>1. PrefixLen[r][f] \in Nat
        BY <2>1, PrefixAssumption
      <3> QED BY <2>1, <3>1 DEF Fits
    <2>3. Lo[r][f] <= p[f] /\ p[f] <= Hi[r][f]
      BY <2>1 DEF Matches
    <2> HIDE DEF f, len
    <2>4. Shr(p[f], Width[f] - len) = Shr(Lo[r][f], Width[f] - len)
      BY <2>1, <2>2, <2>3, PrefixAssumption
    <2> QED BY <2>4 DEF f, len
  <1>2. Values(Lo[r], s) = Values(p, s)
    BY <1>1 DEF Values
  <1> QED BY <1>2 DEF RuleKey, PacketKey

\* Every rule fits a default tuple.
LEMMA FitsDefault == ASSUME NEW r \in Rules PROVE Fits(r, Default)
PROOF
  <1>1. PrefixLen[r][0] \in Nat
    BY PrefixAssumption
  <1> QED BY <1>1 DEF Fits, Default

----------------------------------------------------------------------------
(***************************************************************************)
(* The inductive invariant.  EntryFits is what makes a rule that comes     *)
(* back through id2tuple fit; HeapCovers bounds the numbers of a tuple     *)
(* from below, which is all that is left of them after a failed delete.    *)
(***************************************************************************)

HeapCovers(h) ==
  \A t \in DOMAIN h : /\ Cardinality(h[t].rules) <= h[t].rules_num
                      /\ \A r \in h[t].rules : Prio[r] <= h[t].max_priority

EntryFits == \A r \in DOMAIN id2tuple :
               id2tuple[r] # NULL => Fits(r, tuple[id2tuple[r]].shape)

NumCovers == Cardinality(Stored) <= rules_num

ScanBest == scan # NoScan =>
              scan.priority = Best({r \in Probed : Matches(r, scan.packet)})

Inv == /\ TypeOK
       /\ HeapCovers(tuple)
       /\ ArraySorted
       /\ EntryExact
       /\ EntryFits
       /\ NumCovers
       /\ MaxCovers
       /\ ScanBest

\* The rules of a heap.
RulesOf(h) == UNION {h[t].rules : t \in DOMAIN h}

LEMMA TupleType ==
  ASSUME NEW T \in Tuple
  PROVE  /\ T.shape \in TupleShapes /\ T.rules \subseteq Rules /\ IsFiniteSet(T.rules)
         /\ T.rules_num \in Nat /\ T.max_priority \in Nat /\ Cardinality(T.rules) \in Nat
PROOF
  <1>1. T.shape \in TupleShapes /\ T.rules \subseteq Rules /\ T.rules_num \in Nat /\ T.max_priority \in Nat
    BY DEF Tuple, TupleShapes
  <1>2. IsFiniteSet(T.rules)
    BY <1>1, FS_Subset, ClassifierAssumption
  <1>3. Cardinality(T.rules) \in Nat
    BY <1>2, FS_CardinalityType
  <1> QED BY <1>1, <1>2, <1>3

LEMMA HeapType ==
  ASSUME NEW h \in Seq(Tuple), NEW t \in DOMAIN h
  PROVE  h[t] \in Tuple
OBVIOUS

LEMMA RulesOfFinite ==
  ASSUME NEW h \in Seq(Tuple)
  PROVE  /\ RulesOf(h) \subseteq Rules /\ IsFiniteSet(RulesOf(h))
         /\ Cardinality(RulesOf(h)) \in Nat
PROOF
  <1>1. RulesOf(h) \subseteq Rules
    BY HeapType, TupleType DEF RulesOf
  <1>2. IsFiniteSet(RulesOf(h))
    BY <1>1, FS_Subset, ClassifierAssumption
  <1> QED BY <1>1, <1>2, FS_CardinalityType

\* TupleInsert and TupleDelete, on tuples of the right type.
LEMMA TupleInsertType ==
  ASSUME NEW T \in Tuple, NEW r \in Rules, r \notin T.rules,
         Cardinality(T.rules) <= T.rules_num, \A q \in T.rules : Prio[q] <= T.max_priority
  PROVE  LET U == TupleInsert(T, r) IN
         /\ U \in Tuple /\ U.shape = T.shape /\ U.rules = T.rules \cup {r}
         /\ Cardinality(U.rules) <= U.rules_num
         /\ \A q \in U.rules : Prio[q] <= U.max_priority
         /\ U.max_priority # Prio[r] => U.max_priority = T.max_priority
PROOF
  <1> DEFINE U == TupleInsert(T, r)
  <1>1. Prio[r] \in Nat
    BY ClassifierAssumption
  <1> DEFINE best == IF Prio[r] > T.max_priority THEN Prio[r] ELSE T.max_priority
  <1>a. best \in Nat /\ T.rules_num + 1 \in Nat /\ T.rules \cup {r} \in SUBSET Rules
    BY <1>1, TupleType
  <1>b. U = [T EXCEPT !.rules = T.rules \cup {r}, !.rules_num = T.rules_num + 1,
                      !.max_priority = best]
    BY DEF TupleInsert
  <1>2. /\ U.shape = T.shape /\ U.rules = T.rules \cup {r} /\ U.rules_num = T.rules_num + 1
        /\ U.max_priority = best
        /\ U \in Tuple
    <2> HIDE DEF best, U
    <2> QED BY <1>a, <1>b, ZenonT(60) DEF Tuple
  <1>3. Cardinality(U.rules) = Cardinality(T.rules) + 1
    BY <1>2, TupleType, FS_AddElement
  <1>4. Cardinality(U.rules) <= U.rules_num
    BY <1>2, <1>3, TupleType
  <1>5. ASSUME NEW q \in U.rules PROVE Prio[q] <= U.max_priority
    <2>1. Prio[q] \in Nat /\ T.max_priority \in Nat
      BY <1>2, TupleType, ClassifierAssumption
    <2> HIDE DEF U
    <2> QED BY <1>1, <1>2, <2>1
  <1> HIDE DEF U
  <1>6. U.max_priority # Prio[r] => U.max_priority = T.max_priority
    BY <1>2
  <1> QED BY <1>2, <1>4, <1>5, <1>6 DEF U

LEMMA TupleDeleteType ==
  ASSUME NEW T \in Tuple, NEW r \in T.rules,
         Cardinality(T.rules) <= T.rules_num, \A q \in T.rules : Prio[q] <= T.max_priority
  PROVE  LET U == TupleDelete(T, r) IN
         /\ U \in Tuple /\ U.shape = T.shape /\ U.rules = T.rules \ {r}
         /\ Cardinality(U.rules) <= U.rules_num
         /\ \A q \in U.rules : Prio[q] <= U.max_priority
         /\ Prio[r] <= U.max_priority => U.max_priority = T.max_priority
PROOF
  <1> DEFINE U == TupleDelete(T, r)  rest == T.rules \ {r}
  <1>1. r \in Rules /\ rest \in SUBSET Rules /\ Prio \in [Rules -> Nat \ {0}]
    BY TupleType, ClassifierAssumption
  <1>2. IsBest(Best(rest), rest) /\ Best(rest) \in Nat
    BY <1>1, BestExists
  <1>3. Cardinality(rest) = Cardinality(T.rules) - 1 /\ Cardinality(rest) \in Nat
    BY TupleType, FS_RemoveElement, FS_CardinalityType
  <1>4. T.rules_num \in Nat /\ T.rules_num - 1 \in Nat /\ Cardinality(rest) <= T.rules_num - 1
    BY <1>3, TupleType
  <1>5. /\ U.shape = T.shape /\ U.rules = rest /\ U.rules_num = T.rules_num - 1
        /\ U.max_priority = IF Prio[r] = T.max_priority THEN Best(rest) ELSE T.max_priority
    BY DEF TupleDelete, Tuple
  <1>6. U \in Tuple
    BY <1>1, <1>2, <1>4 DEF TupleDelete, Tuple
  <1> HIDE DEF U
  <1>7. T.max_priority \in Nat
    BY TupleType
  <1>8. ASSUME NEW q \in U.rules PROVE Prio[q] <= U.max_priority
    BY <1>2, <1>5 DEF IsBest
  <1>9. Prio[r] <= U.max_priority => U.max_priority = T.max_priority
    <2>1. Best(rest) <= T.max_priority
      BY <1>2, <1>7 DEF IsBest
    <2> HIDE DEF rest
    <2> QED BY <1>1, <1>2, <1>5, <1>7, <2>1
  <1> QED BY <1>4, <1>5, <1>6, <1>8, <1>9 DEF U

----------------------------------------------------------------------------
(***************************************************************************)
(* Changing one tuple of a heap, and the array that lists it.              *)
(***************************************************************************)

\* arr lists the tuples of heap h
ArrayOf(arr, h) == /\ arr \in Seq(DOMAIN h) /\ Elements(arr) = DOMAIN h
                 /\ Len(arr) = Len(h)

LEMMA ReplaceTuple ==
  ASSUME NEW h \in Seq(Tuple), NEW t \in DOMAIN h, NEW U \in Tuple
  PROVE  LET g == [h EXCEPT ![t] = U] IN
         /\ g \in Seq(Tuple) /\ DOMAIN g = DOMAIN h /\ Len(g) = Len(h)
         /\ g[t] = U /\ \A u \in DOMAIN h : u # t => g[u] = h[u]
OBVIOUS

LEMMA AppendTuple ==
  ASSUME NEW h \in Seq(Tuple), NEW U \in Tuple, NEW arr, ArrayOf(arr, h)
  PROVE  LET g == Append(h, U)  t == Len(h) + 1 IN
         /\ g \in Seq(Tuple) /\ DOMAIN g = DOMAIN h \cup {t} /\ t \notin DOMAIN h
         /\ g[t] = U /\ \A u \in DOMAIN h : g[u] = h[u]
         /\ ArrayOf(Append(arr, t), g)
PROOF
  <1> DEFINE g == Append(h, U)  t == Len(h) + 1  more == Append(arr, t)
  <1>1. g \in Seq(Tuple) /\ Len(g) = t /\ DOMAIN g = 1 .. t /\ DOMAIN h = 1 .. Len(h) /\ Len(h) \in Nat
    OBVIOUS
  <1>2. g[t] = U /\ \A u \in DOMAIN h : g[u] = h[u]
    OBVIOUS
  <1>3. DOMAIN g = DOMAIN h \cup {t} /\ t \notin DOMAIN h
    BY <1>1
  <1>4. arr \in Seq(DOMAIN g)
    BY <1>3 DEF ArrayOf
  <1>5. more \in Seq(DOMAIN g) /\ Len(more) = Len(arr) + 1
    BY <1>3, <1>4
  <1>6. /\ DOMAIN arr = 1 .. Len(arr) /\ Len(arr) \in Nat
        /\ DOMAIN more = 1 .. Len(arr) + 1 /\ more[Len(arr) + 1] = t
        /\ \A i \in 1 .. Len(arr) : more[i] = arr[i]
    BY <1>4
  <1>7. Elements(more) = Elements(arr) \cup {t}
    <2> HIDE DEF more, t
    <2>1. 1 .. Len(arr) + 1 = 1 .. Len(arr) \cup {Len(arr) + 1}
      BY <1>6
    <2> QED BY <1>6, <2>1 DEF Elements
  <1> QED BY <1>1, <1>2, <1>3, <1>5, <1>7 DEF ArrayOf

LEMMA SortLists ==
  ASSUME NEW h \in Seq(Tuple), NEW arr, ArrayOf(arr, h), SortTuples(h, arr)
  PROVE  ArrayOf(tuples_arr', h) /\ Descends(h, tuples_arr')
PROOF
  <1>1. PICK s \in [DOMAIN arr -> Elements(arr)] :
          Rearranges(s, arr) /\ Descends(h, s) /\ tuples_arr' = s
    BY DEF SortTuples
  <1>2. s \in Seq(DOMAIN h)
    <2>1. DOMAIN arr = 1 .. Len(arr) /\ Len(arr) \in Nat /\ Elements(arr) = DOMAIN h
      BY DEF ArrayOf
    <2> QED BY <1>1, <2>1
  <1> QED BY <1>1, <1>2 DEF Rearranges, ArrayOf

\* An array that descends goes on descending when no max_priority changes.
LEMMA DescendsStill ==
  ASSUME NEW h, NEW g, NEW arr, Elements(arr) \subseteq DOMAIN h, Descends(h, arr),
         \A u \in DOMAIN h : g[u].max_priority = h[u].max_priority
  PROVE  Descends(g, arr)
BY DEF Descends, Elements

LEMMA TypeLists ==
  ASSUME Inv
  PROVE  /\ tuple \in Seq(Tuple) /\ ArrayOf(tuples_arr, tuple)
         /\ Stored = RulesOf(tuple) /\ Stored \subseteq Rules
         /\ IsFiniteSet(Stored) /\ Cardinality(Stored) \in Nat
PROOF
  <1>1. tuple \in Seq(Tuple) /\ ArrayOf(tuples_arr, tuple)
    BY DEF Inv, TypeOK, ArrayOf
  <1> QED BY <1>1, RulesOfFinite DEF Stored, RulesOf

\* A new capacity is enough for one more tuple.
LEMMA CapacityGrows ==
  ASSUME TypeOK
  PROVE  Capacity(Len(tuples_arr)) \in Nat /\ Len(tuples_arr) + 1 <= Capacity(Len(tuples_arr))
PROOF
  <1>1. Len(tuples_arr) \in Nat /\ max_tuples_num \in Nat \ {0} /\ Len(tuples_arr) <= max_tuples_num
    BY DEF TypeOK
  <1> QED BY <1>1 DEF Capacity

----------------------------------------------------------------------------
(***************************************************************************)
(* Inserts.  SettleInv is what the four ways of an insert share: rule r is *)
(* in tuple t of the new heap h, which arr lists.                          *)
(***************************************************************************)

LEMMA SettleInv ==
  ASSUME Inv, scan = NoScan, NEW r \in Rules, r \notin Stored,
         NEW h \in Seq(Tuple), NEW arr, ArrayOf(arr, h), NEW t \in DOMAIN h,
         HeapCovers(h), RulesOf(h) = Stored \cup {r},
         Prio[r] # h[t].max_priority => Descends(h, arr),
         max_tuples_num' \in Nat \ {0}, Len(h) <= max_tuples_num',
         Settle(h, arr, t, r)
  PROVE  /\ tuple' = h /\ ArrayOf(tuples_arr', h) /\ Len(tuples_arr') <= max_tuples_num'
         /\ ArraySorted' /\ NumCovers' /\ MaxCovers' /\ scan' = NoScan
         /\ rules_num' \in Nat /\ max_priority' \in Nat
         /\ Stored' = Stored \cup {r} /\ answer' = <<>>
PROOF
  <1>1. /\ tuple' = h /\ answer' = <<>> /\ scan' = NoScan
        /\ IF Prio[r] = h[t].max_priority THEN SortTuples(h, arr) ELSE tuples_arr' = arr
        /\ rules_num' = rules_num + 1
        /\ max_priority' = IF Prio[r] > max_priority THEN Prio[r] ELSE max_priority
    BY DEF Settle
  <1>2. ArrayOf(tuples_arr', h) /\ Descends(h, tuples_arr')
    BY <1>1, SortLists
  <1>3. ArraySorted'
    BY <1>1, <1>2 DEF ArraySorted
  <1>4. Len(tuples_arr') <= max_tuples_num'
    BY <1>2 DEF ArrayOf
  <1>5. Stored' = Stored \cup {r}
    BY <1>1 DEF Stored, RulesOf
  <1>6. rules_num \in Nat /\ max_priority \in Nat
    BY DEF Inv, TypeOK
  <1>7. Prio \in [Rules -> Nat]
    BY ClassifierAssumption
  <1>8. NumCovers'
    <2>1. Cardinality(Stored \cup {r}) = Cardinality(Stored) + 1 /\ Cardinality(Stored) \in Nat
      BY TypeLists, FS_AddElement
    <2>2. Cardinality(Stored) <= rules_num
      BY DEF Inv, NumCovers
    <2>3. Cardinality(Stored') <= rules_num'
      BY <1>1, <1>5, <1>6, <2>1, <2>2
    <2> QED BY <2>3 DEF NumCovers
  <1>9. MaxCovers'
    <2>1. \A q \in Stored : Prio[q] <= max_priority /\ Prio[q] \in Nat
      BY <1>7, TypeLists DEF Inv, MaxCovers
    <2>2. \A q \in Stored' : Prio[q] <= max_priority'
      BY <1>1, <1>5, <1>6, <1>7, <2>1
    <2> QED BY <2>2 DEF MaxCovers
  <1> QED BY <1>1, <1>2, <1>3, <1>4, <1>5, <1>6, <1>7, <1>8, <1>9

\* The insert of r into tuple t of the heap.
LEMMA PutIntoInv ==
  ASSUME Inv, scan = NoScan, NEW r \in Rules, r \notin Stored,
         NEW t \in DOMAIN tuple, PutInto(t, r), UNCHANGED max_tuples_num
  PROVE  /\ tuple' \in Seq(Tuple) /\ ArrayOf(tuples_arr', tuple') /\ HeapCovers(tuple')
         /\ Len(tuples_arr') <= max_tuples_num'
         /\ ArraySorted' /\ NumCovers' /\ MaxCovers' /\ scan' = NoScan
         /\ rules_num' \in Nat /\ max_priority' \in Nat
         /\ Stored' = Stored \cup {r} /\ answer' = <<>>
         /\ DOMAIN tuple' = DOMAIN tuple
         /\ \A u \in DOMAIN tuple : /\ tuple'[u].shape = tuple[u].shape
                                    /\ u # t => tuple'[u].rules = tuple[u].rules
         /\ tuple'[t].rules = tuple[t].rules \cup {r}
PROOF
  <1> DEFINE T == tuple[t]
             U == TupleInsert(T, r)
             h == [tuple EXCEPT ![t] = U]
  <1>1. tuple \in Seq(Tuple) /\ ArrayOf(tuples_arr, tuple) /\ T \in Tuple /\ r \notin T.rules
        /\ HeapCovers(tuple)
    BY TypeLists, HeapType DEF Stored, Inv
  <1>2. Cardinality(T.rules) <= T.rules_num /\ \A q \in T.rules : Prio[q] <= T.max_priority
    BY <1>1 DEF HeapCovers
  <1> HIDE DEF T
  <1>3. /\ U \in Tuple /\ U.shape = T.shape /\ U.rules = T.rules \cup {r}
        /\ Cardinality(U.rules) <= U.rules_num
        /\ \A q \in U.rules : Prio[q] <= U.max_priority
        /\ U.max_priority # Prio[r] => U.max_priority = T.max_priority
    BY <1>1, <1>2, TupleInsertType
  <1>4. Settle(h, tuples_arr, t, r)
    BY DEF PutInto, T
  <1> HIDE DEF U
  <1>5. /\ h \in Seq(Tuple) /\ DOMAIN h = DOMAIN tuple /\ Len(h) = Len(tuple)
        /\ h[t] = U /\ \A u \in DOMAIN tuple : u # t => h[u] = tuple[u]
    BY <1>1, <1>3, ReplaceTuple
  <1> HIDE DEF h
  <1>6. HeapCovers(h)
    BY <1>1, <1>3, <1>5 DEF HeapCovers
  <1>7. RulesOf(h) = Stored \cup {r}
    BY <1>3, <1>5 DEF RulesOf, Stored, T
  <1>8. ArrayOf(tuples_arr, h)
    BY <1>1, <1>5 DEF ArrayOf
  <1>9. ASSUME Prio[r] # h[t].max_priority PROVE Descends(h, tuples_arr)
    <2>1. \A u \in DOMAIN tuple : h[u].max_priority = tuple[u].max_priority
      BY <1>3, <1>5, <1>9 DEF T
    <2>2. Elements(tuples_arr) \subseteq DOMAIN tuple /\ Descends(tuple, tuples_arr)
      BY <1>1 DEF ArrayOf, Inv, ArraySorted
    <2> QED BY <2>1, <2>2, DescendsStill
  <1>10. max_tuples_num' \in Nat \ {0} /\ Len(h) <= max_tuples_num'
    BY <1>5 DEF Inv, TypeOK
  <1>11. /\ tuple' = h /\ ArrayOf(tuples_arr', h) /\ Len(tuples_arr') <= max_tuples_num'
         /\ ArraySorted' /\ NumCovers' /\ MaxCovers' /\ scan' = NoScan
         /\ rules_num' \in Nat /\ max_priority' \in Nat
         /\ Stored' = Stored \cup {r} /\ answer' = <<>>
    <2>1. t \in DOMAIN h
      BY <1>5
    <2> HIDE DEF Inv
    <2> QED BY <1>4, <1>5, <1>6, <1>7, <1>8, <1>9, <1>10, <2>1, SettleInv
  <1>12. \A u \in DOMAIN tuple : /\ h[u].shape = tuple[u].shape
                                 /\ u # t => h[u].rules = tuple[u].rules
    BY <1>3, <1>5 DEF T
  <1>13. h[t].rules = tuple[t].rules \cup {r}
    BY <1>3, <1>5 DEF T
  <1> QED BY <1>5, <1>6, <1>11, <1>12, <1>13

\* id2tuple names tuple t for r and is as before for all other rules.
Names(r, t) == /\ DOMAIN id2tuple' = DOMAIN id2tuple \cup {r} /\ id2tuple'[r] = t
               /\ \A q \in DOMAIN id2tuple : q # r => id2tuple'[q] = id2tuple[q]

LEMMA EntriesInv ==
  ASSUME Inv, NEW r \in Rules, r \notin Stored, NEW t, t # NULL, Names(r, t),
         t \in DOMAIN tuple', Fits(r, tuple'[t].shape),
         DOMAIN tuple' = DOMAIN tuple \cup {t},
         \A u \in DOMAIN tuple : /\ tuple'[u].shape = tuple[u].shape
                                 /\ u # t => tuple'[u].rules = tuple[u].rules,
         \A q \in tuple'[t].rules : q = r \/ (t \in DOMAIN tuple /\ q \in tuple[t].rules)
  PROVE  /\ EntryExact' /\ EntryFits' /\ DOMAIN id2tuple' \subseteq Rules
         /\ \A q \in DOMAIN id2tuple' : id2tuple'[q] \in DOMAIN tuple' \cup {NULL}
PROOF
  <1>1. /\ DOMAIN id2tuple \subseteq Rules
        /\ \A q \in DOMAIN id2tuple : id2tuple[q] \in DOMAIN tuple \cup {NULL}
        /\ EntryExact /\ EntryFits
    BY DEF Inv, TypeOK
  <1>2. \A q \in DOMAIN id2tuple' : id2tuple'[q] \in DOMAIN tuple' \cup {NULL}
    BY <1>1 DEF Names
  <1>3. EntryFits'
    <2>1. ASSUME NEW q \in DOMAIN id2tuple', id2tuple'[q] # NULL
          PROVE  Fits(q, tuple'[id2tuple'[q]].shape)
      <3>1. CASE q = r
        BY <3>1 DEF Names
      <3>2. CASE q # r
        <4>1. q \in DOMAIN id2tuple /\ id2tuple'[q] = id2tuple[q]
          BY <3>2 DEF Names
        <4>2. id2tuple[q] \in DOMAIN tuple /\ Fits(q, tuple[id2tuple[q]].shape)
          BY <1>1, <2>1, <4>1 DEF EntryFits
        <4> QED BY <4>1, <4>2
      <3> QED BY <3>1, <3>2
    <2> QED BY <2>1 DEF EntryFits
  <1>4. EntryExact'
    <2>1. ASSUME NEW u \in DOMAIN tuple', NEW q \in tuple'[u].rules
          PROVE  q \in DOMAIN id2tuple' /\ id2tuple'[q] = u
      <3>1. CASE u = t /\ q = r
        BY <3>1 DEF Names
      <3>2. CASE ~(u = t /\ q = r)
        <4>1. u \in DOMAIN tuple /\ q \in tuple[u].rules
          BY <3>2
        <4>2. q # r
          BY <4>1 DEF Stored
        <4> QED BY <1>1, <4>1, <4>2 DEF EntryExact, Names
      <3> QED BY <3>1, <3>2
    <2> QED BY <2>1 DEF EntryExact
  <1> QED BY <1>1, <1>2, <1>3, <1>4 DEF Names

LEMMA RememberNames ==
  ASSUME NEW r \in Rules, NEW t, Remember(r, t)
  PROVE  Names(r, t)
BY DEF Remember, Names

\* The parts of Inv, for a step outside a lookup.
LEMMA Join ==
  ASSUME /\ tuple' \in Seq(Tuple) /\ ArrayOf(tuples_arr', tuple') /\ HeapCovers(tuple')
         /\ max_tuples_num' \in Nat \ {0} /\ Len(tuples_arr') <= max_tuples_num'
         /\ ArraySorted' /\ NumCovers' /\ MaxCovers' /\ scan' = NoScan
         /\ rules_num' \in Nat /\ max_priority' \in Nat
         /\ EntryExact' /\ EntryFits' /\ DOMAIN id2tuple' \subseteq Rules
         /\ \A q \in DOMAIN id2tuple' : id2tuple'[q] \in DOMAIN tuple' \cup {NULL}
  PROVE  Inv'
PROOF
  <1>1. TypeOK'
    BY DEF TypeOK, ArrayOf
  <1>2. ScanBest'
    BY DEF ScanBest
  <1>3. HeapCovers(tuple)'
    BY DEF HeapCovers
  <1> QED BY <1>1, <1>2, <1>3 DEF Inv

LEMMA PutIntoStep ==
  ASSUME Inv, scan = NoScan, NEW r \in Rules, r \notin Stored,
         NEW t \in DOMAIN tuple, PutInto(t, r), UNCHANGED max_tuples_num,
         Fits(r, tuple[t].shape), Names(r, t)
  PROVE  Inv' /\ Stored' = Stored \cup {r} /\ answer' = <<>>
PROOF
  <1>1. /\ tuple' \in Seq(Tuple) /\ ArrayOf(tuples_arr', tuple') /\ HeapCovers(tuple')
        /\ Len(tuples_arr') <= max_tuples_num'
        /\ ArraySorted' /\ NumCovers' /\ MaxCovers' /\ scan' = NoScan
        /\ rules_num' \in Nat /\ max_priority' \in Nat
        /\ Stored' = Stored \cup {r} /\ answer' = <<>>
        /\ DOMAIN tuple' = DOMAIN tuple
        /\ \A u \in DOMAIN tuple : /\ tuple'[u].shape = tuple[u].shape
                                   /\ u # t => tuple'[u].rules = tuple[u].rules
        /\ tuple'[t].rules = tuple[t].rules \cup {r}
    BY PutIntoInv
  <1>2. t # NULL
    <2>1. tuple \in Seq(Tuple)
      BY TypeLists
    <2> QED BY <2>1 DEF NULL
  <1>3. /\ EntryExact' /\ EntryFits' /\ DOMAIN id2tuple' \subseteq Rules
        /\ \A q \in DOMAIN id2tuple' : id2tuple'[q] \in DOMAIN tuple' \cup {NULL}
    <2> HIDE DEF Inv
    <2> QED BY <1>1, <1>2, EntriesInv
  <1>4. max_tuples_num' \in Nat \ {0}
    BY DEF Inv, TypeOK
  <1> QED BY <1>1, <1>3, <1>4, Join

LEMMA InsertKnownInv ==
  ASSUME Inv, NEW r \in Rules, scan = NoScan, r \notin Stored, InsertKnown(r)
  PROVE  Inv' /\ Stored' = Stored \cup {r} /\ answer' = <<>>
PROOF
  <1>1. r \in DOMAIN id2tuple /\ id2tuple[r] # NULL /\ PutInto(id2tuple[r], r)
        /\ UNCHANGED <<max_tuples_num, id2tuple>>
    BY DEF InsertKnown
  <1>2. id2tuple[r] \in DOMAIN tuple /\ Fits(r, tuple[id2tuple[r]].shape)
    BY <1>1 DEF Inv, TypeOK, EntryFits
  <1>3. Names(r, id2tuple[r])
    BY <1>1 DEF Names
  <1> QED BY <1>1, <1>2, <1>3, PutIntoStep

LEMMA InsertChosenInv ==
  ASSUME Inv, NEW r \in Rules, scan = NoScan, r \notin Stored, InsertChosen(r)
  PROVE  Inv' /\ Stored' = Stored \cup {r} /\ answer' = <<>>
PROOF
  <1>1. PICK t \in Chosen(r) : PutInto(t, r) /\ Remember(r, t)
    BY DEF InsertChosen
  <1>2. t \in DOMAIN tuple /\ Fits(r, tuple[t].shape)
    BY <1>1 DEF Chosen, Candidates
  <1>3. Names(r, t) /\ UNCHANGED max_tuples_num
    BY <1>1, RememberNames DEF InsertChosen
  <1> QED BY <1>1, <1>2, <1>3, PutIntoStep

LEMMA InsertDefaultInv ==
  ASSUME Inv, NEW r \in Rules, scan = NoScan, r \notin Stored, InsertDefault(r)
  PROVE  Inv' /\ Stored' = Stored \cup {r} /\ answer' = <<>>
PROOF
  <1>1. PICK i \in DOMAIN tuples_arr :
          IsDefault(i, r) /\ PutInto(tuples_arr[i], r) /\ Remember(r, tuples_arr[i])
    BY DEF InsertDefault
  <1>2. tuples_arr[i] \in DOMAIN tuple /\ Fits(r, tuple[tuples_arr[i]].shape)
    BY <1>1 DEF IsDefault, Candidates
  <1>3. Names(r, tuples_arr[i]) /\ UNCHANGED max_tuples_num
    BY <1>1, RememberNames DEF InsertDefault
  <1> QED BY <1>1, <1>2, <1>3, PutIntoStep

LEMMA DefaultTupleType ==
  ASSUME NEW s \in TupleShapes
  PROVE  NewTuple(s) \in Tuple /\ Cardinality(NewTuple(s).rules) = 0
BY FS_EmptySet DEF NewTuple, Tuple, TupleShapes

\* The first rule of an empty tuple.
LEMMA FirstRule ==
  ASSUME NEW T \in Tuple, T.rules = {}, T.rules_num = 0, T.max_priority = 0, NEW r \in Rules
  PROVE  LET U == TupleInsert(T, r) IN
         /\ U \in Tuple /\ U.shape = T.shape /\ U.rules = {r}
         /\ Cardinality(U.rules) <= U.rules_num
         /\ \A q \in U.rules : Prio[q] <= U.max_priority
         /\ U.max_priority # Prio[r] => U.max_priority = 0
PROOF
  <1>1. PICK U : U = TupleInsert(T, r)
    OBVIOUS
  <1>2. r \notin T.rules /\ Cardinality(T.rules) <= T.rules_num
        /\ \A q \in T.rules : Prio[q] <= T.max_priority
    BY FS_EmptySet
  <1>3. /\ U \in Tuple /\ U.shape = T.shape /\ U.rules = T.rules \cup {r}
        /\ Cardinality(U.rules) <= U.rules_num
        /\ \A q \in U.rules : Prio[q] <= U.max_priority
        /\ U.max_priority # Prio[r] => U.max_priority = T.max_priority
    BY <1>1, <1>2, TupleInsertType
  <1>4. U.rules = {r}
    BY <1>3
  <1>5. U.max_priority # Prio[r] => U.max_priority = 0
    BY <1>3
  <1> HIDE DEF Tuple
  <1> QED BY <1>1, <1>3, <1>4, <1>5

LEMMA InsertNewDefaultInv ==
  ASSUME Inv, NEW r \in Rules, scan = NoScan, r \notin Stored, InsertNewDefault(r)
  PROVE  Inv' /\ Stored' = Stored \cup {r} /\ answer' = <<>>
PROOF
  <1> DEFINE N == NewTuple(Default)
             U == TupleInsert(N, r)
             t == Len(tuple) + 1
             h == Append(tuple, U)
             arr == Append(tuples_arr, t)
  <1>1. tuple \in Seq(Tuple) /\ ArrayOf(tuples_arr, tuple) /\ HeapCovers(tuple)
    BY TypeLists DEF Inv
  <1>2. N \in Tuple /\ N.rules = {} /\ N.shape = Default /\ N.rules_num = 0 /\ N.max_priority = 0
        /\ Cardinality(N.rules) = 0
    BY DefaultTupleType DEF NewTuple, TupleShapes
  <1>3. Prio[r] \in Nat \ {0}
    BY ClassifierAssumption
  <1> HIDE DEF N
  <1>4. /\ U \in Tuple /\ U.shape = Default /\ U.rules = {r}
        /\ Cardinality(U.rules) <= U.rules_num
        /\ \A q \in U.rules : Prio[q] <= U.max_priority
        /\ U.max_priority # Prio[r] => U.max_priority = 0
    BY <1>2, FirstRule
  <1>5. Settle(h, arr, t, r) /\ Remember(r, t) /\ max_tuples_num' = Capacity(Len(tuples_arr))
    BY DEF InsertNewDefault, N
  <1> HIDE DEF U
  <1>6. /\ h \in Seq(Tuple) /\ DOMAIN h = DOMAIN tuple \cup {t} /\ t \notin DOMAIN tuple
        /\ h[t] = U /\ \A u \in DOMAIN tuple : h[u] = tuple[u]
        /\ ArrayOf(arr, h)
    BY <1>1, <1>4, AppendTuple
  <1>7. t # NULL /\ Len(h) = Len(tuple) + 1 /\ Len(tuple) = Len(tuples_arr)
    BY <1>1 DEF NULL, ArrayOf
  <1> HIDE DEF h, arr, t
  <1>8. HeapCovers(h)
    BY <1>1, <1>4, <1>6 DEF HeapCovers
  <1>9. RulesOf(h) = Stored \cup {r}
    BY <1>4, <1>6 DEF RulesOf, Stored
  <1>10. h[t].max_priority = Prio[r]
    BY <1>3, <1>4, <1>6
  <1>11. max_tuples_num' \in Nat \ {0} /\ Len(h) <= max_tuples_num'
    <2>1. Capacity(Len(tuples_arr)) \in Nat /\ Len(tuples_arr) + 1 <= Capacity(Len(tuples_arr))
      BY CapacityGrows DEF Inv
    <2>2. Len(tuples_arr) \in Nat
      BY DEF Inv, TypeOK
    <2> QED BY <1>5, <1>7, <2>1, <2>2
  <1>12. t \in DOMAIN h
    BY <1>6
  <1>13. /\ tuple' = h /\ ArrayOf(tuples_arr', h) /\ Len(tuples_arr') <= max_tuples_num'
         /\ ArraySorted' /\ NumCovers' /\ MaxCovers' /\ scan' = NoScan
         /\ rules_num' \in Nat /\ max_priority' \in Nat
         /\ Stored' = Stored \cup {r} /\ answer' = <<>>
    <2> HIDE DEF Inv
    <2> QED BY <1>5, <1>6, <1>8, <1>9, <1>10, <1>11, <1>12, SettleInv
  <1>14. /\ EntryExact' /\ EntryFits' /\ DOMAIN id2tuple' \subseteq Rules
         /\ \A q \in DOMAIN id2tuple' : id2tuple'[q] \in DOMAIN tuple' \cup {NULL}
    <2>1. Names(r, t)
      BY <1>5, RememberNames
    <2>2. Fits(r, tuple'[t].shape)
      BY <1>4, <1>6, <1>13, FitsDefault
    <2>3. /\ DOMAIN tuple' = DOMAIN tuple \cup {t} /\ t \in DOMAIN tuple'
          /\ \A u \in DOMAIN tuple : /\ tuple'[u].shape = tuple[u].shape
                                     /\ u # t => tuple'[u].rules = tuple[u].rules
          /\ \A q \in tuple'[t].rules : q = r \/ (t \in DOMAIN tuple /\ q \in tuple[t].rules)
      BY <1>4, <1>6, <1>13
    <2> HIDE DEF Inv
    <2> QED BY <1>7, <2>1, <2>2, <2>3, EntriesInv
  <1> QED BY <1>6, <1>8, <1>11, <1>13, <1>14, Join

----------------------------------------------------------------------------
(***************************************************************************)
(* A new tuple.                                                            *)
(***************************************************************************)

LEMMA AddTupleInv ==
  ASSUME Inv, NEW s \in Shapes, addTuple(s)
  PROVE  Inv' /\ Stored' = Stored
PROOF
  <1> DEFINE N == NewTuple(s)
             t == Len(tuple) + 1
             h == Append(tuple, N)
             arr == Append(tuples_arr, t)
  <1>1. tuple \in Seq(Tuple) /\ ArrayOf(tuples_arr, tuple) /\ HeapCovers(tuple)
    BY TypeLists DEF Inv
  <1>2. N \in Tuple /\ N.rules = {} /\ N.rules_num = 0 /\ N.max_priority = 0 /\ Cardinality(N.rules) = 0
    BY DefaultTupleType DEF NewTuple, TupleShapes
  <1>3. /\ tuple' = h /\ tuples_arr' = arr /\ max_tuples_num' = Capacity(Len(tuples_arr))
        /\ UNCHANGED <<id2tuple, rules_num, max_priority, scan>> /\ scan = NoScan
    BY DEF addTuple
  <1> HIDE DEF N
  <1>4. /\ h \in Seq(Tuple) /\ DOMAIN h = DOMAIN tuple \cup {t} /\ t \notin DOMAIN tuple
        /\ h[t] = N /\ \A u \in DOMAIN tuple : h[u] = tuple[u]
        /\ ArrayOf(arr, h)
    BY <1>1, <1>2, AppendTuple
  <1>5. /\ Len(tuples_arr) \in Nat /\ DOMAIN tuples_arr = 1 .. Len(tuples_arr)
        /\ DOMAIN arr = 1 .. Len(tuples_arr) + 1
        /\ arr[Len(tuples_arr) + 1] = t
        /\ \A i \in 1 .. Len(tuples_arr) : arr[i] = tuples_arr[i]
        /\ Len(arr) = Len(tuples_arr) + 1
    BY <1>1 DEF ArrayOf
  <1> HIDE DEF h, arr, t
  <1>6. HeapCovers(h)
    <2>1. Cardinality(N.rules) <= N.rules_num /\ \A q \in N.rules : Prio[q] <= N.max_priority
      BY <1>2
    <2>2. ASSUME NEW u \in DOMAIN h
          PROVE  /\ Cardinality(h[u].rules) <= h[u].rules_num
                 /\ \A q \in h[u].rules : Prio[q] <= h[u].max_priority
      BY <1>1, <1>4, <2>1 DEF HeapCovers
    <2> QED BY <2>2 DEF HeapCovers
  <1>7. Stored' = Stored
    BY <1>2, <1>3, <1>4 DEF Stored
  <1>8. max_tuples_num' \in Nat \ {0} /\ Len(arr) <= max_tuples_num'
    <2>1. Capacity(Len(tuples_arr)) \in Nat /\ Len(tuples_arr) + 1 <= Capacity(Len(tuples_arr))
      BY CapacityGrows DEF Inv
    <2> QED BY <1>3, <1>5, <2>1
  <1>9. ArraySorted'
    <2>1. ASSUME NEW i \in DOMAIN arr, NEW j \in DOMAIN arr, i < j
          PROVE  h[arr[i]].max_priority >= h[arr[j]].max_priority
      <3>1. i \in 1 .. Len(tuples_arr) /\ arr[i] = tuples_arr[i] /\ tuples_arr[i] \in DOMAIN tuple
        BY <1>1, <1>5, <2>1 DEF ArrayOf
      <3>2. h[arr[i]] = tuple[tuples_arr[i]] /\ tuple[tuples_arr[i]].max_priority \in Nat
        BY <1>1, <1>4, <3>1, HeapType, TupleType
      <3>3. CASE j = Len(tuples_arr) + 1
        BY <1>2, <1>4, <1>5, <3>2, <3>3
      <3>4. CASE j \in 1 .. Len(tuples_arr)
        <4>1. h[arr[j]] = tuple[tuples_arr[j]]
          BY <1>1, <1>4, <1>5, <3>4 DEF ArrayOf
        <4>2. tuple[tuples_arr[i]].max_priority >= tuple[tuples_arr[j]].max_priority
          BY <1>5, <2>1, <3>1, <3>4 DEF Inv, ArraySorted, Descends
        <4> QED BY <3>2, <4>1, <4>2
      <3> QED BY <1>5, <3>3, <3>4
    <2> QED BY <1>3, <2>1 DEF ArraySorted, Descends
  <1>10. NumCovers' /\ MaxCovers' /\ rules_num' \in Nat /\ max_priority' \in Nat
    BY <1>3, <1>7 DEF Inv, TypeOK, NumCovers, MaxCovers
  <1>11. EntryExact'
    BY <1>2, <1>3, <1>4 DEF Inv, EntryExact
  <1>12. EntryFits'
    BY <1>3, <1>4 DEF Inv, TypeOK, EntryFits
  <1>13. DOMAIN id2tuple' \subseteq Rules
         /\ \A q \in DOMAIN id2tuple' : id2tuple'[q] \in DOMAIN tuple' \cup {NULL}
    BY <1>3, <1>4 DEF Inv, TypeOK
  <1> QED BY <1>3, <1>4, <1>6, <1>7, <1>8, <1>9, <1>10, <1>11, <1>12, <1>13, Join

----------------------------------------------------------------------------
(***************************************************************************)
(* Deletes.                                                                *)
(***************************************************************************)

\* A heap in which tuple t has lost some of its rules, entries untouched.
LEMMA FewerRules ==
  ASSUME Inv, NEW t \in DOMAIN tuple, UNCHANGED id2tuple,
         DOMAIN tuple' = DOMAIN tuple,
         \A u \in DOMAIN tuple : /\ tuple'[u].shape = tuple[u].shape
                                 /\ u # t => tuple'[u].rules = tuple[u].rules,
         tuple'[t].rules \subseteq tuple[t].rules
  PROVE  /\ EntryExact' /\ EntryFits' /\ DOMAIN id2tuple' \subseteq Rules
         /\ \A q \in DOMAIN id2tuple' : id2tuple'[q] \in DOMAIN tuple' \cup {NULL}
PROOF
  <1>1. DOMAIN id2tuple' \subseteq Rules
        /\ \A q \in DOMAIN id2tuple' : id2tuple'[q] \in DOMAIN tuple' \cup {NULL}
    BY DEF Inv, TypeOK
  <1>2. EntryExact'
    <2>1. \A u \in DOMAIN tuple' : tuple'[u].rules \subseteq tuple[u].rules
      OBVIOUS
    <2> QED BY <2>1 DEF Inv, EntryExact
  <1>3. EntryFits'
    BY DEF Inv, TypeOK, EntryFits
  <1> QED BY <1>1, <1>2, <1>3

\* DeleteRule takes r, and only r, from the one tuple that holds it.
LEMMA DeleteRuleInv ==
  ASSUME Inv, NEW r \in Rules, DeleteRule(r)
  PROVE  Inv' /\ Stored' = Stored \ {r} /\ r \in Stored /\ answer' = <<>>
PROOF
  <1> DEFINE t == id2tuple[r]
             T == TupleDelete(tuple[t], r)
             emptied == T.rules_num = 0
             U == IF emptied THEN [T EXCEPT !.max_priority = 0] ELSE T
             h == [tuple EXCEPT ![t] = U]
  <1>1. /\ scan = NoScan /\ r \in DOMAIN id2tuple /\ t # NULL
        /\ r \in tuple[t].rules /\ tuple' = h
        /\ IF emptied \/ Prio[r] > T.max_priority
           THEN SortTuples(h, tuples_arr) ELSE UNCHANGED tuples_arr
        /\ max_priority' = IF ~emptied /\ Prio[r] = max_priority
                           THEN h[tuples_arr'[1]].max_priority ELSE max_priority
        /\ rules_num' = rules_num - 1 /\ answer' = <<>>
        /\ UNCHANGED <<max_tuples_num, id2tuple, scan>>
    BY DEF DeleteRule
  <1>2. tuple \in Seq(Tuple) /\ ArrayOf(tuples_arr, tuple) /\ HeapCovers(tuple)
    BY TypeLists DEF Inv
  <1>3. t \in DOMAIN tuple /\ tuple[t] \in Tuple
    BY <1>1, <1>2, HeapType DEF Inv, TypeOK
  <1>4. Cardinality(tuple[t].rules) <= tuple[t].rules_num
        /\ \A q \in tuple[t].rules : Prio[q] <= tuple[t].max_priority
    BY <1>2, <1>3 DEF HeapCovers
  <1>5. /\ T \in Tuple /\ T.shape = tuple[t].shape /\ T.rules = tuple[t].rules \ {r}
        /\ Cardinality(T.rules) <= T.rules_num
        /\ \A q \in T.rules : Prio[q] <= T.max_priority
        /\ Prio[r] <= T.max_priority => T.max_priority = tuple[t].max_priority
    <2> HIDE DEF t
    <2> QED BY <1>1, <1>3, <1>4, TupleDeleteType
  <1> HIDE DEF T
  <1>6. Prio \in [Rules -> Nat] /\ T.max_priority \in Nat
    BY <1>5, TupleType, ClassifierAssumption
  <1>7. ASSUME emptied PROVE T.rules = {}
    <2>1. IsFiniteSet(T.rules) /\ Cardinality(T.rules) \in Nat
      BY <1>5, TupleType
    <2>2. Cardinality(T.rules) = 0
      BY <1>5, <1>7, <2>1
    <2> QED BY <2>1, <2>2, FS_EmptySet
  <1>8. /\ U \in Tuple /\ U.shape = tuple[t].shape /\ U.rules = tuple[t].rules \ {r}
        /\ U.rules_num = T.rules_num
        /\ U.max_priority = IF emptied THEN 0 ELSE T.max_priority
    <2> HIDE DEF t
    <2> QED BY <1>5 DEF Tuple
  <1>9. Cardinality(U.rules) <= U.rules_num /\ \A q \in U.rules : Prio[q] <= U.max_priority
    <2>1. CASE emptied
      <3>1. U.rules = {}
        BY <1>5, <1>7, <1>8, <2>1
      <3>2. U.rules = T.rules
        BY <1>5, <1>8
      <3> QED BY <1>5, <1>8, <3>1, <3>2
    <2>2. CASE ~emptied
      BY <1>5, <2>2
    <2> QED BY <2>1, <2>2
  <1> HIDE DEF U
  <1>10. /\ h \in Seq(Tuple) /\ DOMAIN h = DOMAIN tuple /\ Len(h) = Len(tuple)
         /\ h[t] = U /\ \A u \in DOMAIN tuple : u # t => h[u] = tuple[u]
    <2> HIDE DEF t
    <2> QED BY <1>2, <1>3, <1>8, ReplaceTuple
  <1> HIDE DEF h
  <1>11. HeapCovers(h)
    BY <1>2, <1>9, <1>10 DEF HeapCovers
  <1>12. ArrayOf(tuples_arr, h)
    BY <1>2, <1>10 DEF ArrayOf
  <1>13. ArrayOf(tuples_arr', h) /\ Descends(h, tuples_arr')
    <2>1. CASE emptied \/ Prio[r] > T.max_priority
      BY <1>1, <1>10, <1>12, <2>1, SortLists
    <2>2. CASE ~(emptied \/ Prio[r] > T.max_priority)
      <3>1. Prio[r] <= T.max_priority
        BY <1>6, <2>2
      <3>2. U.max_priority = tuple[t].max_priority
        BY <1>5, <1>8, <2>2, <3>1
      <3>3. \A u \in DOMAIN tuple : h[u].max_priority = tuple[u].max_priority
        BY <1>10, <3>2
      <3>4. Elements(tuples_arr) \subseteq DOMAIN tuple /\ Descends(tuple, tuples_arr)
        BY <1>2 DEF ArrayOf, Inv, ArraySorted
      <3>5. Descends(h, tuples_arr)
        BY <3>3, <3>4, DescendsStill
      <3> QED BY <1>1, <1>12, <2>2, <3>5
    <2> QED BY <2>1, <2>2
  <1>14. Stored' = Stored \ {r} /\ r \in Stored
    <2>1. \A u \in DOMAIN tuple : r \in tuple[u].rules => u = t
      BY DEF Inv, EntryExact
    <2> HIDE DEF t
    <2> QED BY <1>1, <1>3, <1>8, <1>10, <2>1 DEF Stored
  <1>15. NumCovers' /\ rules_num' \in Nat
    <2>1. Cardinality(Stored \ {r}) = Cardinality(Stored) - 1 /\ Cardinality(Stored \ {r}) \in Nat
      BY <1>14, TypeLists, FS_RemoveElement, FS_CardinalityType
    <2>2. Cardinality(Stored) <= rules_num /\ rules_num \in Nat /\ Cardinality(Stored) \in Nat
      BY TypeLists DEF Inv, NumCovers, TypeOK
    <2>3. Cardinality(Stored') <= rules_num' /\ rules_num' \in Nat
      BY <1>1, <1>14, <2>1, <2>2
    <2> QED BY <2>3 DEF NumCovers
  <1>16. /\ Len(tuples_arr') \in Nat /\ DOMAIN tuples_arr' = 1 .. Len(tuples_arr')
         /\ 1 \in DOMAIN tuples_arr' /\ tuples_arr'[1] \in DOMAIN h
    <2>1. DOMAIN h # {}
      BY <1>3, <1>10
    <2> QED BY <1>13, <2>1 DEF ArrayOf, Elements
  <1>17. MaxCovers' /\ max_priority' \in Nat
    <2>1. h[tuples_arr'[1]].max_priority \in Nat
      BY <1>10, <1>16, HeapType, TupleType
    <2>2. max_priority \in Nat /\ \A q \in Stored : Prio[q] <= max_priority
      BY DEF Inv, TypeOK, MaxCovers
    <2>3. ASSUME NEW q \in Stored' PROVE Prio[q] <= max_priority'
      <3>1. q \in Stored /\ q \in Rules
        BY <1>14, TypeLists
      <3>2. PICK u \in DOMAIN h : q \in h[u].rules
        BY <1>1 DEF Stored
      <3>3. Prio[q] <= h[u].max_priority /\ h[u].max_priority \in Nat
        BY <1>10, <1>11, <3>2, HeapType, TupleType DEF HeapCovers
      <3>4. PICK i \in DOMAIN tuples_arr' : tuples_arr'[i] = u
        BY <1>13, <3>2 DEF ArrayOf, Elements
      <3>5. h[tuples_arr'[1]].max_priority >= h[u].max_priority
        BY <1>13, <1>16, <2>1, <3>3, <3>4 DEF Descends
      <3>6. Prio[q] <= h[tuples_arr'[1]].max_priority
        BY <1>6, <2>1, <3>1, <3>3, <3>5
      <3> QED BY <1>1, <2>2, <3>1, <3>6
    <2> QED BY <1>1, <2>1, <2>2, <2>3 DEF MaxCovers
  <1>18. /\ EntryExact' /\ EntryFits' /\ DOMAIN id2tuple' \subseteq Rules
         /\ \A q \in DOMAIN id2tuple' : id2tuple'[q] \in DOMAIN tuple' \cup {NULL}
    <2>1. /\ DOMAIN tuple' = DOMAIN tuple /\ tuple'[t].rules \subseteq tuple[t].rules
          /\ \A u \in DOMAIN tuple : /\ tuple'[u].shape = tuple[u].shape
                                     /\ u # t => tuple'[u].rules = tuple[u].rules
      BY <1>1, <1>8, <1>10
    <2> HIDE DEF Inv
    <2> QED BY <1>1, <1>3, <2>1, FewerRules
  <1>19. max_tuples_num' \in Nat \ {0} /\ Len(tuples_arr') <= max_tuples_num'
    BY <1>1, <1>2, <1>10, <1>13 DEF ArrayOf, Inv, TypeOK
  <1>20. ArraySorted'
    BY <1>1, <1>13 DEF ArraySorted
  <1> QED BY <1>1, <1>10, <1>11, <1>13, <1>14, <1>15, <1>17, <1>18, <1>19, <1>20, Join

\* A delete of a rule that is not stored may lose others, and no more.
LEMMA DeleteAgainInv ==
  ASSUME Inv, NEW r \in Rules, DeleteAgain(r)
  PROVE  Inv' /\ r \notin Stored /\ Stored' \subseteq Stored /\ answer' = <<>>
PROOF
  <1> DEFINE t == id2tuple[r]
             U == TupleLose(tuple[t], r)
             h == [tuple EXCEPT ![t] = U]
  <1>1. /\ scan = NoScan /\ r \in DOMAIN id2tuple /\ t # NULL /\ r \notin tuple[t].rules
        /\ tuple' = h /\ answer' = <<>>
        /\ UNCHANGED <<tuples_arr, max_tuples_num, id2tuple, rules_num, max_priority, scan>>
    BY DEF DeleteAgain
  <1>2. tuple \in Seq(Tuple) /\ ArrayOf(tuples_arr, tuple) /\ HeapCovers(tuple)
    BY TypeLists DEF Inv
  <1>3. t \in DOMAIN tuple /\ tuple[t] \in Tuple
    BY <1>1, <1>2, HeapType DEF Inv, TypeOK
  <1>4. /\ U \in Tuple /\ U.shape = tuple[t].shape /\ U.rules \subseteq tuple[t].rules
        /\ U.rules_num = tuple[t].rules_num /\ U.max_priority = tuple[t].max_priority
    <2> HIDE DEF t
    <2> QED BY <1>3 DEF Tuple, TupleLose
  <1> HIDE DEF U
  <1>5. Cardinality(U.rules) <= Cardinality(tuple[t].rules) /\ Cardinality(U.rules) \in Nat
    BY <1>3, <1>4, TupleType, FS_Subset
  <1>6. Cardinality(U.rules) <= U.rules_num /\ \A q \in U.rules : Prio[q] <= U.max_priority
    <2>1. Cardinality(tuple[t].rules) <= tuple[t].rules_num
          /\ \A q \in tuple[t].rules : Prio[q] <= tuple[t].max_priority
      BY <1>2, <1>3 DEF HeapCovers
    <2>2. Cardinality(tuple[t].rules) \in Nat /\ tuple[t].rules_num \in Nat
      BY <1>3, TupleType
    <2>3. Cardinality(U.rules) <= U.rules_num
      BY <1>4, <1>5, <2>1, <2>2
    <2> HIDE DEF t
    <2> QED BY <1>4, <2>1, <2>3
  <1>7. /\ h \in Seq(Tuple) /\ DOMAIN h = DOMAIN tuple /\ Len(h) = Len(tuple)
        /\ h[t] = U /\ \A u \in DOMAIN tuple : u # t => h[u] = tuple[u]
    <2> HIDE DEF t
    <2> QED BY <1>2, <1>3, <1>4, ReplaceTuple
  <1> HIDE DEF h
  <1>8. HeapCovers(h)
    BY <1>2, <1>6, <1>7 DEF HeapCovers
  <1>9. ArrayOf(tuples_arr, h)
    BY <1>2, <1>7 DEF ArrayOf
  <1>10. ArraySorted'
    <2>1. \A u \in DOMAIN tuple : h[u].max_priority = tuple[u].max_priority
      BY <1>4, <1>7
    <2>2. Elements(tuples_arr) \subseteq DOMAIN tuple /\ Descends(tuple, tuples_arr)
      BY <1>2 DEF ArrayOf, Inv, ArraySorted
    <2>3. Descends(h, tuples_arr)
      BY <2>1, <2>2, DescendsStill
    <2> QED BY <1>1, <2>3 DEF ArraySorted
  <1>11. Stored' \subseteq Stored
    BY <1>1, <1>4, <1>7 DEF Stored
  <1>12. r \notin Stored
    BY <1>1 DEF Inv, EntryExact, Stored
  <1>13. NumCovers' /\ rules_num' \in Nat
    <2>1. Cardinality(Stored') <= Cardinality(Stored) /\ Cardinality(Stored') \in Nat
          /\ Cardinality(Stored) \in Nat
      BY <1>11, TypeLists, FS_Subset, FS_CardinalityType
    <2>2. Cardinality(Stored') <= rules_num' /\ rules_num' \in Nat
      BY <1>1, <2>1 DEF Inv, TypeOK, NumCovers
    <2> QED BY <2>2 DEF NumCovers
  <1>14. MaxCovers' /\ max_priority' \in Nat
    BY <1>1, <1>11 DEF Inv, TypeOK, MaxCovers
  <1>15. /\ EntryExact' /\ EntryFits' /\ DOMAIN id2tuple' \subseteq Rules
         /\ \A q \in DOMAIN id2tuple' : id2tuple'[q] \in DOMAIN tuple' \cup {NULL}
    <2>1. /\ DOMAIN tuple' = DOMAIN tuple /\ tuple'[t].rules \subseteq tuple[t].rules
          /\ \A u \in DOMAIN tuple : /\ tuple'[u].shape = tuple[u].shape
                                     /\ u # t => tuple'[u].rules = tuple[u].rules
      BY <1>1, <1>4, <1>7
    <2> HIDE DEF Inv
    <2> QED BY <1>1, <1>3, <2>1, FewerRules
  <1>16. max_tuples_num' \in Nat \ {0} /\ Len(tuples_arr') <= max_tuples_num'
    BY <1>1, <1>2 DEF Inv, TypeOK
  <1> QED BY <1>1, <1>7, <1>8, <1>9, <1>10, <1>11, <1>12, <1>13, <1>14, <1>15, <1>16, Join

LEMMA DeleteUnknownInv ==
  ASSUME Inv, NEW r \in Rules, DeleteUnknown(r)
  PROVE  Inv' /\ Stored' = Stored /\ answer' = answer
PROOF
  <1>1. /\ scan = NoScan /\ r \notin DOMAIN id2tuple /\ Names(r, NULL)
        /\ UNCHANGED <<tuple, tuples_arr, max_tuples_num, rules_num, max_priority, scan, answer>>
    BY RememberNames DEF DeleteUnknown
  <1>2. TypeOK'
    <2>1. DOMAIN id2tuple' \subseteq Rules
          /\ \A q \in DOMAIN id2tuple' : id2tuple'[q] \in DOMAIN tuple \cup {NULL}
      BY <1>1 DEF Inv, TypeOK, Names
    <2> QED BY <1>1, <2>1 DEF Inv, TypeOK
  <1>3. EntryExact'
    <2>1. \A t \in DOMAIN tuple : \A q \in tuple[t].rules :
            q \in DOMAIN id2tuple' /\ id2tuple'[q] = t
      BY <1>1 DEF Inv, EntryExact, Names
    <2> QED BY <1>1, <2>1 DEF EntryExact
  <1>4. EntryFits'
    <2>1. \A q \in DOMAIN id2tuple' : id2tuple'[q] # NULL => Fits(q, tuple[id2tuple'[q]].shape)
      BY <1>1 DEF Inv, EntryFits, Names
    <2> QED BY <1>1, <2>1 DEF EntryFits
  <1>5. Stored' = Stored
    BY <1>1 DEF Stored
  <1>6. HeapCovers(tuple)' /\ ArraySorted' /\ NumCovers' /\ MaxCovers' /\ ScanBest'
    BY <1>1, <1>5 DEF Inv, HeapCovers, ArraySorted, Descends, NumCovers, MaxCovers, ScanBest
  <1> QED BY <1>1, <1>2, <1>3, <1>4, <1>5, <1>6 DEF Inv

----------------------------------------------------------------------------
(***************************************************************************)
(* Lookups.                                                                *)
(***************************************************************************)

\* A step that leaves the classifier alone keeps all but what speaks of scan.
LEMMA StoreSame ==
  ASSUME Inv, UNCHANGED store,
         scan' = NoScan \/ scan' \in [packet : Packets, tuples : 0 .. Len(tuples_arr), priority : Nat],
         ScanBest'
  PROVE  Inv' /\ Stored' = Stored
PROOF
  <1>1. /\ tuple' = tuple /\ tuples_arr' = tuples_arr /\ max_tuples_num' = max_tuples_num
        /\ id2tuple' = id2tuple /\ rules_num' = rules_num /\ max_priority' = max_priority
    BY DEF store
  <1>2. Stored' = Stored
    BY <1>1 DEF Stored
  <1>3. TypeOK'
    BY <1>1 DEF Inv, TypeOK
  <1>4. HeapCovers(tuple)' /\ ArraySorted' /\ NumCovers' /\ MaxCovers' /\ EntryExact' /\ EntryFits'
    BY <1>1, <1>2 DEF Inv, HeapCovers, ArraySorted, Descends, NumCovers, MaxCovers, EntryExact, EntryFits
  <1> QED BY <1>2, <1>3, <1>4 DEF Inv

LEMMA ScanType ==
  ASSUME Inv, scan # NoScan
  PROVE  /\ scan \in [packet : Packets, tuples : 0 .. Len(tuples_arr), priority : Nat]
         /\ scan.packet \in Packets /\ scan.tuples \in Nat /\ scan.tuples <= Len(tuples_arr)
         /\ scan.priority \in Nat /\ Len(tuples_arr) \in Nat /\ DOMAIN tuples_arr = 1 .. Len(tuples_arr)
         /\ Probed \subseteq Stored
PROOF
  <1>1. scan \in [packet : Packets, tuples : 0 .. Len(tuples_arr), priority : Nat]
    BY DEF Inv, TypeOK
  <1>2. tuples_arr \in Seq(DOMAIN tuple)
    BY DEF Inv, TypeOK
  <1>3. Len(tuples_arr) \in Nat /\ DOMAIN tuples_arr = 1 .. Len(tuples_arr)
    BY <1>2
  <1>4. scan.packet \in Packets /\ scan.tuples \in Nat /\ scan.tuples <= Len(tuples_arr)
        /\ scan.priority \in Nat
    BY <1>1, <1>3
  <1>5. \A i \in 1 .. scan.tuples : tuples_arr[i] \in DOMAIN tuple
    BY <1>2, <1>3, <1>4
  <1> QED BY <1>1, <1>3, <1>4, <1>5 DEF Probed, Stored

LEMMA StoredFits ==
  ASSUME Inv, NEW t \in DOMAIN tuple, NEW r \in tuple[t].rules
  PROVE  r \in Rules /\ Fits(r, tuple[t].shape) /\ tuple[t].shape \in TupleShapes
PROOF
  <1>1. tuple[t] \in Tuple
    BY TypeLists, HeapType
  <1>2. t # NULL
    BY TypeLists DEF NULL
  <1>3. r \in DOMAIN id2tuple /\ id2tuple[r] = t
    BY DEF Inv, EntryExact
  <1> QED BY <1>1, <1>2, <1>3, TupleType DEF Inv, EntryFits

LEMMA LookupStartInv ==
  ASSUME Inv, NEW p \in Packets, LookupStart(p)
  PROVE  Inv' /\ Stored' = Stored /\ answer' = answer
PROOF
  <1>1. /\ scan' = [packet |-> p, tuples |-> 0, priority |-> 0]
        /\ UNCHANGED store /\ answer' = answer
    BY DEF LookupStart
  <1>2. Len(tuples_arr) \in Nat /\ 1 .. 0 = {}
    BY DEF Inv, TypeOK
  <1>3. scan' \in [packet : Packets, tuples : 0 .. Len(tuples_arr), priority : Nat]
    BY <1>1, <1>2
  <1>4. Probed' = {}
    BY <1>1, <1>2 DEF Probed
  <1>5. scan'.priority = Best({})
    <2>1. IsBest(0, {})
      BY DEF IsBest
    <2> QED BY <1>1, <2>1, BestUnique
  <1>6. ScanBest'
    <2>1. {r \in Probed' : Matches(r, scan'.packet)} = {}
      BY <1>4
    <2> QED BY <1>5, <2>1 DEF ScanBest
  <1> QED BY <1>1, <1>3, <1>6, StoreSame

\* What one probe finds is what the tuple holds that matches and is better.
LEMMA HitsExact ==
  ASSUME Inv, NEW t \in DOMAIN tuple, NEW p \in Packets, NEW x
  PROVE  Hits(tuple[t], p, x) = {r \in tuple[t].rules : Matches(r, p) /\ Prio[r] > x}
PROOF
  <1>1. ASSUME NEW r \in tuple[t].rules, Matches(r, p)
        PROVE  RuleKey(r, tuple[t].shape) = PacketKey(p, tuple[t].shape)
    BY <1>1, StoredFits, SameKey
  <1> QED BY <1>1 DEF Hits

LEMMA LookupProbeInv ==
  ASSUME Inv, LookupProbe
  PROVE  Inv' /\ Stored' = Stored /\ answer' = answer
PROOF
  <1> DEFINE k == scan.tuples + 1
             t == tuples_arr[k]
             p == scan.packet
             x == scan.priority
             hits == Hits(tuple[t], p, x)
             y == IF hits = {} THEN x ELSE Best(hits)
             A == {r \in Probed : Matches(r, p)}
             B == {r \in tuple[t].rules : Matches(r, p)}
  <1>1. /\ scan # NoScan /\ ~ScanOver /\ UNCHANGED store /\ answer' = answer
        /\ scan' = [scan EXCEPT !.tuples = k, !.priority = y]
    BY DEF LookupProbe
  <1>2. /\ scan \in [packet : Packets, tuples : 0 .. Len(tuples_arr), priority : Nat]
        /\ p \in Packets /\ scan.tuples \in Nat /\ x \in Nat /\ Len(tuples_arr) \in Nat
        /\ DOMAIN tuples_arr = 1 .. Len(tuples_arr)
        /\ Probed \subseteq Stored /\ scan.tuples < Len(tuples_arr)
    BY <1>1, ScanType DEF ScanOver
  <1>3. k \in 1 .. Len(tuples_arr) /\ t \in DOMAIN tuple
    BY <1>2 DEF Inv, TypeOK
  <1>4. hits = {r \in B : Prio[r] > x}
    BY <1>2, <1>3, HitsExact
  <1>5. A \in SUBSET Rules /\ B \in SUBSET Rules /\ hits \in SUBSET Rules
    BY <1>2, <1>3, <1>4, TypeLists DEF Stored
  <1>6. x = Best(A)
    BY <1>1 DEF Inv, ScanBest
  <1>7. IsBest(x, A) /\ IsBest(Best(hits), hits) /\ Best(hits) \in Nat
    BY <1>5, <1>6, BestExists
  <1>8. Prio \in [Rules -> Nat]
    BY ClassifierAssumption
  <1>9. y \in Nat
    BY <1>2, <1>7
  <1>10. Probed' = Probed \cup tuple[t].rules
    <2>1. scan'.tuples = k /\ tuple' = tuple /\ tuples_arr' = tuples_arr
      BY <1>1, <1>2 DEF store
    <2>2. 1 .. k = 1 .. scan.tuples \cup {k}
      BY <1>2
    <2> QED BY <2>1, <2>2 DEF Probed
  <1>11. scan'.packet = p /\ scan'.priority = y
         /\ scan' \in [packet : Packets, tuples : 0 .. Len(tuples_arr), priority : Nat]
    <2>1. k \in 0 .. Len(tuples_arr)
      BY <1>2
    <2> HIDE DEF y, k
    <2> QED BY <1>1, <1>2, <1>9, <2>1
  <1> HIDE DEF hits
  <1>12. IsBest(y, A \cup B)
    <2>1. CASE hits = {}
      <3>1. ASSUME NEW r \in B PROVE Prio[r] <= x
        BY <1>2, <1>4, <1>5, <1>8, <2>1, <3>1
      <3> HIDE DEF A, B
      <3> QED BY <1>7, <2>1, <3>1 DEF IsBest
    <2>2. CASE hits # {}
      <3>1. PICK q \in hits : Best(hits) >= Prio[q] /\ Prio[q] > x /\ Prio[q] \in Nat
        BY <1>4, <1>5, <1>7, <1>8, <2>2 DEF IsBest
      <3>2. Best(hits) > x
        BY <1>2, <1>7, <3>1
      <3> HIDE DEF A, B
      <3>3. ASSUME NEW r \in A PROVE Prio[r] <= Best(hits)
        BY <1>2, <1>5, <1>7, <1>8, <3>2, <3>3 DEF IsBest
      <3>4. ASSUME NEW r \in B PROVE Prio[r] <= Best(hits)
        <4>1. CASE Prio[r] > x
          BY <1>4, <1>7, <4>1 DEF IsBest
        <4>2. CASE ~(Prio[r] > x)
          BY <1>2, <1>5, <1>7, <1>8, <3>2, <4>2
        <4> QED BY <4>1, <4>2
      <3>5. Best(hits) \in {Prio[r] : r \in B}
        <4>1. Best(hits) # 0
          BY <1>2, <1>7, <3>2
        <4>2. Best(hits) \in {Prio[r] : r \in hits}
          BY <1>7, <4>1 DEF IsBest
        <4> QED BY <1>4, <4>2
      <3> QED BY <2>2, <3>3, <3>4, <3>5 DEF IsBest
    <2> QED BY <2>1, <2>2
  <1>13. y = Best(A \cup B)
    <2> HIDE DEF A, B, y
    <2> QED BY <1>5, <1>12, BestUnique
  <1>14. {r \in Probed' : Matches(r, scan'.packet)} = A \cup B
    BY <1>10, <1>11
  <1>15. ScanBest'
    BY <1>11, <1>13, <1>14 DEF ScanBest
  <1> QED BY <1>1, <1>11, <1>15, StoreSame

\* The loop ends early only when nothing better is left.
LEMMA OverIsBest ==
  ASSUME Inv, scan # NoScan, ScanOver
  PROVE  scan.priority = Best({r \in Stored : Matches(r, scan.packet)})
PROOF
  <1> DEFINE p == scan.packet
             x == scan.priority
             A == {r \in Probed : Matches(r, p)}
             S == {r \in Stored : Matches(r, p)}
  <1>1. /\ p \in Packets /\ scan.tuples \in Nat /\ scan.tuples <= Len(tuples_arr)
        /\ x \in Nat /\ Len(tuples_arr) \in Nat /\ DOMAIN tuples_arr = 1 .. Len(tuples_arr)
        /\ Probed \subseteq Stored
    BY ScanType
  <1>2. A \subseteq S /\ S \in SUBSET Rules
    BY <1>1, TypeLists
  <1>3. IsBest(x, A)
    <2>1. x = Best(A)
      BY DEF Inv, ScanBest
    <2> HIDE DEF A, x
    <2> QED BY <1>2, <2>1, BestExists
  <1>4. Prio \in [Rules -> Nat]
    BY ClassifierAssumption
  <1>5. ASSUME NEW r \in S PROVE Prio[r] <= x
    <2>1. CASE r \in Probed
      BY <1>3, <2>1 DEF IsBest
    <2>2. CASE r \notin Probed
      <3>1. PICK u \in DOMAIN tuple : r \in tuple[u].rules
        BY DEF Stored
      <3>2. PICK i \in DOMAIN tuples_arr : tuples_arr[i] = u
        BY <3>1, TypeLists DEF ArrayOf, Elements
      <3>3. i > scan.tuples
        BY <1>1, <2>2, <3>1, <3>2 DEF Probed
      <3> DEFINE k == scan.tuples + 1
      <3>4. k \in DOMAIN tuples_arr /\ k <= i /\ scan.tuples < Len(tuples_arr)
        BY <1>1, <3>2, <3>3
      <3>5. x >= tuple[tuples_arr[k]].max_priority
        BY <3>4 DEF ScanOver
      <3>6. tuple[tuples_arr[k]].max_priority \in Nat /\ tuple[u].max_priority \in Nat
        <4>1. tuple \in Seq(Tuple) /\ tuples_arr[k] \in DOMAIN tuple
          <5>1. tuple \in Seq(Tuple) /\ tuples_arr \in Seq(DOMAIN tuple)
            BY TypeLists DEF ArrayOf
          <5> HIDE DEF k
          <5> QED BY <3>4, <5>1
        <4> HIDE DEF k
        <4>2. tuple[tuples_arr[k]] \in Tuple /\ tuple[u] \in Tuple
          BY <3>1, <4>1, HeapType
        <4> QED BY <4>2, TupleType
      <3>7. tuple[tuples_arr[k]].max_priority >= tuple[u].max_priority
        <4>1. CASE k = i
          BY <3>2, <3>6, <4>1
        <4>2. CASE k # i
          <5>1. k < i
            BY <1>1, <3>2, <3>4, <4>2
          <5> HIDE DEF k
          <5> QED BY <3>2, <3>4, <5>1 DEF Inv, ArraySorted, Descends
        <4> QED BY <4>1, <4>2
      <3>8. Prio[r] <= tuple[u].max_priority
        BY <3>1 DEF Inv, HeapCovers
      <3>9. Prio[r] \in Nat
        BY <1>2, <1>4
      <3> HIDE DEF k
      <3> QED BY <1>1, <3>5, <3>6, <3>7, <3>8, <3>9
    <2> QED BY <2>1, <2>2
  <1>6. IsBest(x, S)
    <2>1. x \in {0} \cup {Prio[r] : r \in S}
      BY <1>2, <1>3 DEF IsBest
    <2> HIDE DEF S, x
    <2> QED BY <1>5, <2>1 DEF IsBest
  <1> HIDE DEF S, x
  <1>7. x = Best(S)
    BY <1>2, <1>6, BestUnique
  <1> QED BY <1>7 DEF S, x

LEMMA LookupEndInv ==
  ASSUME Inv, LookupEnd
  PROVE  /\ Inv' /\ Stored' = Stored /\ scan.packet \in Packets
         /\ answer' = <<scan.packet, Best({r \in Stored : Matches(r, scan.packet)})>>
PROOF
  <1>1. /\ scan # NoScan /\ ScanOver /\ answer' = <<scan.packet, scan.priority>>
        /\ scan' = NoScan /\ UNCHANGED store
    BY DEF LookupEnd
  <1>2. ScanBest'
    BY <1>1 DEF ScanBest
  <1> QED BY <1>1, <1>2, ScanType, OverIsBest, StoreSame

----------------------------------------------------------------------------
(***************************************************************************)
(* The invariant holds throughout.                                         *)
(***************************************************************************)

LEMMA InitInv == Init => Inv /\ Stored = {}
PROOF
  <1> SUFFICES ASSUME Init PROVE Inv /\ Stored = {}
    OBVIOUS
  <1>1. /\ tuple = <<>> /\ tuples_arr = <<>> /\ max_tuples_num = InitTuples
        /\ DOMAIN id2tuple = {} /\ rules_num = 0 /\ max_priority = 0 /\ scan = NoScan
    BY DEF Init
  <1>2. DOMAIN tuple = {} /\ Len(tuple) = 0 /\ tuple \in Seq(Tuple) /\ tuples_arr \in Seq(DOMAIN tuple)
        /\ Len(tuples_arr) = 0 /\ DOMAIN tuples_arr = {}
    BY <1>1
  <1>3. Stored = {}
    BY <1>2 DEF Stored
  <1>4. TypeOK
    <2>1. Elements(tuples_arr) = DOMAIN tuple
      BY <1>2 DEF Elements
    <2>2. max_tuples_num \in Nat \ {0} /\ Len(tuples_arr) <= max_tuples_num
      BY <1>1, <1>2, ClassifierAssumption
    <2> QED BY <1>1, <1>2, <2>1, <2>2 DEF TypeOK
  <1>5. NumCovers
    BY <1>1, <1>3, FS_EmptySet DEF NumCovers
  <1>6. HeapCovers(tuple) /\ ArraySorted /\ EntryExact /\ EntryFits /\ MaxCovers /\ ScanBest
    BY <1>1, <1>2, <1>3 DEF HeapCovers, ArraySorted, Descends, EntryExact, EntryFits, MaxCovers, ScanBest
  <1> QED BY <1>3, <1>4, <1>5, <1>6 DEF Inv

LEMMA InsertRuleInv ==
  ASSUME Inv, NEW r \in Rules, InsertRule(r)
  PROVE  Inv' /\ r \notin Stored /\ Stored' = Stored \cup {r} /\ answer' = <<>>
PROOF
  <1>1. /\ scan = NoScan /\ r \notin Stored
        /\ InsertKnown(r) \/ InsertChosen(r) \/ InsertDefault(r) \/ InsertNewDefault(r)
    BY DEF InsertRule
  <1> HIDE DEF Inv, InsertKnown, InsertChosen, InsertDefault, InsertNewDefault
  <1> QED BY <1>1, InsertKnownInv, InsertChosenInv, InsertDefaultInv, InsertNewDefaultInv

\* addTuple, LookupStart and LookupProbe map to stutters; the rest to steps
\* of the classifier, in which no lookup ever answers wrong.
StepMeaning ==
  \/ Stored' = Stored /\ answer' = answer
  \/ \E r \in Rules :
       \/ r \notin Stored /\ Stored' = Stored \cup {r} /\ answer' = <<>>
       \/ r \in Stored /\ Stored' = Stored \ {r} /\ answer' = <<>>
       \/ r \notin Stored /\ Stored' \subseteq Stored /\ answer' = <<>>
  \/ \E p \in Packets :
       Stored' = Stored /\ answer' = <<p, Best({r \in Stored : Matches(r, p)})>>

LEMMA StepInv == Inv /\ [Next]_vars => Inv' /\ StepMeaning
PROOF
  <1> SUFFICES ASSUME Inv, [Next]_vars PROVE Inv' /\ StepMeaning
    OBVIOUS
  <1> HIDE DEF Inv
  <1>1. ASSUME NEW s \in Shapes, addTuple(s) PROVE Inv' /\ StepMeaning
    BY <1>1, AddTupleInv DEF StepMeaning, addTuple
  <1>2. ASSUME NEW r \in Rules, InsertRule(r) PROVE Inv' /\ StepMeaning
    BY <1>2, InsertRuleInv DEF StepMeaning
  <1>3. ASSUME NEW r \in Rules, DeleteRule(r) PROVE Inv' /\ StepMeaning
    BY <1>3, DeleteRuleInv DEF StepMeaning
  <1>4. ASSUME NEW r \in Rules, DeleteAgain(r) PROVE Inv' /\ StepMeaning
    BY <1>4, DeleteAgainInv DEF StepMeaning
  <1>5. ASSUME NEW r \in Rules, DeleteUnknown(r) PROVE Inv' /\ StepMeaning
    BY <1>5, DeleteUnknownInv DEF StepMeaning
  <1>6. ASSUME NEW p \in Packets, LookupStart(p) PROVE Inv' /\ StepMeaning
    BY <1>6, LookupStartInv DEF StepMeaning
  <1>7. CASE LookupProbe
    BY <1>7, LookupProbeInv DEF StepMeaning
  <1>8. CASE LookupEnd
    BY <1>8, LookupEndInv DEF StepMeaning
  <1>9. CASE UNCHANGED vars
    <2>1. UNCHANGED store /\ scan' = scan /\ answer' = answer
      BY <1>9 DEF vars, store
    <2>2. ScanBest' /\ (scan' = NoScan
            \/ scan' \in [packet : Packets, tuples : 0 .. Len(tuples_arr), priority : Nat])
      <3>1. Probed' = Probed
        BY <2>1 DEF store, Probed
      <3> QED BY <2>1, <3>1 DEF Inv, TypeOK, ScanBest
    <2> QED BY <2>1, <2>2, StoreSame DEF StepMeaning
  <1> QED BY <1>1, <1>2, <1>3, <1>4, <1>5, <1>6, <1>7, <1>8, <1>9 DEF Next, Update, Lookup

\* The invariant holds in every state, careless callers or not.
THEOREM Invariance == Spec => []Inv
PROOF
  <1>1. Init => Inv
    BY InitInv
  <1>2. Inv /\ [Next]_vars => Inv'
    BY StepInv
  <1> QED BY <1>1, <1>2, PTL DEF Spec

----------------------------------------------------------------------------
(***************************************************************************)
(* The properties.                                                         *)
(***************************************************************************)

\* The fields keep their types and the array never outgrows its allocation.
THEOREM Types == Spec => []TypeOK
PROOF
  <1>1. Inv => TypeOK
    BY DEF Inv
  <1> QED BY <1>1, Invariance, PTL

\* The array descends after every update, sorted or not (rltuple.cpp:77, 137, 255, 260).
THEOREM Sorted == Spec => []ArraySorted
PROOF
  <1>1. Inv => ArraySorted
    BY DEF Inv
  <1> QED BY <1>1, Invariance, PTL

\* A stored rule is in the one tuple id2tuple names, and fits it, whichever way
\* it came there (rltuple.cpp:73-75, 92, 107, 140, 245).
THEOREM Places == Spec => []RulesPlaced
PROOF
  <1>1. Inv => EntryExact
    BY DEF Inv
  <1>2. Inv => RulesFit
    BY StoredFits DEF RulesFit
  <1>3. Inv => RulesPlaced
    BY <1>1, <1>2 DEF RulesPlaced
  <1> QED BY <1>3, Invariance, PTL

\* max_priority covers every stored rule (rltuple.cpp:78, 262).
THEOREM Covers == Spec => []MaxCovers
PROOF
  <1>1. Inv => MaxCovers
    BY DEF Inv
  <1> QED BY <1>1, Invariance, PTL

\* A lookup has, at every turn, the best match of the tuples it has probed, and
\* ends early only when that is the best of all (rltuple.cpp:612-668).
THEOREM Scans == Spec => []ScanExact
PROOF
  <1>1. Inv => ScanExact
    BY OverIsBest DEF Inv, ScanBest, ScanExact
  <1> QED BY <1>1, Invariance, PTL

\* RlTuple implements the classifier, for shapes that fit the key and rules whose values
\* fit their fields (ClassifierAssumption): the initial states and every step of it.
THEOREM Refinement == Spec => ClassifierSpec
PROOF
  <1>1. Init => Abstract!Init
    BY InitInv DEF Abstract!Init, Init
  <1>2. \A S : Abstract!Best(S) = Best(S)
    BY DEF Abstract!Best, Best
  <1>3. StepMeaning => [Abstract!Next]_<<Stored, answer>>
    <2> SUFFICES ASSUME StepMeaning PROVE [Abstract!Next]_<<Stored, answer>>
      OBVIOUS
    <2>1. CASE Stored' = Stored /\ answer' = answer
      BY <2>1
    <2>2. ASSUME NEW r \in Rules, r \notin Stored, Stored' = Stored \cup {r}, answer' = <<>>
          PROVE  Abstract!Next
      BY <2>2 DEF Abstract!Next, Abstract!Insert
    <2>3. ASSUME NEW r \in Rules, r \in Stored, Stored' = Stored \ {r}, answer' = <<>>
          PROVE  Abstract!Next
      BY <2>3 DEF Abstract!Next, Abstract!Delete
    <2>4. ASSUME NEW r \in Rules, r \notin Stored, Stored' \subseteq Stored, answer' = <<>>
          PROVE  Abstract!Next
      <3>1. Stored' = Stored \ (Stored \ Stored')
        BY <2>4
      <3>2. Abstract!Lose(r)
        BY <2>4, <3>1 DEF Abstract!Lose
      <3> QED BY <3>2 DEF Abstract!Next
    <2>5. ASSUME NEW p \in Packets, Stored' = Stored,
                 answer' = <<p, Best({r \in Stored : Matches(r, p)})>>
          PROVE  Abstract!Next
      BY <1>2, <2>5 DEF Abstract!Next, Abstract!Lookup
    <2> QED BY <2>1, <2>2, <2>3, <2>4, <2>5 DEF StepMeaning
  <1>4. Inv /\ [Next]_vars => [Abstract!Next]_<<Stored, answer>>
    BY <1>3, StepInv
  <1> QED BY <1>1, <1>4, Invariance, PTL DEF Spec, ClassifierSpec, Abstract!Spec

----------------------------------------------------------------------------
(***************************************************************************)
(* Careful callers: the two numbers of every tuple are exact.  A history   *)
(* variable of MCRLTuple, strayed, remembers whether a caller has deleted  *)
(* what was not stored.                                                    *)
(***************************************************************************)

IsExact(T) == T.rules_num = Cardinality(T.rules) /\ T.max_priority = Best(T.rules)
HeapExact(h) == \A t \in DOMAIN h : IsExact(h[t])

LEMMA BestOfNone == Best({}) = 0
PROOF
  <1>1. IsBest(0, {})
    BY DEF IsBest
  <1> QED BY <1>1, BestUnique

LEMMA InsertExact ==
  ASSUME NEW T \in Tuple, IsExact(T), NEW r \in Rules, r \notin T.rules
  PROVE  IsExact(TupleInsert(T, r))
PROOF
  <1> DEFINE best == IF Prio[r] > T.max_priority THEN Prio[r] ELSE T.max_priority
             all == T.rules \cup {r}
  <1>1. /\ TupleInsert(T, r).rules = all
        /\ TupleInsert(T, r).rules_num = T.rules_num + 1
        /\ TupleInsert(T, r).max_priority = best
    BY DEF TupleInsert, Tuple
  <1>2. T.rules \in SUBSET Rules /\ T.max_priority \in Nat /\ all \in SUBSET Rules
    BY TupleType
  <1>3. Prio \in [Rules -> Nat]
    BY ClassifierAssumption
  <1>4. IsBest(T.max_priority, T.rules)
    BY <1>2, BestExists DEF IsExact
  <1>5. IsBest(best, all)
    <2>1. best \in {0} \cup {Prio[q] : q \in all}
      BY <1>4 DEF IsBest
    <2>2. ASSUME NEW q \in all PROVE Prio[q] <= best
      <3>1. Prio[q] \in Nat /\ Prio[r] \in Nat
        BY <1>2, <1>3
      <3>2. q = r \/ Prio[q] <= T.max_priority
        BY <1>4 DEF IsBest
      <3> HIDE DEF all
      <3> QED BY <1>2, <3>1, <3>2
    <2> HIDE DEF best, all
    <2> QED BY <2>1, <2>2 DEF IsBest
  <1>6. best = Best(all)
    <2> HIDE DEF best, all
    <2> QED BY <1>2, <1>5, BestUnique
  <1>7. Cardinality(all) = T.rules_num + 1
    BY TupleType, FS_AddElement DEF IsExact
  <1> QED BY <1>1, <1>6, <1>7 DEF IsExact

LEMMA DeleteExact ==
  ASSUME NEW T \in Tuple, IsExact(T), NEW r \in T.rules
  PROVE  IsExact(TupleDelete(T, r))
PROOF
  <1> DEFINE rest == T.rules \ {r}
  <1>1. /\ TupleDelete(T, r).rules = rest
        /\ TupleDelete(T, r).rules_num = T.rules_num - 1
        /\ TupleDelete(T, r).max_priority
             = IF Prio[r] = T.max_priority THEN Best(rest) ELSE T.max_priority
    BY DEF TupleDelete, Tuple
  <1>2. T.rules \in SUBSET Rules /\ rest \in SUBSET Rules
    BY TupleType
  <1>3. IsBest(T.max_priority, T.rules)
    BY <1>2, BestExists DEF IsExact
  <1>4. ASSUME Prio[r] # T.max_priority PROVE T.max_priority = Best(rest)
    <2>1. IsBest(T.max_priority, rest)
      BY <1>3, <1>4 DEF IsBest
    <2> HIDE DEF rest
    <2> QED BY <1>2, <2>1, BestUnique
  <1>5. Cardinality(rest) = T.rules_num - 1
    <2>1. IsFiniteSet(T.rules) /\ Cardinality(rest) = Cardinality(T.rules) - 1
      BY TupleType, FS_RemoveElement
    <2> QED BY <2>1 DEF IsExact
  <1> QED BY <1>1, <1>4, <1>5 DEF IsExact

LEMMA NewExact ==
  ASSUME NEW s
  PROVE  IsExact(NewTuple(s))
BY BestOfNone, FS_EmptySet DEF IsExact, NewTuple

\* An exact tuple counts to 0 only without rules, and then its best is 0.
LEMMA EmptyExact ==
  ASSUME NEW T \in Tuple, IsExact(T)
  PROVE  /\ T.rules_num = 0 <=> T.rules = {}
         /\ T.max_priority = 0 <=> T.rules = {}
PROOF
  <1>1. IsFiniteSet(T.rules) /\ T.rules \in SUBSET Rules
    BY TupleType
  <1>2. T.rules_num = 0 <=> T.rules = {}
    BY <1>1, FS_EmptySet DEF IsExact
  <1>3. IsBest(T.max_priority, T.rules)
    BY <1>1, BestExists DEF IsExact
  <1>4. ASSUME NEW q \in T.rules PROVE T.max_priority # 0
    <2>1. Prio[q] \in Nat \ {0}
      BY <1>1, ClassifierAssumption
    <2>2. Prio[q] <= T.max_priority
      BY <1>3 DEF IsBest
    <2> QED BY <2>1, <2>2
  <1>5. T.rules = {} => T.max_priority = 0
    BY <1>3 DEF IsBest
  <1> QED BY <1>2, <1>4, <1>5

LEMMA PutIntoExact ==
  ASSUME Inv, HeapExact(tuple), NEW r \in Rules, r \notin Stored,
         NEW t \in DOMAIN tuple, PutInto(t, r)
  PROVE  HeapExact(tuple') /\ rules_num' = rules_num + 1
PROOF
  <1>1. tuple \in Seq(Tuple)
    BY TypeLists
  <1>2. tuple[t] \in Tuple /\ r \notin tuple[t].rules
    BY <1>1, HeapType DEF Stored
  <1>3. IsExact(TupleInsert(tuple[t], r))
    BY <1>2, InsertExact DEF HeapExact
  <1>4. tuple' = [tuple EXCEPT ![t] = TupleInsert(tuple[t], r)] /\ rules_num' = rules_num + 1
    BY DEF PutInto, Settle
  <1> QED BY <1>3, <1>4 DEF HeapExact

LEMMA InsertRuleExact ==
  ASSUME Inv, HeapExact(tuple), NEW r \in Rules, InsertRule(r)
  PROVE  HeapExact(tuple') /\ rules_num' = rules_num + 1
PROOF
  <1>1. r \notin Stored
    BY DEF InsertRule
  <1>2. CASE InsertKnown(r)
    <2>1. id2tuple[r] \in DOMAIN tuple /\ PutInto(id2tuple[r], r)
      BY <1>2 DEF InsertKnown, Inv, TypeOK
    <2> HIDE DEF Inv
    <2> QED BY <1>1, <2>1, PutIntoExact
  <1>3. CASE InsertChosen(r)
    <2>1. PICK t \in DOMAIN tuple : PutInto(t, r)
      BY <1>3 DEF InsertChosen, Chosen, Candidates
    <2> HIDE DEF Inv
    <2> QED BY <1>1, <2>1, PutIntoExact
  <1>4. CASE InsertDefault(r)
    <2>1. PICK t \in DOMAIN tuple : PutInto(t, r)
      BY <1>4 DEF InsertDefault, IsDefault, Candidates
    <2> HIDE DEF Inv
    <2> QED BY <1>1, <2>1, PutIntoExact
  <1>5. CASE InsertNewDefault(r)
    <2> DEFINE N == NewTuple(Default)
               U == TupleInsert(N, r)
    <2>1. N \in Tuple /\ IsExact(N) /\ r \notin N.rules
      BY DefaultTupleType, NewExact DEF TupleShapes, NewTuple
    <2>2. tuple \in Seq(Tuple)
      BY TypeLists
    <2>3. tuple' = Append(tuple, U) /\ rules_num' = rules_num + 1
      BY <1>5 DEF InsertNewDefault, Settle
    <2> HIDE DEF N
    <2>4. IsExact(U)
      BY <2>1, InsertExact
    <2> HIDE DEF U
    <2>5. ASSUME NEW u \in DOMAIN tuple' PROVE IsExact(tuple'[u])
      <3>1. (u \in DOMAIN tuple /\ tuple'[u] = tuple[u]) \/ tuple'[u] = U
        BY <2>2, <2>3
      <3> QED BY <2>4, <3>1 DEF HeapExact
    <2> QED BY <2>3, <2>5 DEF HeapExact
  <1> QED BY <1>2, <1>3, <1>4, <1>5 DEF InsertRule

LEMMA AddTupleExact ==
  ASSUME Inv, HeapExact(tuple), NEW s \in Shapes, addTuple(s)
  PROVE  HeapExact(tuple') /\ rules_num' = rules_num
PROOF
  <1> DEFINE N == NewTuple(s)
  <1>1. tuple \in Seq(Tuple) /\ IsExact(N)
    BY TypeLists, NewExact
  <1>2. tuple' = Append(tuple, N) /\ rules_num' = rules_num
    BY DEF addTuple
  <1> HIDE DEF N
  <1>3. ASSUME NEW u \in DOMAIN tuple' PROVE IsExact(tuple'[u])
    <2>1. (u \in DOMAIN tuple /\ tuple'[u] = tuple[u]) \/ tuple'[u] = N
      BY <1>1, <1>2
    <2> QED BY <1>1, <2>1 DEF HeapExact
  <1> QED BY <1>2, <1>3 DEF HeapExact

\* The delete that empties a tuple also sets its best to 0 itself.
LEMMA DeleteRuleExact ==
  ASSUME Inv, HeapExact(tuple), NEW r \in Rules, DeleteRule(r)
  PROVE  HeapExact(tuple') /\ rules_num' = rules_num - 1
PROOF
  <1> DEFINE t == id2tuple[r]
             T == TupleDelete(tuple[t], r)
             U == IF T.rules_num = 0 THEN [T EXCEPT !.max_priority = 0] ELSE T
  <1>1. /\ t \in DOMAIN tuple /\ r \in tuple[t].rules
        /\ tuple' = [tuple EXCEPT ![t] = U] /\ rules_num' = rules_num - 1
    BY DEF DeleteRule, Inv, TypeOK
  <1>2. tuple \in Seq(Tuple) /\ tuple[t] \in Tuple /\ IsExact(tuple[t]) /\ HeapCovers(tuple)
    BY <1>1, TypeLists, HeapType DEF HeapExact, Inv
  <1> HIDE DEF t
  <1>3. IsExact(T) /\ T \in Tuple
    <2>1. Cardinality(tuple[t].rules) <= tuple[t].rules_num
          /\ \A q \in tuple[t].rules : Prio[q] <= tuple[t].max_priority
      BY <1>1, <1>2 DEF HeapCovers
    <2> QED BY <1>1, <1>2, <2>1, DeleteExact, TupleDeleteType
  <1> HIDE DEF T
  <1>4. IsExact(U)
    <2>1. T.rules_num = 0 => T.max_priority = 0
      BY <1>3, EmptyExact
    <2>2. U = T
      BY <1>3, <2>1 DEF Tuple
    <2> QED BY <1>3, <2>2
  <1> HIDE DEF U
  <1> QED BY <1>1, <1>2, <1>4 DEF HeapExact

LEMMA StepNumbers ==
  ASSUME Inv, NumbersExact, [Next]_vars,
         \A r \in Rules : ~DeleteAgain(r) /\ ~DeleteUnknown(r)
  PROVE  NumbersExact'
PROOF
  <1> HIDE DEF Inv
  <1>1. HeapExact(tuple) /\ rules_num = Cardinality(Stored)
    BY DEF NumbersExact, HeapExact, IsExact
  <1>2. IsFiniteSet(Stored)
    BY TypeLists
  <1>3. ASSUME HeapExact(tuple'), rules_num' = Cardinality(Stored') PROVE NumbersExact'
    BY <1>3 DEF NumbersExact, HeapExact, IsExact
  <1>4. ASSUME NEW s \in Shapes, addTuple(s) PROVE NumbersExact'
    BY <1>1, <1>3, <1>4, AddTupleExact, AddTupleInv
  <1>5. ASSUME NEW r \in Rules, InsertRule(r) PROVE NumbersExact'
    <2>1. Stored' = Stored \cup {r} /\ r \notin Stored
      BY <1>5, InsertRuleInv
    <2> QED BY <1>1, <1>2, <1>3, <1>5, <2>1, InsertRuleExact, FS_AddElement
  <1>6. ASSUME NEW r \in Rules, DeleteRule(r) PROVE NumbersExact'
    <2>1. Stored' = Stored \ {r} /\ r \in Stored
      BY <1>6, DeleteRuleInv
    <2> QED BY <1>1, <1>2, <1>3, <1>6, <2>1, DeleteRuleExact, FS_RemoveElement
  <1>7. ASSUME UNCHANGED store PROVE NumbersExact'
    <2>1. tuple' = tuple /\ rules_num' = rules_num
      BY <1>7 DEF store
    <2>2. Stored' = Stored
      BY <2>1 DEF Stored
    <2> QED BY <1>1, <1>3, <2>1, <2>2
  <1>8. CASE UNCHANGED vars
    BY <1>7, <1>8 DEF vars, store
  <1>9. CASE (\E p \in Packets : LookupStart(p)) \/ Lookup
    BY <1>7, <1>9 DEF LookupStart, Lookup, LookupProbe, LookupEnd
  <1> QED BY <1>4, <1>5, <1>6, <1>8, <1>9 DEF Next, Update

----------------------------------------------------------------------------
(***************************************************************************)
(* TupleNum stops at the first empty tuple: the empty ones come last.      *)
(***************************************************************************)

\* The array names no tuple twice, and each entry is of its type.
LEMMA ArrayOnce ==
  ASSUME Inv
  PROVE  /\ Len(tuples_arr) \in Nat /\ DOMAIN tuples_arr = 1 .. Len(tuples_arr)
         /\ \A i \in DOMAIN tuples_arr : /\ tuples_arr[i] \in DOMAIN tuple
                                         /\ tuple[tuples_arr[i]] \in Tuple
                                         /\ tuple[tuples_arr[i]].max_priority \in Nat
         /\ \A t \in DOMAIN tuple : \E i \in DOMAIN tuples_arr : tuples_arr[i] = t
         /\ \A i, j \in DOMAIN tuples_arr : tuples_arr[i] = tuples_arr[j] => i = j
PROOF
  <1>1. /\ tuple \in Seq(Tuple) /\ tuples_arr \in Seq(DOMAIN tuple)
        /\ Elements(tuples_arr) = DOMAIN tuple /\ Len(tuples_arr) = Len(tuple)
    BY DEF Inv, TypeOK
  <1>2. /\ Len(tuple) \in Nat /\ DOMAIN tuple = 1 .. Len(tuple)
        /\ DOMAIN tuples_arr = 1 .. Len(tuples_arr)
    BY <1>1
  <1>3. \A t \in DOMAIN tuple : \E i \in DOMAIN tuples_arr : tuples_arr[i] = t
    BY <1>1 DEF Elements
  <1>4. tuples_arr \in [1 .. Len(tuple) -> 1 .. Len(tuple)]
    BY <1>1, <1>2
  <1>5. \A i, j \in DOMAIN tuples_arr : tuples_arr[i] = tuples_arr[j] => i = j
    <2>1. \A j \in 1 .. Len(tuple) : \E i \in 1 .. Len(tuple) : tuples_arr[i] = j
      BY <1>1, <1>2, <1>3
    <2>2. DOMAIN tuples_arr = 1 .. Len(tuple)
      BY <1>1, <1>2
    <2> HIDE DEF Inv
    <2> QED BY <1>2, <1>4, <2>1, <2>2, OntoItself
  <1>6. \A i \in DOMAIN tuples_arr : tuples_arr[i] \in DOMAIN tuple /\ tuple[tuples_arr[i]] \in Tuple
    BY <1>1
  <1> QED BY <1>1, <1>2, <1>3, <1>5, <1>6, TupleType

LEMMA CountAllFilled ==
  ASSUME Inv, NumbersExact
  PROVE  TupleNumExact
PROOF
  <1> DEFINE n == Len(tuples_arr)
             At(i) == tuple[tuples_arr[i]]
             IsNum(k) == /\ \A i \in 1 .. k : At(i).rules_num # 0
                         /\ k < n => At(k + 1).rules_num = 0
             Filled == {t \in DOMAIN tuple : tuple[t].rules # {}}
  <1>1. n \in Nat /\ DOMAIN tuples_arr = 1 .. n
    BY ArrayOnce
  <1>2. ASSUME NEW i \in 1 .. n
        PROVE  /\ tuples_arr[i] \in DOMAIN tuple /\ At(i) \in Tuple /\ At(i).max_priority \in Nat
               /\ At(i).rules_num = 0 <=> At(i).rules = {}
               /\ At(i).max_priority = 0 <=> At(i).rules = {}
    <2>1. tuples_arr[i] \in DOMAIN tuple /\ At(i) \in Tuple /\ At(i).max_priority \in Nat
      BY <1>1, ArrayOnce
    <2>2. IsExact(At(i))
      BY <2>1 DEF NumbersExact, IsExact
    <2> QED BY <2>1, <2>2, EmptyExact
  <1>3. ASSUME NEW i \in 1 .. n, NEW j \in 1 .. n, i < j, At(i).rules_num = 0
        PROVE  At(j).rules_num = 0
    <2>1. At(i).max_priority >= At(j).max_priority
      BY <1>1, <1>3 DEF Inv, ArraySorted, Descends
    <2>2. At(i).max_priority = 0 /\ At(j).max_priority \in Nat
      BY <1>2, <1>3
    <2>3. At(j).max_priority = 0
      BY <2>1, <2>2
    <2> QED BY <1>2, <2>3
  <1>4. \E k \in 0 .. n : IsNum(k)
    <2> DEFINE E == {i \in 1 .. n : At(i).rules_num = 0}
    <2>1. CASE E = {}
      <3>1. IsNum(n) /\ n \in 0 .. n
        BY <1>1, <2>1
      <3> QED BY <3>1
    <2>2. CASE E # {}
      <3>1. PICK m \in E : \A j \in E : m <= j
        BY <1>1, <2>2, LeastIndex
      <3>2. m \in 1 .. n /\ At(m).rules_num = 0
        OBVIOUS
      <3>3. \A i \in 1 .. m - 1 : At(i).rules_num # 0
        <4>1. ASSUME NEW i \in 1 .. m - 1 PROVE At(i).rules_num # 0
          <5>1. i \in 1 .. n /\ i < m /\ m \in Int /\ i \in Int
            BY <1>1, <3>2
          <5>2. i \notin E
            BY <3>1, <5>1
          <5> QED BY <5>1, <5>2
        <4> QED BY <4>1
      <3>4. m - 1 \in 0 .. n /\ (m - 1) + 1 = m
        BY <1>1, <3>2
      <3> HIDE DEF E, At
      <3>5. IsNum(m - 1)
        BY <3>2, <3>3, <3>4
      <3> QED BY <3>4, <3>5
    <2> QED BY <2>1, <2>2
  <1>5. TupleNum \in 0 .. n /\ IsNum(TupleNum)
    BY <1>4 DEF TupleNum
  <1> DEFINE k == TupleNum
  <1>6. k \in Nat /\ k <= n /\ \A i \in 1 .. k : i \in 1 .. n
    BY <1>1, <1>5
  <1>7. ASSUME NEW i \in 1 .. n PROVE At(i).rules # {} <=> i \in 1 .. k
    <2>1. CASE i \in 1 .. k
      BY <1>2, <1>5, <2>1
    <2>2. CASE i \notin 1 .. k
      <3>1. k + 1 \in 1 .. n /\ k < n /\ k + 1 <= i
        BY <1>1, <1>6, <2>2
      <3>2. At(k + 1).rules_num = 0
        BY <1>5, <3>1
      <3>3. i = k + 1 \/ k + 1 < i
        BY <1>6, <3>1
      <3>4. At(i).rules_num = 0
        BY <1>3, <3>1, <3>2, <3>3
      <3> QED BY <1>2, <2>2, <3>4
    <2> QED BY <2>1, <2>2
  <1> DEFINE f == [i \in 1 .. k |-> tuples_arr[i]]
  <1> HIDE DEF k
  <1>8. f \in Bijection(1 .. k, Filled)
    <2>1. \A i \in 1 .. k : f[i] = tuples_arr[i] /\ f[i] \in Filled
      BY <1>2, <1>6, <1>7
    <2>2. f \in [1 .. k -> Filled]
      BY <2>1
    <2>3. \A i, j \in 1 .. k : f[i] = f[j] => i = j
      BY <1>1, <1>6, ArrayOnce
    <2>4. ASSUME NEW t \in Filled PROVE \E i \in 1 .. k : f[i] = t
      <3>1. PICK i \in 1 .. n : tuples_arr[i] = t
        BY <1>1, ArrayOnce
      <3>2. i \in 1 .. k
        BY <1>7, <3>1
      <3> QED BY <2>1, <3>1, <3>2
    <2> HIDE DEF f, Filled
    <2> QED BY <2>2, <2>3, <2>4 DEF Bijection, Injection, Surjection, IsInjective
  <1>9. Cardinality(Filled) = k
    <2>1. ExistsBijection(1 .. k, Filled)
      BY <1>8 DEF ExistsBijection
    <2> HIDE DEF Filled
    <2> QED BY <1>6, <2>1, FS_CountingElements
  <1> QED BY <1>9 DEF TupleNumExact, k

----------------------------------------------------------------------------
(***************************************************************************)
(* The estimate.  Walked is what a lookup knows of the tuples it has       *)
(* probed: each was better than every match found before it.               *)
(***************************************************************************)

BestAt(i) == tuple[tuples_arr[i]].max_priority

Walked ==
  scan # NoScan =>
    \A j \in 1 .. scan.tuples : \A i \in 1 .. j - 1 : \A r \in tuple[tuples_arr[i]].rules :
      Matches(r, scan.packet) => Prio[r] < BestAt(j)

LEMMA StepWalked ==
  ASSUME Inv, Walked, [Next]_vars
  PROVE  Walked'
PROOF
  <1> HIDE DEF Inv
  <1>1. CASE scan' = NoScan
    BY <1>1 DEF Walked
  <1>2. ASSUME NEW p \in Packets, LookupStart(p) PROVE Walked'
    <2>1. scan'.tuples = 0
      BY <1>2 DEF LookupStart
    <2> QED BY <2>1 DEF Walked
  <1>3. CASE LookupProbe
    <2> DEFINE k == scan.tuples + 1
    <2>1. /\ scan # NoScan /\ ~ScanOver /\ UNCHANGED <<tuple, tuples_arr>>
          /\ scan'.packet = scan.packet /\ scan'.tuples = k
      <3>1. scan \in [packet : Packets, tuples : 0 .. Len(tuples_arr), priority : Nat]
            /\ scan # NoScan
        BY <1>3, ScanType DEF LookupProbe
      <3> QED BY <1>3, <3>1 DEF LookupProbe, store
    <2>2. /\ scan.tuples \in Nat /\ Len(tuples_arr) \in Nat /\ scan.priority \in Nat
          /\ DOMAIN tuples_arr = 1 .. Len(tuples_arr) /\ scan.tuples < Len(tuples_arr)
          /\ Probed \subseteq Rules
      BY <2>1, ScanType, TypeLists DEF ScanOver
    <2>3. BestAt(k) \in Nat /\ scan.priority < BestAt(k)
      <3>1. k \in DOMAIN tuples_arr
        BY <2>2
      <3>2. BestAt(k) \in Nat
        BY <3>1, ArrayOnce DEF BestAt
      <3> QED BY <2>1, <2>2, <3>2 DEF ScanOver, BestAt
    <2>4. ASSUME NEW i \in 1 .. k - 1, NEW r \in tuple[tuples_arr[i]].rules,
                 Matches(r, scan.packet)
          PROVE  Prio[r] < BestAt(k)
      <3> DEFINE A == {q \in Probed : Matches(q, scan.packet)}
      <3>1. r \in A /\ A \in SUBSET Rules
        BY <2>2, <2>4 DEF Probed
      <3>2. scan.priority = Best(A)
        BY <2>1 DEF Inv, ScanBest
      <3>3. IsBest(scan.priority, A)
        <4> HIDE DEF A
        <4> QED BY <3>1, <3>2, BestExists
      <3>4. Prio[r] <= scan.priority /\ Prio[r] \in Nat
        BY <3>1, <3>3, ClassifierAssumption DEF IsBest
      <3> HIDE DEF k
      <3> QED BY <2>2, <2>3, <3>4
    <2>5. ASSUME NEW j \in 1 .. k, NEW i \in 1 .. j - 1, NEW r \in tuple[tuples_arr[i]].rules,
                 Matches(r, scan.packet)
          PROVE  Prio[r] < BestAt(j)
      <3>1. CASE j = k
        BY <2>4, <2>5, <3>1
      <3>2. CASE j # k
        <4>1. j \in 1 .. scan.tuples
          BY <2>2, <3>2
        <4> QED BY <2>1, <2>5, <4>1 DEF Walked
      <3> QED BY <3>1, <3>2
    <2>6. \A j : BestAt(j)' = BestAt(j)
      BY <2>1 DEF BestAt
    <2> HIDE DEF k
    <2> QED BY <2>1, <2>5, <2>6 DEF Walked
  <1>4. CASE UNCHANGED vars
    BY <1>4 DEF vars, Walked, BestAt
  <1>5. CASE Update \/ LookupEnd
    <2>1. scan' = NoScan
      BY <1>5 DEF Update, addTuple, InsertRule, InsertKnown, InsertChosen, InsertDefault,
                  InsertNewDefault, PutInto, Settle, DeleteRule, DeleteAgain, DeleteUnknown,
                  LookupEnd
    <2> QED BY <1>1, <2>1
  <1> QED BY <1>2, <1>3, <1>4, <1>5 DEF Next, Lookup

\* k is where the run of x from position i ends
IsRun(k, x, i) == /\ k \in i .. Len(tuples_arr)
                  /\ \A j \in i + 1 .. k : x < BestAt(j)
                  /\ k < Len(tuples_arr) => x >= BestAt(k + 1)

LEMMA RunToIs ==
  ASSUME Inv, NEW x \in Nat, NEW i \in 1 .. Len(tuples_arr)
  PROVE  IsRun(RunTo(x, i), x, i)
PROOF
  <1> DEFINE n == Len(tuples_arr)
             E == {j \in i + 1 .. n : x >= BestAt(j)}
  <1>1. n \in Nat /\ i \in Nat /\ i <= n /\ i >= 1
    BY ArrayOnce
  <1>2. \A j \in i + 1 .. n : BestAt(j) \in Nat
    <2>1. \A j \in i + 1 .. n : j \in DOMAIN tuples_arr
      BY <1>1, ArrayOnce
    <2> QED BY <2>1, ArrayOnce DEF BestAt
  <1>3. \E k \in i .. n : IsRun(k, x, i)
    <2>1. CASE E = {}
      <3>1. \A j \in i + 1 .. n : x < BestAt(j)
        BY <1>2, <2>1
      <3>2. n \in i .. n
        BY <1>1
      <3> QED BY <3>1, <3>2 DEF IsRun
    <2>2. CASE E # {}
      <3>1. E \in SUBSET (1 .. n)
        BY <1>1
      <3> HIDE DEF E
      <3>2. PICK m \in E : \A j \in E : m <= j
        BY <1>1, <2>2, <3>1, LeastIndex
      <3>3. m \in i + 1 .. n /\ x >= BestAt(m)
        BY DEF E
      <3>4. m - 1 \in i .. n /\ (m - 1) + 1 = m /\ m \in Int
        BY <1>1, <3>3
      <3>5. ASSUME NEW j \in i + 1 .. m - 1 PROVE x < BestAt(j)
        <4>1. j \in i + 1 .. n /\ j < m
          BY <1>1, <3>3
        <4>2. j \notin E
          BY <3>2, <3>4, <4>1
        <4>3. BestAt(j) \in Nat
          BY <1>2, <4>1
        <4> QED BY <4>1, <4>2, <4>3 DEF E
      <3>6. IsRun(m - 1, x, i)
        BY <3>3, <3>4, <3>5 DEF IsRun
      <3> QED BY <3>4, <3>6
    <2> QED BY <2>1, <2>2
  <1> QED BY <1>3 DEF RunTo, IsRun, BestAt

\* A run ends in one place, wherever in it one starts, and a lower priority runs on.
LEMMA RunLonger ==
  ASSUME Inv, NEW x \in Nat, NEW y \in Nat, x <= y, NEW i \in 1 .. Len(tuples_arr),
         NEW k, IsRun(k, x, i), NEW l, NEW h \in i .. k, IsRun(l, y, h)
  PROVE  l <= k
PROOF
  <1>1. Len(tuples_arr) \in Nat /\ i \in Nat /\ k \in Nat /\ l \in Nat /\ h \in Nat
        /\ i <= h /\ h <= k /\ k <= Len(tuples_arr) /\ h <= l /\ l <= Len(tuples_arr) /\ 1 <= i
    <2>1. Len(tuples_arr) \in Nat
      BY ArrayOnce
    <2> HIDE DEF Inv
    <2> QED BY <2>1 DEF IsRun
  <1>2. SUFFICES ASSUME k < l PROVE FALSE
    BY <1>1
  <1>3. k + 1 \in h + 1 .. l /\ k < Len(tuples_arr) /\ k + 1 \in DOMAIN tuples_arr
    BY <1>1, <1>2, ArrayOnce
  <1>4. y < BestAt(k + 1) /\ x >= BestAt(k + 1)
    BY <1>3 DEF IsRun
  <1>5. BestAt(k + 1) \in Nat
    BY <1>3, ArrayOnce DEF BestAt
  <1> HIDE DEF Inv
  <1> QED BY <1>4, <1>5

LEMMA RunUnique ==
  ASSUME Inv, NEW x \in Nat, NEW i \in 1 .. Len(tuples_arr),
         NEW k, IsRun(k, x, i), NEW h \in i .. k
  PROVE  RunTo(x, h) = k
PROOF
  <1>1. Len(tuples_arr) \in Nat /\ k \in Nat /\ k <= Len(tuples_arr) /\ i \in Nat /\ 1 <= i
    BY ArrayOnce DEF IsRun
  <1>2. h \in 1 .. Len(tuples_arr)
    BY <1>1
  <1> DEFINE l == RunTo(x, h)
  <1>3. IsRun(l, x, h)
    BY <1>2, RunToIs
  <1>4. l \in Nat /\ h <= l
    BY <1>1, <1>2, <1>3 DEF IsRun
  <1> HIDE DEF l
  <1>5. l <= k
    BY <1>3, RunLonger
  <1>6. IsRun(k, x, h)
    BY <1>1, <1>2 DEF IsRun
  <1>7. h \in h .. l
    BY <1>2, <1>4
  <1>8. k <= l
    BY <1>2, <1>3, <1>6, <1>7, RunLonger
  <1>9. l = k
    BY <1>1, <1>4, <1>5, <1>8
  <1> QED BY <1>9 DEF l

\* That tuple_index1 is kept from one rule of a node to the next changes nothing.
LEMMA EstimateIs ==
  ASSUME Inv, NEW i \in DOMAIN tuples_arr, NEW r \in tuple[tuples_arr[i]].rules
  PROVE  /\ r \in Rules /\ Prio[r] \in Nat \ {0} /\ Prio[r] <= BestAt(i)
         /\ IsRun(EstimatedTuples(r, i), Prio[r], i)
PROOF
  <1> DEFINE T == tuple[tuples_arr[i]]
             before == {q \in Group(T, r) : Prio[q] > Prio[r]}
             starts == {i} \cup {RunTo(Prio[q], i) : q \in before}
             k == RunTo(Prio[r], i)
             n == Len(tuples_arr)
             last == CHOOSE m \in starts : \A j \in starts : j <= m
  <1>1. n \in Nat /\ i \in 1 .. n /\ T \in Tuple /\ tuples_arr[i] \in DOMAIN tuple
    BY ArrayOnce
  <1>2. T.rules \subseteq Rules /\ Prio \in [Rules -> Nat \ {0}]
    BY <1>1, TupleType, ClassifierAssumption
  <1>3. r \in Rules /\ Prio[r] \in Nat \ {0} /\ Prio[r] <= BestAt(i)
    BY <1>1, <1>2 DEF Inv, HeapCovers, BestAt
  <1> HIDE DEF Inv
  <1>4. IsRun(k, Prio[r], i)
    BY <1>1, <1>3, RunToIs
  <1> HIDE DEF k
  <1>5. k \in i .. n
    BY <1>4 DEF IsRun
  <1>6. ASSUME NEW q \in before PROVE RunTo(Prio[q], i) \in i .. k
    <2>1. q \in Rules /\ Prio[q] \in Nat /\ Prio[r] <= Prio[q]
      <3>1. q \in Rules /\ Prio[q] > Prio[r]
        BY <1>2 DEF Group
      <3> QED BY <1>2, <1>3, <3>1
    <2>2. IsRun(RunTo(Prio[q], i), Prio[q], i)
      BY <1>1, <2>1, RunToIs
    <2>3. i \in i .. k
      BY <1>1, <1>5
    <2>4. RunTo(Prio[q], i) <= k
      BY <1>1, <1>3, <1>4, <2>1, <2>2, <2>3, RunLonger
    <2> QED BY <1>1, <1>5, <2>2, <2>4 DEF IsRun
  <1>7. starts \subseteq i .. k /\ i \in starts
    <2>1. i \in i .. k
      BY <1>1, <1>5
    <2> HIDE DEF before
    <2> QED BY <1>6, <2>1
  <1> HIDE DEF starts
  <1>8. last \in starts
    <2> DEFINE Id == [j \in starts |-> j]
    <2>1. IsFiniteSet(i .. k)
      BY <1>1, <1>5, FS_Interval
    <2>2. IsFiniteSet(starts) /\ starts # {}
      BY <1>7, <2>1, FS_Subset
    <2>3. \A j \in starts : Id[j] = j /\ j \in Int
      BY <1>1, <1>5, <1>7
    <2> HIDE DEF Id
    <2>4. \E m \in starts : \A j \in starts : Id[j] <= Id[m]
      BY <2>2, <2>3, SomeBest
    <2>5. \E m \in starts : \A j \in starts : j <= m
      BY <2>3, <2>4
    <2> QED BY <2>5
  <1>9. RunTo(Prio[r], last) = k
    <2> HIDE DEF last
    <2> QED BY <1>1, <1>3, <1>4, <1>7, <1>8, RunUnique
  <1>10. EstimatedTuples(r, i) = k
    BY <1>9 DEF EstimatedTuples, starts
  <1> QED BY <1>3, <1>4, <1>10

LEMMA EstimateHolds ==
  ASSUME Inv, Walked, NumbersExact
  PROVE  EstimateSound
PROOF
  <1>1. EstimateDefined
    <2>1. ASSUME NEW i \in DOMAIN tuples_arr, NEW r \in tuple[tuples_arr[i]].rules,
                 NEW j \in 1 .. EstimatedTuples(r, i)
          PROVE  tuple[tuples_arr[j]].rules # {}
      <3> DEFINE k == EstimatedTuples(r, i)
      <3>1. /\ Prio[r] \in Nat \ {0} /\ Prio[r] <= BestAt(i) /\ IsRun(k, Prio[r], i)
            /\ Len(tuples_arr) \in Nat /\ DOMAIN tuples_arr = 1 .. Len(tuples_arr)
        BY EstimateIs, ArrayOnce
      <3>2. k \in Nat /\ i \in Nat /\ i <= k /\ k <= Len(tuples_arr) /\ j \in DOMAIN tuples_arr
        BY <3>1 DEF IsRun
      <3>3. BestAt(i) \in Nat /\ BestAt(j) \in Nat
        BY <3>2, ArrayOnce DEF BestAt
      <3>4. BestAt(j) # 0
        <4>1. CASE j = i
          BY <3>1, <3>3, <4>1
        <4>2. CASE j < i
          <5>1. BestAt(j) >= BestAt(i)
            BY <3>2, <4>2 DEF Inv, ArraySorted, Descends, BestAt
          <5> QED BY <3>1, <3>3, <5>1
        <4>3. CASE j > i
          <5>1. j \in i + 1 .. k
            BY <3>2, <4>3
          <5>2. Prio[r] < BestAt(j)
            BY <3>1, <5>1 DEF IsRun
          <5> QED BY <3>1, <3>3, <5>2
        <4> QED BY <3>2, <4>1, <4>2, <4>3
      <3>5. tuple[tuples_arr[j]] \in Tuple /\ tuples_arr[j] \in DOMAIN tuple
        BY <3>2, ArrayOnce
      <3>6. IsExact(tuple[tuples_arr[j]])
        BY <3>5 DEF NumbersExact, IsExact
      <3> QED BY <3>4, <3>5, <3>6, EmptyExact DEF BestAt
    <2> QED BY <2>1 DEF EstimateDefined
  <1>2. ASSUME scan # NoScan, ScanOver, NEW i \in DOMAIN tuples_arr,
               NEW r \in tuple[tuples_arr[i]].rules, Prio[r] = scan.priority
        PROVE  EstimatedTuples(r, i) = scan.tuples
    <2> DEFINE A == {q \in Probed : Matches(q, scan.packet)}
               m == scan.tuples
               k == EstimatedTuples(r, i)
    <2>1. /\ r \in Rules /\ Prio[r] \in Nat \ {0} /\ IsRun(k, Prio[r], i)
          /\ Len(tuples_arr) \in Nat /\ DOMAIN tuples_arr = 1 .. Len(tuples_arr)
          /\ m \in Nat /\ m <= Len(tuples_arr)
      BY <1>2, EstimateIs, ArrayOnce, ScanType
    <2>2. A \in SUBSET Rules
      BY <1>2, ScanType, TypeLists
    <2>3. IsBest(scan.priority, A)
      <3>1. scan.priority = Best(A)
        BY <1>2 DEF Inv, ScanBest
      <3> HIDE DEF A
      <3> QED BY <2>2, <3>1, BestExists
    <2>4. r \in A
      <3>1. PICK q \in A : Prio[q] = Prio[r]
        BY <1>2, <2>1, <2>3 DEF IsBest
      <3>2. q = r
        BY <2>1, <2>2, <3>1, ClassifierAssumption
      <3> QED BY <3>2
    <2>5. PICK h \in 1 .. m : r \in tuple[tuples_arr[h]].rules
      BY <2>4 DEF Probed
    <2>6. h = i /\ i \in 1 .. m
      <3>1. h \in DOMAIN tuples_arr
        BY <2>1
      <3>2. tuples_arr[h] = tuples_arr[i]
        BY <2>5, <3>1, ArrayOnce DEF Inv, EntryExact
      <3> QED BY <2>5, <3>1, <3>2, ArrayOnce
    <2>7. ASSUME NEW j \in i + 1 .. m PROVE Prio[r] < BestAt(j)
      <3>1. j \in 1 .. m /\ i \in 1 .. j - 1
        BY <2>1, <2>6
      <3> QED BY <1>2, <2>4, <3>1 DEF Walked
    <2>8. m < Len(tuples_arr) => Prio[r] >= BestAt(m + 1)
      BY <1>2 DEF ScanOver, BestAt
    <2>9. IsRun(m, Prio[r], i)
      BY <2>1, <2>6, <2>7, <2>8 DEF IsRun
    <2> HIDE DEF k, m
    <2>10. i \in i .. m /\ i \in i .. k /\ m \in Int /\ k \in Int
      BY <2>1, <2>6, <2>9 DEF IsRun
    <2>11. RunTo(Prio[r], i) = m
      BY <2>1, <2>9, <2>10, RunUnique
    <2>12. RunTo(Prio[r], i) = k
      BY <2>1, <2>10, RunUnique
    <2> QED BY <2>11, <2>12 DEF k, m
  <1> QED BY <1>1, <1>2 DEF EstimateSound, EstimateExact

----------------------------------------------------------------------------
(***************************************************************************)
(* What holds until a caller strays.                                       *)
(***************************************************************************)

TillStray == Inv /\ Walked /\ (strayed \/ NumbersExact)

LEMMA CarefulStep == TillStray /\ [MCNext]_<<vars, strayed>> => TillStray'
PROOF
  <1> SUFFICES ASSUME TillStray, [MCNext]_<<vars, strayed>> PROVE TillStray'
    OBVIOUS
  <1>1. Inv /\ Walked /\ [Next]_vars
    BY DEF TillStray, MCNext
  <1>2. Inv' /\ Walked'
    BY <1>1, StepInv, StepWalked
  <1>3. strayed' \/ NumbersExact'
    <2>1. CASE strayed
      <3>1. strayed'
        <4>1. CASE MCNext
          <5>1. (strayed \/ \E r \in Rules : DeleteAgain(r) \/ DeleteUnknown(r)) = TRUE
            BY <2>1
          <5>2. strayed' = TRUE
            BY <4>1, <5>1, Zenon DEF MCNext
          <5> QED BY <5>2
        <4>2. CASE UNCHANGED <<vars, strayed>>
          BY <2>1, <4>2
        <4> QED BY <4>1, <4>2
      <3> QED BY <3>1
    <2>2. CASE ~strayed /\ MCNext
      <3>1. CASE \E r \in Rules : DeleteAgain(r) \/ DeleteUnknown(r)
        BY <2>2, <3>1 DEF MCNext
      <3>2. CASE ~\E r \in Rules : DeleteAgain(r) \/ DeleteUnknown(r)
        BY <1>1, <2>2, <3>2, StepNumbers DEF TillStray
      <3> QED BY <3>1, <3>2
    <2>3. CASE ~strayed /\ UNCHANGED <<vars, strayed>>
      <3>1. UNCHANGED <<tuple, rules_num>> /\ NumbersExact
        BY <2>3 DEF vars, TillStray
      <3> QED BY <3>1 DEF NumbersExact, Stored
    <2> QED BY <2>1, <2>2, <2>3
  <1> QED BY <1>2, <1>3 DEF TillStray

THEOREM Careful == MCSpec => []TillStray
PROOF
  <1>1. MCInit => TillStray
    <2> SUFFICES ASSUME MCInit PROVE TillStray
      OBVIOUS
    <2>1. Inv /\ Stored = {}
      BY InitInv DEF MCInit
    <2>2. scan = NoScan /\ DOMAIN tuple = {} /\ rules_num = 0
      BY DEF MCInit, Init
    <2>3. NumbersExact
      BY <2>1, <2>2, FS_EmptySet DEF NumbersExact
    <2> QED BY <2>1, <2>2, <2>3 DEF TillStray, Walked
  <1> QED BY <1>1, CarefulStep, PTL DEF MCSpec

\* As long as callers delete only what is stored, every counter and every best
\* priority is exact, and TupleNum counts the tuples in use (rltuple.cpp:241-269).
THEOREM Counters == MCSpec => []CountersExactTillStray
PROOF
  <1>1. TillStray => CountersExactTillStray
    BY CountAllFilled DEF TillStray, CountersExactTillStray, CountersExact
  <1> QED BY <1>1, Careful, PTL

\* As long as they do, evaluateWithWeight charges a rule with the tuples a lookup
\* probes that ends with it, and never divides by zero (rltuple.cpp:348-435).
THEOREM Estimate == MCSpec => []EstimateSoundTillStray
PROOF
  <1>1. TillStray => EstimateSoundTillStray
    BY EstimateHolds DEF TillStray, EstimateSoundTillStray
  <1> QED BY <1>1, Careful, PTL

----------------------------------------------------------------------------
(***************************************************************************)
(* A session with the learning agent (module RLSession).  What a client    *)
(* can compose are legal shapes of one field or two.                       *)
(***************************************************************************)

\* every length of an option is positive and fits its field
LEMMA OptionType ==
  ASSUME NEW c \in Options
  PROVE  c.field \in Fields /\ c.len \in 1 .. Width[c.field] /\ c.len \in Nat \ {0}
PROOF
  <1>1. \A f \in Fields : Width[f] \in Nat \ {0}
    BY PrefixAssumption
  <1>2. Addresses \subseteq Fields /\ \A f \in Addresses : Width[f] = Width[0]
    BY SessionAssumption DEF Addresses
  <1>3. c.field \in Fields /\ c.len \in 1 .. Width[c.field]
    <2>1. CASE c \in {[field |-> f, len |-> n] : f \in Addresses, n \in 1 .. Width[0]}
      BY <1>2, <2>1
    <2>2. CASE c \in {[field |-> f, len |-> FixedLen[f]] : f \in Fields \ Addresses}
      BY <2>2, SessionAssumption
    <2> QED BY <2>1, <2>2 DEF Options
  <1> QED BY <1>1, <1>3

LEMMA OneFieldIs ==
  ASSUME NEW c
  PROVE  Extend(NoShape, c) = [used_field |-> <<c.field>>, prefix_len |-> <<c.len>>]
BY DEF Extend, NoShape

LEMMA TwoFieldsIs ==
  ASSUME NEW c, NEW d
  PROVE  Extend(Extend(NoShape, c), d)
           = [used_field |-> <<c.field, d.field>>, prefix_len |-> <<c.len, d.len>>]
BY DEF Extend, NoShape

LEMMA ComposedLegal ==
  ASSUME NEW s \in Composed
  PROVE  /\ s \in Shapes /\ s \in Shape /\ Legal(s)
         /\ s.prefix_len[1] \in Nat \ {0} /\ s.used_field[1] \in Fields
         /\ Len(s.used_field) = 2 => s.prefix_len[2] \in Nat \ {0}
PROOF
  <1>1. s \in Shapes /\ s \in Shape
    BY SessionAssumption, ClassifierAssumption DEF Composed
  <1>2. CASE s \in OneField
    <2>1. PICK c \in Options : s = [used_field |-> <<c.field>>, prefix_len |-> <<c.len>>]
      BY <1>2, OneFieldIs DEF OneField
    <2>2. c.len \in 1 .. Width[c.field] /\ c.len \in Nat \ {0} /\ c.field \in Fields
      BY OptionType
    <2>3. /\ Len(s.used_field) = 1 /\ Len(s.prefix_len) = 1
          /\ DOMAIN s.used_field = {1} /\ DOMAIN s.prefix_len = {1}
          /\ s.used_field[1] = c.field /\ s.prefix_len[1] = c.len
      BY <2>1
    <2> QED BY <1>1, <2>2, <2>3 DEF Legal
  <1>3. CASE s \in TwoFields
    <2>1. PICK c \in Options, d \in Options :
            s = [used_field |-> <<c.field, d.field>>, prefix_len |-> <<c.len, d.len>>]
      BY <1>3, TwoFieldsIs DEF TwoFields, OneField
    <2>2. /\ c.len \in 1 .. Width[c.field] /\ c.len \in Nat \ {0} /\ c.field \in Fields
          /\ d.len \in 1 .. Width[d.field] /\ d.len \in Nat \ {0}
      BY OptionType
    <2>3. /\ Len(s.used_field) = 2 /\ Len(s.prefix_len) = 2
          /\ DOMAIN s.used_field = {1, 2} /\ DOMAIN s.prefix_len = {1, 2}
          /\ s.used_field[1] = c.field /\ s.prefix_len[1] = c.len
          /\ s.used_field[2] = d.field /\ s.prefix_len[2] = d.len
      BY <2>1
    <2>4. s.used_field[1] # s.used_field[2]
      BY <1>3 DEF TwoFields
    <2> QED BY <1>1, <2>2, <2>3, <2>4 DEF Legal
  <1> QED BY <1>2, <1>3 DEF Composed

----------------------------------------------------------------------------
(***************************************************************************)
(* The lists a command makes name every shape, or every rule, once.        *)
(***************************************************************************)

LEMMA AllOfThem ==
  ASSUME NEW S, IsFiniteSet(S), NEW l \in [1 .. Cardinality(S) -> S],
         \A i, j \in 1 .. Cardinality(S) : i < j => l[i] # l[j]
  PROVE  l \in Seq(S) /\ Len(l) = Cardinality(S) /\ Elements(l) = S
PROOF
  <1>1. Cardinality(S) \in Nat
    BY FS_CardinalityType
  <1> DEFINE n == Cardinality(S)
  <1>2. l \in Seq(S) /\ Len(l) = n /\ DOMAIN l = 1 .. n
    BY <1>1
  <1>3. IsFiniteSet(1 .. n) /\ Cardinality(1 .. n) = n
    BY <1>1, FS_Interval
  <1>4. \A i, j \in 1 .. n : l[i] = l[j] => i = j
    BY <1>1
  <1>5. l \in Injection(1 .. n, S)
    BY <1>4 DEF Injection, IsInjective
  <1>6. l \in Surjection(1 .. n, S)
    BY <1>3, <1>5, FS_Injection
  <1> QED BY <1>2, <1>6 DEF Surjection, Elements

LEMMA OrderedAll ==
  ASSUME NEW S, IsFiniteSet(S), S \subseteq Composed, NEW l \in Ordered(S)
  PROVE  l \in Seq(S) /\ Len(l) = Cardinality(S) /\ Elements(l) = S
PROOF
  <1>1. l \in [1 .. Cardinality(S) -> S]
    BY DEF Ordered
  <1>2. ASSUME NEW s \in S PROVE ~ShapeBefore(s, s)
    <2>1. s \in Shape
      BY ComposedLegal
    <2>2. /\ Len(s.used_field) \in Nat /\ Len(s.prefix_len) \in Nat
          /\ \A i \in DOMAIN s.used_field : s.used_field[i] \in Int
          /\ \A i \in DOMAIN s.prefix_len : s.prefix_len[i] \in Int
      BY <2>1, PrefixAssumption DEF Shape
    <2> QED BY <2>2, SMTT(30) DEF ShapeBefore, LexBefore
  <1>3. \A i, j \in 1 .. Cardinality(S) : i < j => l[i] # l[j]
    BY <1>1, <1>2 DEF Ordered
  <1> QED BY <1>1, <1>3, AllOfThem

LEMMA RuleListAll ==
  ASSUME NEW l \in RuleLists
  PROVE  l \in Seq(Rules) /\ Elements(l) = Rules
PROOF
  <1>1. l \in [1 .. Cardinality(Rules) -> Rules] /\ IsFiniteSet(Rules)
    BY ClassifierAssumption DEF RuleLists
  <1>2. \A r \in Rules : Prio[r] \in Nat
    BY ClassifierAssumption
  <1>3. \A i, j \in 1 .. Cardinality(Rules) : i < j => l[i] # l[j]
    BY <1>1, <1>2 DEF RuleLists
  <1> QED BY <1>1, <1>3, AllOfThem

----------------------------------------------------------------------------
(***************************************************************************)
(* What the classifier's operations do to the shapes of its tuples.        *)
(***************************************************************************)

Has(s) == \E t \in DOMAIN tuple : tuple[t].shape = s

ShapesKept ==
  /\ Len(tuple) <= Len(tuple')
  /\ \A t \in DOMAIN tuple : t \in DOMAIN tuple' /\ tuple'[t].shape = tuple[t].shape

LEMMA KeptHas ==
  ASSUME ShapesKept, NEW s, Has(s)
  PROVE  Has(s)'
BY DEF ShapesKept, Has

LEMMA PutIntoShapes ==
  ASSUME Inv, NEW r \in Rules, NEW t \in DOMAIN tuple, PutInto(t, r)
  PROVE  ShapesKept /\ Len(tuple') = Len(tuple)
PROOF
  <1> DEFINE T == TupleInsert(tuple[t], r)
  <1>1. tuple \in Seq(Tuple)
    BY TypeLists
  <1>2. tuple' = [tuple EXCEPT ![t] = T] /\ T.shape = tuple[t].shape
    <2>1. tuple[t] \in Tuple
      BY <1>1
    <2> QED BY <2>1 DEF PutInto, Settle, TupleInsert, Tuple
  <1> HIDE DEF T
  <1>3. Len(tuple') = Len(tuple) /\ DOMAIN tuple' = DOMAIN tuple /\ Len(tuple) \in Nat
    BY <1>1, <1>2
  <1>4. \A u \in DOMAIN tuple : tuple'[u].shape = tuple[u].shape
    BY <1>1, <1>2
  <1> QED BY <1>3, <1>4 DEF ShapesKept

\* Only one default tuple is ever made: every rule fits the one that is there.
LEMMA InsertShapes ==
  ASSUME Inv, NEW r \in Rules, InsertRule(r)
  PROVE  /\ ShapesKept
         /\ \/ Len(tuple') = Len(tuple)
            \/ Len(tuple') = Len(tuple) + 1 /\ ~Has(Default) /\ Has(Default)'
PROOF
  <1>0. tuple \in Seq(Tuple)
    BY TypeLists
  <1>1. CASE InsertKnown(r)
    <2>1. id2tuple[r] \in DOMAIN tuple /\ PutInto(id2tuple[r], r)
      BY <1>1 DEF InsertKnown, Inv, TypeOK
    <2> HIDE DEF Inv
    <2> QED BY <2>1, PutIntoShapes
  <1>2. CASE InsertChosen(r)
    <2>1. PICK t \in DOMAIN tuple : PutInto(t, r)
      BY <1>2 DEF InsertChosen, Chosen, Candidates
    <2> HIDE DEF Inv
    <2> QED BY <2>1, PutIntoShapes
  <1>3. CASE InsertDefault(r)
    <2>1. PICK t \in DOMAIN tuple : PutInto(t, r)
      BY <1>3 DEF InsertDefault, IsDefault, Candidates
    <2> HIDE DEF Inv
    <2> QED BY <2>1, PutIntoShapes
  <1>4. CASE InsertNewDefault(r)
    <2> DEFINE U == TupleInsert(NewTuple(Default), r)
    <2>1. tuple' = Append(tuple, U) /\ U.shape = Default
      BY <1>4 DEF InsertNewDefault, Settle, TupleInsert, NewTuple
    <2> HIDE DEF U
    <2>2. /\ Len(tuple') = Len(tuple) + 1 /\ Len(tuple) \in Nat
          /\ \A t \in DOMAIN tuple : t \in DOMAIN tuple' /\ tuple'[t] = tuple[t]
          /\ Len(tuple) + 1 \in DOMAIN tuple' /\ tuple'[Len(tuple) + 1] = U
      BY <1>0, <2>1
    <2>3. Has(Default)' /\ ShapesKept
      BY <2>1, <2>2 DEF Has, ShapesKept
    <2>4. ASSUME NEW t \in DOMAIN tuple, tuple[t].shape = Default PROVE FALSE
      <3>1. PICK i \in DOMAIN tuples_arr : tuples_arr[i] = t
        BY ArrayOnce
      <3>2. t \in Candidates(r) /\ tuple[t].shape.prefix_len[1] = 0
        BY <2>4, FitsDefault DEF Candidates, Default
      <3>3. IsDefault(i, r)
        BY <3>1, <3>2 DEF IsDefault
      <3> QED BY <1>4, <3>3 DEF InsertNewDefault
    <2> QED BY <2>2, <2>3, <2>4 DEF Has
  <1> QED BY <1>1, <1>2, <1>3, <1>4 DEF InsertRule

LEMMA DeleteShapes ==
  ASSUME Inv, NEW r \in Rules, DeleteRule(r)
  PROVE  ShapesKept /\ Len(tuple') = Len(tuple)
PROOF
  <1> DEFINE t == id2tuple[r]
             T == TupleDelete(tuple[t], r)
             U == IF T.rules_num = 0 THEN [T EXCEPT !.max_priority = 0] ELSE T
  <1>1. tuple \in Seq(Tuple) /\ t \in DOMAIN tuple /\ tuple' = [tuple EXCEPT ![t] = U]
    BY TypeLists DEF DeleteRule, Inv, TypeOK
  <1>2. U.shape = tuple[t].shape
    <2>1. tuple[t] \in Tuple
      BY <1>1
    <2> QED BY <2>1 DEF TupleDelete, Tuple
  <1> HIDE DEF t, U
  <1>3. Len(tuple') = Len(tuple) /\ DOMAIN tuple' = DOMAIN tuple /\ Len(tuple) \in Nat
    BY <1>1
  <1>4. \A u \in DOMAIN tuple : tuple'[u].shape = tuple[u].shape
    BY <1>1, <1>2
  <1> QED BY <1>3, <1>4 DEF ShapesKept

LEMMA AddShapes ==
  ASSUME Inv, NEW s \in Shapes, addTuple(s)
  PROVE  ShapesKept /\ Len(tuple') = Len(tuple) + 1 /\ Has(s)'
PROOF
  <1>1. tuple \in Seq(Tuple) /\ tuple' = Append(tuple, NewTuple(s))
    BY TypeLists DEF addTuple
  <1>2. /\ Len(tuple') = Len(tuple) + 1 /\ Len(tuple) \in Nat
        /\ \A t \in DOMAIN tuple : t \in DOMAIN tuple' /\ tuple'[t] = tuple[t]
        /\ Len(tuple) + 1 \in DOMAIN tuple' /\ tuple'[Len(tuple) + 1] = NewTuple(s)
    BY <1>1
  <1> QED BY <1>2 DEF ShapesKept, Has, NewTuple

----------------------------------------------------------------------------
(***************************************************************************)
(* What the client gets to see, and the commands it then may send.         *)
(***************************************************************************)

SlotType == [f1 : Nat, l1 : Nat, f2 : Nat, l2 : Nat]

LEMMA SlotTypes ==
  ASSUME NEW s \in TupleShapes
  PROVE  Slot(s) \in SlotType
PROOF
  <1>1. /\ DOMAIN s.used_field = DOMAIN s.prefix_len /\ s \in Shape
        /\ \A j \in DOMAIN s.used_field : s.used_field[j] \in Nat /\ s.prefix_len[j] \in Nat
    BY ShapeType, PrefixAssumption
  <1>2. Len(s.used_field) \in Nat /\ DOMAIN s.used_field = 1 .. Len(s.used_field)
    BY <1>1 DEF Shape
  <1>3. /\ Len(s.used_field) >= 1 => s.used_field[1] \in Nat /\ s.prefix_len[1] \in Nat
        /\ Len(s.used_field) >= 2 => s.used_field[2] \in Nat /\ s.prefix_len[2] \in Nat
    BY <1>1, <1>2
  <1> QED BY <1>2, <1>3 DEF Slot, SlotType

\* getObs shows the tuple of the current shape first.
LEMMA ObsShows ==
  ASSUME Inv, Has(current)
  PROVE  getObs \in [1 .. ObsTuples -> SlotType] /\ getObs[1] = Slot(current)
PROOF
  <1> DEFINE n == Len(tuples_arr)
             same == {i \in DOMAIN tuples_arr : tuple[tuples_arr[i]].shape = current}
             first == CHOOSE i \in same : \A j \in same : i <= j
             At(i) == IF i = 1 THEN first ELSE IF i <= first THEN i - 1 ELSE i
             shown == [i \in DOMAIN tuples_arr |-> At(i)]
             Of(i) == IF i > n THEN NoSlot ELSE Slot(tuple[tuples_arr[shown[i]]].shape)
  <1>1. /\ n \in Nat /\ DOMAIN tuples_arr = 1 .. n
        /\ \A i \in 1 .. n : tuple[tuples_arr[i]] \in Tuple
        /\ \A t \in DOMAIN tuple : \E i \in 1 .. n : tuples_arr[i] = t
    BY ArrayOnce
  <1>2. same # {} /\ same \in SUBSET (1 .. n)
    <2>1. PICK t \in DOMAIN tuple : tuple[t].shape = current
      BY DEF Has
    <2> QED BY <1>1, <2>1
  <1>3. first \in same /\ first \in 1 .. n
    <2> HIDE DEF same
    <2>1. \E i \in same : \A j \in same : i <= j
      BY <1>1, <1>2, LeastIndex
    <2> QED BY <1>2, <2>1
  <1>4. \A i \in 1 .. n : At(i) \in 1 .. n
    <2> HIDE DEF first
    <2> QED BY <1>1, <1>3
  <1>5. \A i \in 1 .. n : tuple[tuples_arr[i]].shape \in TupleShapes
    BY <1>1 DEF Tuple, TupleShapes
  <1>6. ASSUME NEW i \in 1 .. ObsTuples PROVE Of(i) \in SlotType
    <2>1. CASE i > n
      BY <2>1 DEF NoSlot, SlotType
    <2>2. CASE ~(i > n)
      <3>1. i \in 1 .. n
        BY <1>1, <2>2, SessionAssumption
      <3>2. shown[i] \in 1 .. n
        BY <1>1, <1>4, <3>1
      <3> HIDE DEF shown
      <3>3. Slot(tuple[tuples_arr[shown[i]]].shape) \in SlotType
        BY <1>5, <3>2, SlotTypes
      <3> QED BY <2>2, <3>3
    <2> HIDE DEF Of, n
    <2> QED BY <2>1, <2>2
  <1>7. getObs = [i \in 1 .. ObsTuples |-> Of(i)]
    BY DEF getObs
  <1>8. Of(1) = Slot(current)
    <2>1. 1 \in DOMAIN tuples_arr /\ ~(1 > n)
      <3> HIDE DEF first
      <3> QED BY <1>1, <1>3
    <2>2. tuple[tuples_arr[first]].shape = current
      BY <1>3
    <2> HIDE DEF first, n
    <2>3. shown[1] = first
      BY <2>1
    <2> HIDE DEF shown
    <2> QED BY <2>1, <2>2, <2>3
  <1> HIDE DEF Of
  <1>9. 1 \in 1 .. ObsTuples
    BY SessionAssumption
  <1> QED BY <1>6, <1>7, <1>8, <1>9

\* A command the client may send composes a shape of one field, or makes one of
\* two fields out of a shape of one.
LEMMA CommandLegal ==
  ASSUME ObsTuples > 0, state[1] = Slot(current), importantField \subseteq Options,
         current = NoShape \/ current \in Composed, NEW c \in getMask, FitsKey(ShapeAfter(c))
  PROVE  /\ c.flag \in {0, 1} /\ c.choice \in Options
         /\ current = NoShape => c.flag = 1
         /\ ShapeAfter(c) \in Composed
PROOF
  <1>0. SUFFICES /\ c.flag \in {0, 1} /\ c.choice \in Options
                 /\ current = NoShape => c.flag = 1
                 /\ ShapeAfter(c) \in OneField \cup TwoFields
    BY DEF Composed
  <1>1. CASE current = NoShape
    <2>1. state[1].l1 = 0
      BY <1>1 DEF Slot, NoShape
    <2>2. c \in Commands(1, importantField)
      BY <2>1 DEF getMask
    <2>3. c.flag = 1 /\ c.choice \in Options
      BY <2>2 DEF Commands
    <2> QED BY <1>1, <2>3 DEF ShapeAfter, OneField
  <1>2. CASE current \in Composed
    <2>1. /\ Len(current.used_field) \in 1 .. 2 /\ current.prefix_len[1] # 0
          /\ Len(current.used_field) = 2 => current.prefix_len[2] # 0
      BY <1>2, ComposedLegal DEF Legal
    <2>2. current # NoShape
      BY <2>1 DEF NoShape
    <2>3. state[1].l1 # 0 /\ state[1].f1 = current.used_field[1]
      <3>1. Len(current.used_field) >= 1
        BY <2>1
      <3>2. Slot(current).l1 = current.prefix_len[1] /\ Slot(current).f1 = current.used_field[1]
        BY <3>1, Zenon DEF Slot
      <3> QED BY <2>1, <3>2
    <2>4. /\ c.flag = 1 \/ c.flag = 0
          /\ c.choice \in Options
          /\ c.flag = 1 => state[1].l2 = 0 /\ c.choice.field # state[1].f1
      BY <2>3 DEF getMask, Commands
    <2>5. CASE c.flag = 0
      <3>1. ShapeAfter(c) = Extend(NoShape, c.choice)
        BY <2>5 DEF ShapeAfter
      <3> QED BY <2>2, <2>4, <2>5, <3>1 DEF OneField
    <2>6. CASE c.flag = 1
      <3>1. ASSUME Len(current.used_field) = 2 PROVE FALSE
        <4>1. state[1].l2 = current.prefix_len[2]
          BY <3>1 DEF Slot
        <4> QED BY <2>1, <2>4, <2>6, <3>1, <4>1
      <3>2. current \in OneField
        <4>1. ASSUME current \in TwoFields PROVE Len(current.used_field) = 2
          <5>1. PICK a \in Options, b \in Options :
                  current = [used_field |-> <<a.field, b.field>>, prefix_len |-> <<a.len, b.len>>]
            BY <4>1, TwoFieldsIs DEF TwoFields, OneField
          <5> QED BY <5>1
        <4> QED BY <1>2, <3>1, <4>1 DEF Composed
      <3>3. PICK a \in Options : current = Extend(NoShape, a)
        BY <3>2 DEF OneField
      <3>4. current = [used_field |-> <<a.field>>, prefix_len |-> <<a.len>>]
        BY <3>3, OneFieldIs
      <3>5. Extend(current, c.choice) = [used_field |-> <<a.field, c.choice.field>>,
                                         prefix_len |-> <<a.len, c.choice.len>>]
        BY <3>3, TwoFieldsIs
      <3>6. c.choice.field # a.field
        BY <2>3, <2>4, <2>6, <3>4
      <3>7. Extend(current, c.choice) \in TwoFields
        BY <2>4, <3>2, <3>5, <3>6 DEF TwoFields
      <3> QED BY <2>2, <2>4, <2>6, <3>7 DEF ShapeAfter
    <2> QED BY <2>4, <2>5, <2>6
  <1> QED BY <1>1, <1>2

\* There is always one, and one whose shape fits the key.
LEMMA CommandExists ==
  ASSUME importantField # {}, importantField \subseteq Options, state[1] = Slot(current),
         current = NoShape \/ current \in Composed
  PROVE  \E c \in getMask : FitsKey(ShapeAfter(c))
PROOF
  <1>1. \A c \in Options :
          /\ FitsKey(Extend(NoShape, c))
          /\ \E d \in Options : c.field # d.field /\ FitsKey(Extend(Extend(NoShape, c), d))
    BY SessionAssumption
  <1>2. CASE state[1].l1 = 0
    <2>1. PICK c \in importantField : c \in Options
      OBVIOUS
    <2>2. current = NoShape
      <3>1. ASSUME current \in Composed PROVE state[1].l1 # 0
        BY <3>1, ComposedLegal DEF Slot, Legal
      <3> QED BY <1>2, <3>1
    <2> DEFINE k == [flag |-> 1, choice |-> c]
    <2>3. k \in getMask
      BY <1>2 DEF getMask, Commands
    <2>4. ShapeAfter(k) = Extend(NoShape, c)
      BY <2>2 DEF ShapeAfter
    <2> QED BY <1>1, <2>1, <2>3, <2>4
  <1>3. CASE state[1].l1 # 0 /\ state[1].l2 # 0
    <2>1. PICK c \in Options : TRUE
      BY DEF Options
    <2> DEFINE k == [flag |-> 0, choice |-> c]
    <2>2. k \in getMask
      BY <1>3 DEF getMask, Commands
    <2>3. ShapeAfter(k) = Extend(NoShape, c)
      BY DEF ShapeAfter
    <2> QED BY <1>1, <2>1, <2>2, <2>3
  <1>4. CASE state[1].l1 # 0 /\ state[1].l2 = 0
    <2>1. current \in Composed
      BY <1>4 DEF Slot, NoShape
    <2>2. current \in OneField
      <3>1. ASSUME current \in TwoFields PROVE state[1].l2 # 0
        <4>1. PICK a \in Options, b \in Options :
                current = [used_field |-> <<a.field, b.field>>, prefix_len |-> <<a.len, b.len>>]
          BY <3>1, TwoFieldsIs DEF TwoFields, OneField
        <4>2. Len(current.used_field) = 2
          BY <4>1
        <4> QED BY <2>1, <4>2, ComposedLegal DEF Slot
      <3> QED BY <1>4, <2>1, <3>1 DEF Composed
    <2>3. PICK a \in Options : current = Extend(NoShape, a)
      BY <2>2 DEF OneField
    <2>4. state[1].f1 = a.field
      <3>1. current = [used_field |-> <<a.field>>, prefix_len |-> <<a.len>>]
        BY <2>3, OneFieldIs, Zenon
      <3>2. Slot(current).f1 = a.field
        BY <3>1 DEF Slot
      <3> QED BY <3>2
    <2>5. PICK d \in Options : a.field # d.field /\ FitsKey(Extend(Extend(NoShape, a), d))
      BY <1>1
    <2> DEFINE k == [flag |-> 1, choice |-> d]
    <2>6. k \in getMask
      BY <1>4, <2>4, <2>5 DEF getMask, Commands
    <2>7. ShapeAfter(k) = Extend(Extend(NoShape, a), d)
      <3>1. ShapeAfter(k) = Extend(current, k.choice)
        BY DEF ShapeAfter
      <3> QED BY <2>3, <3>1
    <2> QED BY <2>5, <2>6, <2>7
  <1> QED BY <1>2, <1>3, <1>4

----------------------------------------------------------------------------
(***************************************************************************)
(* The invariant of a session.                                             *)
(***************************************************************************)

ShapesComposed ==
  /\ IsFiniteSet(tuples) /\ tuples \subseteq Composed
  /\ ep_step = 0 => pc = "listen" /\ tuples = {} /\ current = NoShape /\ tuple = <<>>
  /\ ep_step > 0 => current \in Composed /\ Cardinality(tuples) < MaxEpTuples
  /\ importantField # {}

LimitsKept ==
  /\ ep_step <= MaxSteps /\ performance_drop_cnt <= MaxDrops
  /\ pc # "listen" => performance_drop_cnt < MaxDrops
  /\ pc = "listen" /\ ~done =>
       /\ state[1] = Slot(current)
       /\ ep_step < MaxSteps /\ performance_drop_cnt < MaxDrops /\ Len(tuple) < MaxEpTuples

\* the tuples of the classifier to be built, a default tuple not counted
Planned == tuples \cup {current}

Adding == /\ toadd # <<>> /\ Elements(toadd) \subseteq Composed
          /\ Len(tuple) + Len(toadd) = Cardinality(tuples) + 1
          /\ \A s \in Planned : Has(s) \/ s \in Elements(toadd)
Added == /\ \A s \in Planned : Has(s)
         /\ \/ Len(tuple) = Cardinality(tuples) + 1
            \/ Len(tuple) = Cardinality(tuples) + 2 /\ Has(Default)

Known(r) == r \in DOMAIN id2tuple /\ ~(id2tuple[r] = NULL)

OnTrack ==
  /\ pc = "add" => Adding
  /\ pc # "add" /\ ep_step > 0 => Added
  /\ pc \in {"add", "insert"} => toinsert # <<>> /\ Rules \subseteq Stored \cup Elements(toinsert)
  /\ pc = "built" => Stored = Rules \ absent /\ \A r \in Rules : Known(r)
  /\ absent # {} => pc = "built" /\ pairs < MaxPairs /\ \E r \in Rules : absent = {r}

SessionInv == /\ Inv /\ NumbersExact /\ scan = NoScan
              /\ SessionTypeOK /\ ShapesComposed /\ LimitsKept /\ OnTrack

LEMMA FreshInv == Init => Inv /\ NumbersExact
PROOF
  <1> SUFFICES ASSUME Init PROVE Inv /\ NumbersExact
    OBVIOUS
  <1>1. Inv /\ Stored = {}
    BY InitInv
  <1>2. tuple = <<>> /\ rules_num = 0 /\ Cardinality({}) = 0
    BY FS_EmptySet DEF Init
  <1> QED BY <1>1, <1>2 DEF NumbersExact

\* A new classifier is as the first one was.
LEMMA NewClassifierInv ==
  ASSUME scan = NoScan, NewClassifier
  PROVE  Inv' /\ NumbersExact' /\ scan' = NoScan /\ Stored' = {} /\ tuple' = <<>>
PROOF
  <1>1. Init'
    BY DEF Init, NewClassifier
  <1>2. Init' => Inv' /\ NumbersExact'
    BY FreshInv, PTL
  <1>3. tuple' = <<>> /\ scan' = NoScan
    BY DEF NewClassifier
  <1> QED BY <1>1, <1>2, <1>3 DEF Stored

LEMMA SessionStarts == SessionInit => SessionInv
PROOF
  <1> SUFFICES ASSUME SessionInit PROVE SessionInv
    OBVIOUS
  <1>1. Inv /\ NumbersExact /\ scan = NoScan /\ tuple = <<>>
    BY FreshInv DEF SessionInit, Init
  <1>2. importantField \subseteq Options /\ importantField # {}
    <2>1. importantField \subseteq Options /\ Cardinality(importantField) = ImportantNum
      BY DEF SessionInit, Important
    <2> QED BY <2>1, SessionAssumption, FS_EmptySet
  <1>3. NoShape \in Shape /\ Blank \in [1 .. ObsTuples -> [f1 : Nat, l1 : Nat, f2 : Nat, l2 : Nat]]
    BY DEF NoShape, Shape, Blank, NoSlot
  <1>4. SessionTypeOK
    BY <1>2, <1>3, SessionAssumption DEF SessionInit, SessionTypeOK
  <1>5. ShapesComposed
    BY <1>1, <1>2, FS_EmptySet DEF SessionInit, ShapesComposed
  <1>6. LimitsKept
    BY SessionAssumption DEF SessionInit, LimitsKept
  <1>7. OnTrack
    BY DEF SessionInit, OnTrack
  <1> QED BY <1>1, <1>4, <1>5, <1>6, <1>7 DEF SessionInv

LEMMA ResetKeeps ==
  ASSUME SessionInv, Reset
  PROVE  SessionInv'
PROOF
  <1>0. /\ scan = NoScan /\ NewClassifier /\ pc = "listen"
        /\ tuples' = {} /\ current' = NoShape /\ ep_step' = 0 /\ performance_drop_cnt' = 0
        /\ state' = Blank /\ done' = FALSE
        /\ UNCHANGED <<importantField, toadd, toinsert, absent, pairs, pc>>
    BY DEF Reset, SessionInv
  <1>1. Inv' /\ NumbersExact' /\ scan' = NoScan /\ tuple' = <<>>
    BY <1>0, NewClassifierInv
  <1>2. NoShape \in Shape /\ Blank \in [1 .. ObsTuples -> [f1 : Nat, l1 : Nat, f2 : Nat, l2 : Nat]]
    BY DEF NoShape, Shape, Blank, NoSlot
  <1>3. Blank[1] = Slot(NoShape)
    BY SessionAssumption DEF Blank, NoSlot, Slot, NoShape
  <1>4. SessionTypeOK'
    BY <1>0, <1>2 DEF SessionInv, SessionTypeOK
  <1>5. ShapesComposed'
    BY <1>0, <1>1, FS_EmptySet DEF ShapesComposed, SessionInv
  <1>6. LimitsKept'
    <2>1. state'[1] = Slot(current')
      BY <1>0, <1>3
    <2>2. Len(tuple') = 0
      BY <1>1
    <2> QED BY <1>0, <2>1, <2>2, SessionAssumption DEF LimitsKept
  <1>7. OnTrack'
    BY <1>0 DEF OnTrack, SessionInv
  <1> QED BY <1>1, <1>4, <1>5, <1>6, <1>7 DEF SessionInv

LEMMA CommandKeeps ==
  ASSUME SessionInv, NEW flag \in {0, 1}, NEW choice \in Options,
         Command([flag |-> flag, choice |-> choice])
  PROVE  SessionInv'
PROOF
  <1> DEFINE c == [flag |-> flag, choice |-> choice]
  <1>0. /\ scan = NoScan /\ NewClassifier /\ pc = "listen" /\ ~done
        /\ c \in getMask /\ FitsKey(ShapeAfter(c))
        /\ tuples' = IF flag = 0 THEN tuples \cup {current} ELSE tuples
        /\ current' = ShapeAfter(c)
        /\ \E shapes \in Ordered(tuples') : toadd' = Append(shapes, current')
        /\ toinsert' \in RuleLists
        /\ ep_step' = ep_step + 1 /\ pairs' = 0 /\ pc' = "add"
        /\ UNCHANGED <<importantField, absent, performance_drop_cnt, state, done>>
    BY DEF Command, SessionInv, client
  <1>1. Inv' /\ NumbersExact' /\ scan' = NoScan /\ Stored' = {} /\ tuple' = <<>>
    BY <1>0, NewClassifierInv
  <1>2. /\ SessionTypeOK /\ ShapesComposed /\ LimitsKept /\ OnTrack /\ ep_step \in Nat
        /\ Len(tuple) \in Nat
    BY TypeLists DEF SessionInv, SessionTypeOK
  <1>3. (ep_step = 0 /\ current = NoShape) \/ (ep_step > 0 /\ current \in Composed)
    BY <1>2 DEF ShapesComposed
  <1>4. /\ current' \in Composed
        /\ flag = 0 => current \in Composed /\ ep_step > 0
    <2>1. state[1] = Slot(current) /\ importantField \subseteq Options
      BY <1>0, <1>2 DEF LimitsKept, SessionTypeOK
    <2>2. (current = NoShape => c.flag = 1) /\ ShapeAfter(c) \in Composed
      BY <1>0, <1>3, <2>1, SessionAssumption, CommandLegal
    <2>3. current = NoShape => flag = 1
      BY <2>2
    <2> QED BY <1>0, <1>3, <2>2, <2>3
  <1>5. /\ IsFiniteSet(tuples') /\ tuples' \subseteq Composed
        /\ Cardinality(tuples') < MaxEpTuples /\ Cardinality(tuples') \in Nat
    <2>1. /\ IsFiniteSet(tuples) /\ tuples \subseteq Composed /\ Cardinality(tuples) \in Nat
          /\ Len(tuple) < MaxEpTuples
      BY <1>0, <1>2, FS_CardinalityType DEF ShapesComposed, LimitsKept
    <2>2. CASE flag = 0
      <3>1. tuples' = tuples \cup {current} /\ current \in Composed
        BY <1>0, <1>4, <2>2
      <3>2. Cardinality(tuples) + 1 <= Len(tuple)
        <4>1. Added
          BY <1>0, <1>2, <1>4, <2>2 DEF OnTrack
        <4>2. \/ Len(tuple) = Cardinality(tuples) + 1
              \/ Len(tuple) = Cardinality(tuples) + 2
          BY <4>1 DEF Added
        <4> QED BY <1>2, <2>1, <4>2
      <3>3. IsFiniteSet(tuples') /\ Cardinality(tuples') <= Cardinality(tuples) + 1
        <4>1. /\ IsFiniteSet(tuples \cup {current})
              /\ Cardinality(tuples \cup {current})
                   = IF current \in tuples THEN Cardinality(tuples) ELSE Cardinality(tuples) + 1
          BY <2>1, FS_AddElement
        <4>2. Cardinality(tuples \cup {current}) <= Cardinality(tuples) + 1
          BY <2>1, <4>1
        <4> QED BY <3>1, <4>1, <4>2
      <3>4. Cardinality(tuples') \in Nat
        BY <3>3, FS_CardinalityType
      <3>5. tuples' \subseteq Composed
        BY <2>1, <3>1
      <3>6. Cardinality(tuples') < MaxEpTuples
        BY <1>2, <2>1, <3>2, <3>3, <3>4, SessionAssumption
      <3> QED BY <3>3, <3>4, <3>5, <3>6
    <2>3. CASE flag = 1
      <3>1. tuples' = tuples
        BY <1>0, <2>3
      <3>2. Cardinality(tuples) < MaxEpTuples
        BY <1>2, <1>3, FS_EmptySet, SessionAssumption DEF ShapesComposed
      <3> QED BY <2>1, <3>1, <3>2
    <2> QED BY <2>2, <2>3
  <1>6. PICK shapes \in Ordered(tuples') : toadd' = Append(shapes, current')
    BY <1>0
  <1>7. shapes \in Seq(tuples') /\ Len(shapes) = Cardinality(tuples') /\ Elements(shapes) = tuples'
    BY <1>5, OrderedAll
  <1>8. /\ toadd' \in Seq(Composed) /\ Len(toadd') = Cardinality(tuples') + 1
        /\ Elements(toadd') = tuples' \cup {current'}
    <2>1. shapes \in Seq(Composed)
      BY <1>5, <1>7
    <2>2. /\ DOMAIN toadd' = 1 .. Len(shapes) + 1
          /\ toadd'[Len(shapes) + 1] = current'
          /\ \A i \in DOMAIN shapes : toadd'[i] = shapes[i]
          /\ DOMAIN shapes = 1 .. Len(shapes) /\ Len(shapes) \in Nat
      BY <1>6, <2>1
    <2>3. Elements(toadd') = Elements(shapes) \cup {current'}
      BY <2>2 DEF Elements
    <2> QED BY <1>4, <1>6, <1>7, <2>1, <2>3
  <1>9. toinsert' \in Seq(Rules) /\ Elements(toinsert') = Rules
    BY <1>0, RuleListAll
  <1>10. SessionTypeOK'
    <2>1. \A s \in Composed : s \in Shape
      BY ComposedLegal
    <2>2. tuples' \subseteq Shape /\ current' \in Shape /\ toadd' \in Seq(Shape)
      BY <1>4, <1>5, <1>8, <2>1
    <2>3. pairs' \in 0 .. MaxPairs
      BY <1>0, SessionAssumption
    <2> QED BY <1>0, <1>2, <1>9, <2>2, <2>3 DEF SessionTypeOK
  <1>11. ShapesComposed'
    BY <1>0, <1>2, <1>4, <1>5 DEF ShapesComposed
  <1>12. LimitsKept'
    BY <1>0, <1>2, SessionAssumption DEF LimitsKept
  <1>13. OnTrack'
    <2>1. Adding'
      <3>1. toadd' # <<>> /\ Elements(toadd') \subseteq Composed
        BY <1>4, <1>5, <1>8
      <3>2. Len(tuple') + Len(toadd') = Cardinality(tuples') + 1
        BY <1>1, <1>5, <1>8
      <3> QED BY <1>8, <3>1, <3>2 DEF Adding, Planned
    <2>2. toinsert' # <<>> /\ Rules \subseteq (Stored \cup Elements(toinsert))'
      BY <1>9, SessionAssumption DEF Elements
    <2>3. absent' = {}
      BY <1>0, <1>2 DEF OnTrack
    <2> QED BY <1>0, <2>1, <2>2, <2>3 DEF OnTrack
  <1> QED BY <1>1, <1>10, <1>11, <1>12, <1>13 DEF SessionInv

LEMMA OneOff ==
  ASSUME NEW D, NEW l \in Seq(D), l # <<>>
  PROVE  /\ Head(l) \in D /\ Tail(l) \in Seq(D) /\ Len(l) \in Nat \ {0}
         /\ Len(Tail(l)) = Len(l) - 1 /\ Elements(l) = {Head(l)} \cup Elements(Tail(l))
         /\ Len(l) = 1 <=> Elements(Tail(l)) = {}
         /\ Len(l) = 1 <=> Tail(l) = <<>>
PROOF
  <1> DEFINE n == Len(l)
  <1>1. /\ n \in Nat \ {0} /\ DOMAIN l = 1 .. n /\ Head(l) = l[1] /\ Head(l) \in D
        /\ Tail(l) \in Seq(D) /\ Len(Tail(l)) = n - 1
    OBVIOUS
  <1>2. DOMAIN Tail(l) = 1 .. n - 1 /\ \A i \in 1 .. n - 1 : Tail(l)[i] = l[i + 1]
    BY <1>1
  <1>3. Elements(l) = {Head(l)} \cup Elements(Tail(l))
    <2>1. ASSUME NEW i \in 1 .. n PROVE l[i] = Head(l) \/ l[i] \in Elements(Tail(l))
      <3>1. CASE i = 1
        BY <1>1, <3>1
      <3>2. CASE i # 1
        <4>1. i - 1 \in 1 .. n - 1 /\ (i - 1) + 1 = i
          BY <1>1, <3>2
        <4> QED BY <1>2, <4>1 DEF Elements
      <3> QED BY <3>1, <3>2
    <2>2. ASSUME NEW i \in 1 .. n - 1 PROVE Tail(l)[i] \in Elements(l)
      <3>1. i + 1 \in 1 .. n
        BY <1>1
      <3> QED BY <1>1, <1>2, <3>1 DEF Elements
    <2>3. Head(l) \in Elements(l)
      BY <1>1 DEF Elements
    <2> QED BY <1>1, <1>2, <2>1, <2>2, <2>3 DEF Elements
  <1>4. ASSUME n = 1 PROVE Elements(Tail(l)) = {} /\ Tail(l) = <<>>
    <2>1. DOMAIN Tail(l) = {} /\ Len(Tail(l)) = 0
      BY <1>1, <1>2, <1>4
    <2> QED BY <1>1, <2>1 DEF Elements
  <1>5. ASSUME n # 1 PROVE Elements(Tail(l)) # {} /\ Tail(l) # <<>>
    <2>1. 1 \in DOMAIN Tail(l) /\ Len(Tail(l)) # 0
      BY <1>1, <1>2, <1>5
    <2>2. Elements(Tail(l)) # {}
      BY <2>1 DEF Elements
    <2>3. Tail(l) # <<>>
      <3>1. Len(<<>>) = 0
        OBVIOUS
      <3> QED BY <2>1, <3>1
    <2> QED BY <2>2, <2>3
  <1> QED BY <1>1, <1>3, <1>4, <1>5

\* Every operation of the classifier in a session is one of a careful caller.
LEMMA SessionUpdate ==
  ASSUME SessionInv, Update
  PROVE  Inv' /\ NumbersExact' /\ scan' = NoScan
PROOF
  <1>1. Inv /\ NumbersExact /\ scan = NoScan /\ [Next]_vars
    BY DEF SessionInv, Next
  <1>2. \A r \in Rules : ~DeleteAgain(r)
    BY SessionAssumption DEF DeleteAgain
  <1>3. \A r \in Rules : ~DeleteUnknown(r)
    BY SessionAssumption DEF DeleteUnknown
  <1>4. scan' = scan
    <2>1. ASSUME NEW r \in Rules, InsertRule(r) PROVE scan' = scan
      BY <2>1 DEF InsertRule, InsertKnown, InsertChosen, InsertDefault, InsertNewDefault,
                  PutInto, Settle
    <2>2. ASSUME NEW r \in Rules, DeleteRule(r) PROVE scan' = scan
      BY <2>2 DEF DeleteRule
    <2>3. ASSUME NEW s \in Shapes, addTuple(s) PROVE scan' = scan
      BY <2>3 DEF addTuple
    <2> QED BY <1>2, <1>3, <2>1, <2>2, <2>3 DEF Update
  <1> HIDE DEF Inv
  <1> QED BY <1>1, <1>2, <1>3, <1>4, StepInv, StepNumbers

LEMMA AddTupleKeeps ==
  ASSUME SessionInv, AddTuple
  PROVE  SessionInv'
PROOF
  <1> DEFINE h == Head(toadd)
  <1>0. /\ pc = "add" /\ toadd # <<>> /\ addTuple(h) /\ toadd' = Tail(toadd)
        /\ pc' = IF Len(toadd) = 1 THEN "insert" ELSE pc
        /\ UNCHANGED <<importantField, tuples, current, toinsert, absent, pairs, ep_step,
                       performance_drop_cnt, state, done>>
    BY DEF AddTuple, client
  <1>1. /\ Inv /\ SessionTypeOK /\ ShapesComposed /\ LimitsKept /\ OnTrack /\ ep_step \in Nat
        /\ Len(tuple) \in Nat /\ Cardinality(tuples) \in Nat
    BY TypeLists, FS_CardinalityType DEF SessionInv, SessionTypeOK, ShapesComposed
  <1>2. ep_step > 0 /\ Adding /\ toinsert # <<>> /\ Rules \subseteq Stored \cup Elements(toinsert)
        /\ absent = {}
    BY <1>0, <1>1 DEF ShapesComposed, OnTrack
  <1>3. /\ h \in Elements(toadd) /\ Elements(toadd) = {h} \cup Elements(Tail(toadd))
        /\ Tail(toadd) \in Seq(Shape) /\ Len(toadd) \in Nat \ {0} /\ Len(Tail(toadd)) = Len(toadd) - 1
        /\ Len(toadd) = 1 <=> Elements(Tail(toadd)) = {}
        /\ Len(toadd) = 1 <=> Tail(toadd) = <<>>
    <2>1. toadd \in Seq(Shape)
      BY <1>1 DEF SessionTypeOK
    <2> QED BY <1>0, <2>1, OneOff
  <1> HIDE DEF h
  <1>4. PICK s \in Shapes : s = h
    BY <1>2, <1>3, SessionAssumption DEF Adding, Composed
  <1>5. Inv' /\ NumbersExact' /\ scan' = NoScan
    BY <1>0, <1>4, SessionUpdate DEF Update
  <1>6. Stored' = Stored
    <2> HIDE DEF Inv
    <2> QED BY <1>0, <1>1, <1>4, AddTupleInv
  <1>7. ShapesKept /\ Len(tuple') = Len(tuple) + 1 /\ Has(s)'
    <2> HIDE DEF Inv
    <2> QED BY <1>0, <1>1, <1>4, AddShapes
  <1>8. SessionTypeOK'
    BY <1>0, <1>1, <1>3 DEF SessionTypeOK
  <1>9. ShapesComposed'
    BY <1>0, <1>1, <1>2 DEF ShapesComposed
  <1>10. LimitsKept'
    BY <1>0, <1>1 DEF LimitsKept
  <1>11. ASSUME NEW z \in Planned PROVE Has(z)' \/ z \in Elements(Tail(toadd))
    <2>1. Has(z) => Has(z)'
      BY <1>7, KeptHas
    <2>2. Has(z) \/ z = s \/ z \in Elements(Tail(toadd))
      BY <1>2, <1>3, <1>4 DEF Adding
    <2> QED BY <1>7, <2>1, <2>2
  <1>12. Len(tuple') + Len(Tail(toadd)) = Cardinality(tuples) + 1
    BY <1>1, <1>2, <1>3, <1>7 DEF Adding
  <1>13. Planned' = Planned
    BY <1>0 DEF Planned
  <1>14. CASE Len(toadd) = 1
    <2>1. Added'
      <3>1. Len(tuple') = Cardinality(tuples') + 1
        BY <1>0, <1>1, <1>3, <1>7, <1>12, <1>14
      <3> QED BY <1>3, <1>11, <1>13, <1>14, <3>1 DEF Added
    <2>2. OnTrack'
      BY <1>0, <1>2, <1>6, <1>14, <2>1 DEF OnTrack
    <2> QED BY <1>5, <1>8, <1>9, <1>10, <2>2 DEF SessionInv
  <1>15. CASE Len(toadd) # 1
    <2>1. Adding'
      <3>1. Elements(Tail(toadd)) \subseteq Composed
        BY <1>2, <1>3 DEF Adding
      <3> QED BY <1>0, <1>3, <1>11, <1>12, <1>13, <1>15, <3>1 DEF Adding
    <2>2. OnTrack'
      BY <1>0, <1>2, <1>6, <1>15, <2>1 DEF OnTrack
    <2> QED BY <1>5, <1>8, <1>9, <1>10, <2>2 DEF SessionInv
  <1> QED BY <1>14, <1>15

LEMMA AddedStill ==
  ASSUME Added, ShapesKept, Planned' = Planned, tuples' = tuples, Len(tuple) \in Nat,
         Cardinality(tuples) \in Nat,
         \/ Len(tuple') = Len(tuple)
         \/ Len(tuple') = Len(tuple) + 1 /\ ~Has(Default) /\ Has(Default)'
  PROVE  Added'
PROOF
  <1>1. \A z \in Planned' : Has(z)'
    BY KeptHas DEF Added
  <1>2. Has(Default) => Has(Default)'
    BY KeptHas
  <1>3. \/ Len(tuple') = Cardinality(tuples') + 1
        \/ Len(tuple') = Cardinality(tuples') + 2 /\ Has(Default)'
    BY <1>2 DEF Added
  <1> QED BY <1>1, <1>3 DEF Added

LEMMA StepKeeps ==
  ASSUME SessionInv, Step
  PROVE  SessionInv'
PROOF
  <1> DEFINE r == Head(toinsert)
  <1>0. /\ pc = "insert" /\ InsertRule(r) /\ toinsert' = Tail(toinsert)
        /\ pc' = IF Len(toinsert) = 1 THEN "built" ELSE pc
        /\ UNCHANGED <<importantField, tuples, current, toadd, absent, pairs, ep_step,
                       performance_drop_cnt, state, done>>
    BY DEF Step, client
  <1>1. /\ Inv /\ SessionTypeOK /\ ShapesComposed /\ LimitsKept /\ OnTrack /\ ep_step \in Nat
        /\ Len(tuple) \in Nat /\ Cardinality(tuples) \in Nat
    BY TypeLists, FS_CardinalityType DEF SessionInv, SessionTypeOK, ShapesComposed
  <1>2. ep_step > 0 /\ Added /\ toinsert # <<>> /\ Rules \subseteq Stored \cup Elements(toinsert)
        /\ absent = {}
    BY <1>0, <1>1 DEF ShapesComposed, OnTrack
  <1>3. /\ r \in Rules /\ Elements(toinsert) = {r} \cup Elements(Tail(toinsert))
        /\ Tail(toinsert) \in Seq(Rules) /\ Len(toinsert) \in Nat \ {0}
        /\ Len(toinsert) = 1 <=> Elements(Tail(toinsert)) = {}
        /\ Len(toinsert) = 1 <=> Tail(toinsert) = <<>>
    <2>1. toinsert \in Seq(Rules)
      BY <1>1 DEF SessionTypeOK
    <2> QED BY <1>2, <2>1, OneOff
  <1> HIDE DEF r
  <1>5. Inv' /\ NumbersExact' /\ scan' = NoScan
    BY <1>0, <1>3, SessionUpdate DEF Update
  <1>6. Stored' = Stored \cup {r}
    <2> HIDE DEF Inv
    <2> QED BY <1>0, <1>1, <1>3, InsertRuleInv
  <1>7. /\ ShapesKept
        /\ \/ Len(tuple') = Len(tuple)
           \/ Len(tuple') = Len(tuple) + 1 /\ ~Has(Default) /\ Has(Default)'
    <2> HIDE DEF Inv
    <2> QED BY <1>0, <1>1, <1>3, InsertShapes
  <1>8. SessionTypeOK'
    BY <1>0, <1>1, <1>3 DEF SessionTypeOK
  <1>9. ShapesComposed'
    BY <1>0, <1>1, <1>2 DEF ShapesComposed
  <1>10. LimitsKept'
    BY <1>0, <1>1 DEF LimitsKept
  <1>11. Added'
    <2>1. Planned' = Planned /\ tuples' = tuples
      BY <1>0 DEF Planned
    <2> QED BY <1>1, <1>2, <1>7, <2>1, AddedStill
  <1>12. Rules \subseteq Stored' \cup Elements(Tail(toinsert))
    BY <1>2, <1>3, <1>6
  <1>13. CASE Len(toinsert) = 1
    <2>1. Stored' = Rules
      <3>1. Stored' \subseteq Rules
        <4>1. tuple' \in Seq(Tuple)
          BY <1>5 DEF Inv, TypeOK
        <4>2. \A t \in DOMAIN tuple' : tuple'[t] \in Tuple
          BY <4>1
        <4>3. \A t \in DOMAIN tuple' : tuple'[t].rules \subseteq Rules
          BY <4>2 DEF Tuple
        <4> QED BY <4>3 DEF Stored
      <3> QED BY <1>3, <1>12, <1>13, <3>1
    <2>2. ASSUME NEW q \in Rules PROVE Known(q)'
      <3>1. PICK t \in DOMAIN tuple' : q \in tuple'[t].rules
        BY <2>1 DEF Stored
      <3>2. q \in DOMAIN id2tuple' /\ id2tuple'[q] = t
        BY <1>5, <3>1 DEF Inv, EntryExact
      <3>3. t # 0
        BY <1>5 DEF Inv, TypeOK
      <3> QED BY <3>2, <3>3 DEF Known, NULL
    <2>3. OnTrack'
      BY <1>0, <1>2, <1>11, <1>13, <2>1, <2>2 DEF OnTrack
    <2> QED BY <1>5, <1>8, <1>9, <1>10, <2>3 DEF SessionInv
  <1>14. CASE Len(toinsert) # 1
    <2>1. OnTrack'
      BY <1>0, <1>2, <1>3, <1>11, <1>12, <1>14 DEF OnTrack
    <2> QED BY <1>5, <1>8, <1>9, <1>10, <2>1 DEF SessionInv
  <1> QED BY <1>13, <1>14

LEMMA MeasureDeleteKeeps ==
  ASSUME SessionInv, NEW r \in Rules, MeasureDelete(r)
  PROVE  SessionInv'
PROOF
  <1>0. /\ pc = "built" /\ absent = {} /\ pairs < MaxPairs /\ DeleteRule(r) /\ absent' = {r}
        /\ UNCHANGED <<importantField, tuples, current, toadd, toinsert, pairs, ep_step,
                       performance_drop_cnt, pc, state, done>>
    BY DEF MeasureDelete, client
  <1>1. /\ Inv /\ SessionTypeOK /\ ShapesComposed /\ LimitsKept /\ OnTrack /\ ep_step \in Nat
        /\ Len(tuple) \in Nat /\ Cardinality(tuples) \in Nat
    BY TypeLists, FS_CardinalityType DEF SessionInv, SessionTypeOK, ShapesComposed
  <1>2. ep_step > 0 /\ Added /\ Stored = Rules /\ \A q \in Rules : Known(q)
    BY <1>0, <1>1 DEF ShapesComposed, OnTrack
  <1>3. Inv' /\ NumbersExact' /\ scan' = NoScan
    BY <1>0, SessionUpdate DEF Update
  <1>4. Stored' = Stored \ {r}
    <2> HIDE DEF Inv
    <2> QED BY <1>0, <1>1, DeleteRuleInv
  <1>5. ShapesKept /\ Len(tuple') = Len(tuple)
    <2> HIDE DEF Inv
    <2> QED BY <1>0, <1>1, DeleteShapes
  <1>6. SessionTypeOK'
    BY <1>0, <1>1 DEF SessionTypeOK
  <1>7. ShapesComposed'
    BY <1>0, <1>1, <1>2 DEF ShapesComposed
  <1>8. LimitsKept'
    BY <1>0, <1>1 DEF LimitsKept
  <1>9. Added'
    <2>1. Planned' = Planned /\ tuples' = tuples
      BY <1>0 DEF Planned
    <2> QED BY <1>1, <1>2, <1>5, <2>1, AddedStill
  <1>10. \A q \in Rules : Known(q)'
    <2>1. id2tuple' = id2tuple
      BY <1>0 DEF DeleteRule
    <2> QED BY <1>2, <2>1 DEF Known
  <1>11. OnTrack'
    BY <1>0, <1>2, <1>4, <1>9, <1>10 DEF OnTrack
  <1> QED BY <1>3, <1>6, <1>7, <1>8, <1>11 DEF SessionInv

\* The rule comes back to the tuple id2tuple names: no other branch is open.
LEMMA MeasureInsertKeeps ==
  ASSUME SessionInv, NEW r \in Rules, MeasureInsert(r)
  PROVE  SessionInv'
PROOF
  <1>0. /\ pc = "built" /\ r \in absent /\ InsertRule(r) /\ absent' = {} /\ pairs' = pairs + 1
        /\ UNCHANGED <<importantField, tuples, current, toadd, toinsert, ep_step,
                       performance_drop_cnt, pc, state, done>>
    BY DEF MeasureInsert, client
  <1>1. /\ Inv /\ SessionTypeOK /\ ShapesComposed /\ LimitsKept /\ OnTrack /\ ep_step \in Nat
        /\ Len(tuple) \in Nat /\ Cardinality(tuples) \in Nat
    BY TypeLists, FS_CardinalityType DEF SessionInv, SessionTypeOK, ShapesComposed
  <1>2. /\ ep_step > 0 /\ Added /\ Stored = Rules \ absent /\ \A q \in Rules : Known(q)
        /\ absent = {r} /\ pairs < MaxPairs
    BY <1>0, <1>1 DEF ShapesComposed, OnTrack
  <1>3. Inv' /\ NumbersExact' /\ scan' = NoScan
    BY <1>0, SessionUpdate DEF Update
  <1>4. Stored' = Stored \cup {r}
    <2> HIDE DEF Inv
    <2> QED BY <1>0, <1>1, InsertRuleInv
  <1>5. /\ ShapesKept
        /\ \/ Len(tuple') = Len(tuple)
           \/ Len(tuple') = Len(tuple) + 1 /\ ~Has(Default) /\ Has(Default)'
    <2> HIDE DEF Inv
    <2> QED BY <1>0, <1>1, InsertShapes
  <1>6. SessionTypeOK'
    <2>1. pairs' \in 0 .. MaxPairs
      BY <1>0, <1>1, <1>2, SessionAssumption DEF SessionTypeOK
    <2> QED BY <1>0, <1>1, <2>1 DEF SessionTypeOK
  <1>7. ShapesComposed'
    BY <1>0, <1>1, <1>2 DEF ShapesComposed
  <1>8. LimitsKept'
    BY <1>0, <1>1 DEF LimitsKept
  <1>9. Added'
    <2>1. Planned' = Planned /\ tuples' = tuples
      BY <1>0 DEF Planned
    <2> QED BY <1>1, <1>2, <1>5, <2>1, AddedStill
  <1>10. \A q \in Rules : Known(q)'
    <2>1. r \in DOMAIN id2tuple
      BY <1>2 DEF Known
    <2>2. id2tuple' = id2tuple
      BY <1>0, <2>1 DEF InsertRule, InsertKnown, InsertChosen, InsertDefault, InsertNewDefault
    <2> QED BY <1>2, <2>2 DEF Known
  <1>11. OnTrack'
    BY <1>0, <1>2, <1>4, <1>9, <1>10 DEF OnTrack
  <1> QED BY <1>3, <1>6, <1>7, <1>8, <1>11 DEF SessionInv

\* What only changes the session's own variables keeps the classifier's invariant.
LEMMA StoreRests ==
  ASSUME SessionInv, UNCHANGED vars
  PROVE  Inv' /\ NumbersExact' /\ scan' = NoScan
PROOF
  <1>1. Inv /\ NumbersExact /\ scan = NoScan /\ [Next]_vars
    BY DEF SessionInv
  <1>2. \A r \in Rules : ~DeleteAgain(r)
    BY SessionAssumption DEF DeleteAgain
  <1>3. \A r \in Rules : ~DeleteUnknown(r)
    BY SessionAssumption DEF DeleteUnknown
  <1>4. scan' = scan
    BY DEF vars
  <1> HIDE DEF Inv
  <1> QED BY <1>1, <1>2, <1>3, <1>4, StepInv, StepNumbers

LEMMA ReplyKeeps ==
  ASSUME SessionInv, Reply
  PROVE  SessionInv'
PROOF
  <1>0. /\ pc = "built" /\ absent = {} /\ state' = getObs
        /\ performance_drop_cnt' \in {0, performance_drop_cnt + 1}
        /\ done' = Over(performance_drop_cnt') /\ pc' = "listen"
        /\ UNCHANGED <<importantField, tuples, current, toadd, toinsert, absent, pairs, ep_step>>
        /\ UNCHANGED vars
    BY DEF Reply, store, vars
  <1>1. /\ Inv /\ SessionTypeOK /\ ShapesComposed /\ LimitsKept /\ OnTrack
        /\ ep_step \in Nat /\ performance_drop_cnt \in Nat
        /\ Len(tuples_arr) = Len(tuple)
    BY TypeLists DEF SessionInv, SessionTypeOK, Inv, TypeOK
  <1>2. ep_step > 0 /\ Added
    BY <1>0, <1>1 DEF ShapesComposed, OnTrack
  <1>3. Inv' /\ NumbersExact' /\ scan' = NoScan
    BY <1>0, StoreRests
  <1>4. state' \in [1 .. ObsTuples -> SlotType] /\ state'[1] = Slot(current)
    <2>1. Has(current)
      BY <1>2 DEF Added, Planned
    <2> HIDE DEF Inv
    <2> QED BY <1>0, <1>1, <2>1, ObsShows
  <1>5. performance_drop_cnt' \in Nat /\ performance_drop_cnt' <= MaxDrops
    BY <1>0, <1>1, SessionAssumption DEF LimitsKept
  <1>6. done' \in BOOLEAN
    <2>1. Over(performance_drop_cnt') \in BOOLEAN
      BY DEF Over
    <2> QED BY <1>0, <2>1
  <1>7. SessionTypeOK'
    BY <1>0, <1>1, <1>4, <1>5, <1>6 DEF SessionTypeOK, SlotType
  <1>8. tuple' = tuple
    BY <1>0 DEF vars
  <1>9. ShapesComposed'
    BY <1>0, <1>1, <1>2, <1>8 DEF ShapesComposed
  <1>10. LimitsKept'
    <2>1. ASSUME ~done'
          PROVE  /\ ep_step < MaxSteps /\ performance_drop_cnt' < MaxDrops
                 /\ Len(tuple) < MaxEpTuples
      <3>1. ~Over(performance_drop_cnt')
        BY <1>0, <2>1
      <3>2. /\ ~(Len(tuple) >= MaxEpTuples) /\ ~(performance_drop_cnt' >= MaxDrops)
            /\ ~(ep_step >= MaxSteps)
        BY <1>1, <3>1 DEF Over
      <3>3. Len(tuple) \in Nat
        BY <1>1, TypeLists
      <3> QED BY <1>1, <1>5, <3>2, <3>3, SessionAssumption
    <2> QED BY <1>0, <1>1, <1>4, <1>5, <1>8, <2>1 DEF LimitsKept
  <1>11. Added'
    <2>1. Planned' = Planned /\ tuples' = tuples /\ \A z \in Planned : Has(z) <=> Has(z)'
      BY <1>0, <1>8 DEF Planned, Has
    <2>2. Has(Default)' <=> Has(Default)
      BY <1>8 DEF Has
    <2> QED BY <1>2, <1>8, <2>1, <2>2 DEF Added
  <1>12. OnTrack'
    BY <1>0, <1>11 DEF OnTrack
  <1> QED BY <1>3, <1>7, <1>9, <1>10, <1>12 DEF SessionInv

LEMMA RestKeeps ==
  ASSUME SessionInv, UNCHANGED <<vars, session>>
  PROVE  SessionInv'
PROOF
  <1>1. UNCHANGED vars /\ UNCHANGED session
    OBVIOUS
  <1>2. Inv' /\ NumbersExact' /\ scan' = NoScan
    BY <1>1, StoreRests
  <1>3. /\ tuple' = tuple /\ id2tuple' = id2tuple
        /\ UNCHANGED <<importantField, tuples, current, toadd, toinsert, absent, pairs,
                       ep_step, performance_drop_cnt, pc, state, done>>
    BY <1>1 DEF vars, session
  <1>4. SessionTypeOK'
    BY <1>3 DEF SessionInv, SessionTypeOK
  <1>5. ShapesComposed'
    BY <1>3 DEF SessionInv, ShapesComposed
  <1>6. LimitsKept'
    <2>1. LimitsKept
      BY DEF SessionInv
    <2> QED BY <1>3, <2>1 DEF LimitsKept
  <1>7. OnTrack'
    <2>1. OnTrack
      BY DEF SessionInv
    <2>2. Stored' = Stored /\ Planned' = Planned /\ \A z : Has(z) <=> Has(z)'
      BY <1>3 DEF Stored, Planned, Has
    <2>3. \A r : Known(r) <=> Known(r)'
      BY <1>3 DEF Known
    <2>4. (Adding <=> Adding') /\ (Added <=> Added')
      BY <1>3, <2>2 DEF Adding, Added
    <2> QED BY <1>3, <2>1, <2>2, <2>3, <2>4 DEF OnTrack
  <1> QED BY <1>2, <1>4, <1>5, <1>6, <1>7 DEF SessionInv

LEMMA SessionStep == SessionInv /\ [SessionNext]_<<vars, session>> => SessionInv'
PROOF
  <1> SUFFICES ASSUME SessionInv, [SessionNext]_<<vars, session>> PROVE SessionInv'
    OBVIOUS
  <1> HIDE DEF SessionInv
  <1>1. CASE Reset
    BY <1>1, ResetKeeps
  <1>2. ASSUME NEW flag \in {0, 1}, NEW c \in Options, Command([flag |-> flag, choice |-> c])
        PROVE  SessionInv'
    BY <1>2, CommandKeeps
  <1>3. CASE AddTuple
    BY <1>3, AddTupleKeeps
  <1>4. CASE Step
    BY <1>4, StepKeeps
  <1>5. CASE Reply
    BY <1>5, ReplyKeeps
  <1>6. ASSUME NEW r \in Rules, MeasureDelete(r) PROVE SessionInv'
    BY <1>6, MeasureDeleteKeeps
  <1>7. ASSUME NEW r \in Rules, MeasureInsert(r) PROVE SessionInv'
    BY <1>7, MeasureInsertKeeps
  <1>8. CASE UNCHANGED <<vars, session>>
    BY <1>8, RestKeeps
  <1> QED BY <1>1, <1>2, <1>3, <1>4, <1>5, <1>6, <1>7, <1>8 DEF SessionNext

LEMMA SessionInvSound == SessionInv => SessionSound
PROOF
  <1> SUFFICES ASSUME SessionInv PROVE SessionSound
    OBVIOUS
  <1>1. /\ Inv /\ NumbersExact /\ SessionTypeOK /\ ShapesComposed /\ LimitsKept /\ OnTrack
        /\ ep_step \in Nat /\ Len(tuple) \in Nat /\ Cardinality(tuples) \in Nat
        /\ Len(tuples_arr) = Len(tuple)
    BY TypeLists, FS_CardinalityType
    DEF SessionInv, SessionTypeOK, ShapesComposed, Inv, TypeOK
  <1>2. pc \in {"listen", "add", "insert", "built"} /\ (pc # "listen" => ep_step > 0)
    BY <1>1 DEF SessionTypeOK, ShapesComposed
  <1>3. ShapesLegal
    BY <1>1, ComposedLegal DEF ShapesLegal, ShapesComposed
  <1>4. ObservationRight
    BY <1>1, CommandExists DEF ObservationRight, LimitsKept, ShapesComposed, SessionTypeOK
  <1>5. ClassifierBuilt
    <2>1. SUFFICES ASSUME pc = "built" PROVE ClassifierBuilt
      BY DEF ClassifierBuilt
    <2>2. Stored = Rules \ absent /\ Added
      BY <1>1, <1>2, <2>1 DEF OnTrack
    <2>3. ASSUME absent = {} PROVE TupleNum # 0
      <3> DEFINE Filled == {t \in DOMAIN tuple : tuple[t].rules # {}}
      <3>1. TupleNum = Cardinality(Filled)
        <4> HIDE DEF Inv
        <4> QED BY <1>1, CountAllFilled DEF TupleNumExact
      <3>2. Filled # {}
        BY <2>2, <2>3, SessionAssumption DEF Stored
      <3>3. IsFiniteSet(Filled)
        <4>1. DOMAIN tuple = 1 .. Len(tuple)
          BY TypeLists DEF SessionInv
        <4>2. IsFiniteSet(DOMAIN tuple)
          BY <1>1, <4>1, FS_Interval
        <4> QED BY <4>2, FS_Subset
      <3> HIDE DEF Filled
      <3> QED BY <3>1, <3>2, <3>3, FS_EmptySet
    <2>4. \A s \in tuples \cup {current} : \E t \in DOMAIN tuple : tuple[t].shape = s
      BY <2>2 DEF Added, Planned, Has
    <2> QED BY <2>2, <2>3, <2>4 DEF ClassifierBuilt
  <1>6. EpisodeBounded
    <2>1. Len(tuple) <= MaxEpTuples + 1
      <3>1. CASE ep_step = 0
        <4>1. Len(tuple) = 0
          BY <1>1, <3>1 DEF ShapesComposed
        <4> QED BY <4>1, SessionAssumption
      <3>2. CASE ep_step > 0 /\ pc = "add"
        <4>1. Cardinality(tuples) < MaxEpTuples /\ Adding
          BY <1>1, <3>2 DEF ShapesComposed, OnTrack
        <4>2. Len(toadd) \in Nat
          BY <1>1 DEF SessionTypeOK
        <4>3. Len(tuple) + Len(toadd) = Cardinality(tuples) + 1
          BY <4>1 DEF Adding
        <4> QED BY <1>1, <4>1, <4>2, <4>3, SessionAssumption
      <3>3. CASE ep_step > 0 /\ pc # "add"
        <4>1. Cardinality(tuples) < MaxEpTuples /\ Added
          BY <1>1, <3>3 DEF ShapesComposed, OnTrack
        <4>2. Len(tuple) = Cardinality(tuples) + 1 \/ Len(tuple) = Cardinality(tuples) + 2
          BY <4>1 DEF Added
        <4> QED BY <1>1, <4>1, <4>2, SessionAssumption
      <3> QED BY <1>1, <3>1, <3>2, <3>3
    <2> QED BY <1>1, <2>1 DEF EpisodeBounded, LimitsKept
  <1>7. MeasureSafe
    BY <1>1 DEF MeasureSafe, OnTrack, Known
  <1> QED BY <1>1, <1>3, <1>4, <1>5, <1>6, <1>7 DEF SessionSound

\* Whatever the client chooses among the commands its mask allows, as long as no shape
\* gets wider than the key, both sides agree on the shapes being built, and the
\* classifier can be built and measured.
THEOREM Session == SessionSpec => []SessionSound
PROOF
  <1>1. SessionInit => SessionInv
    BY SessionStarts
  <1>2. SessionInv /\ [SessionNext]_<<vars, session>> => SessionInv'
    BY SessionStep
  <1>3. SessionInv => SessionSound
    BY SessionInvSound
  <1> QED BY <1>1, <1>2, <1>3, PTL DEF SessionSpec
=============================================================================
