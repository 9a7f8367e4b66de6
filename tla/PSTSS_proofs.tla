---------------------------- MODULE PSTSS_proofs ----------------------------
(***************************************************************************)
(* PriorityTupleSpaceSearch keeps its map and its vector of tuples in step *)
(* and in order, the cached priorities exact and its lookups right, for    *)
(* all rules and hash functions, and implements the classifier of module   *)
(* Classifier.                                                             *)
(***************************************************************************)
EXTENDS PSTSS, ListLemmas

----------------------------------------------------------------------------
(***************************************************************************)
(* The best of a set of rules, -1 when there is none.                      *)
(***************************************************************************)

IsTop(m, S) == m \in {-1} \cup {Prio[r] : r \in S} /\ \A r \in S : Prio[r] <= m

LEMMA PrioType ==
  /\ \A r \in Rules : Prio[r] \in Nat /\ Prio[r] > 0
  /\ \A S \in SUBSET Rules : IsFiniteSet(S)
PROOF
  <1>1. \A r \in Rules : Prio[r] \in Nat /\ Prio[r] > 0
    BY TableAssumption
  <1>2. \A S \in SUBSET Rules : IsFiniteSet(S)
    BY FS_Subset, TableAssumption
  <1> QED BY <1>1, <1>2

LEMMA TopExists ==
  ASSUME NEW S \in SUBSET Rules
  PROVE  /\ IsTop(Top(S), S) /\ Top(S) \in Nat \cup {-1} /\ Top(S) # 0
         /\ S # {} => \E r \in S : Top(S) = Prio[r] /\ Top(S) > 0
PROOF
  <1>1. \A r \in S : Prio[r] \in Nat /\ Prio[r] > 0
    BY PrioType
  <1>2. \E m \in {-1} \cup {Prio[r] : r \in S} : \A r \in S : Prio[r] <= m
    <2>1. CASE S = {}
      BY <2>1
    <2>2. CASE S # {}
      <3>1. PICK b \in S : \A r \in S : Prio[r] <= Prio[b]
        BY <1>1, <2>2, PrioType, SomeBest
      <3> QED BY <3>1
    <2> QED BY <2>1, <2>2
  <1>3. IsTop(Top(S), S)
    BY <1>2 DEF IsTop, Top
  <1>4. Top(S) \in Nat \cup {-1} /\ Top(S) # 0
    BY <1>1, <1>3 DEF IsTop
  <1>5. ASSUME S # {} PROVE \E r \in S : Top(S) = Prio[r] /\ Top(S) > 0
    <2>1. PICK q \in S : Prio[q] <= Top(S)
      BY <1>3, <1>5 DEF IsTop
    <2>2. Top(S) > 0
      BY <1>1, <1>4, <2>1
    <2> QED BY <1>3, <2>2 DEF IsTop
  <1> QED BY <1>3, <1>4, <1>5

LEMMA TopUnique ==
  ASSUME NEW S \in SUBSET Rules, NEW m, IsTop(m, S)
  PROVE  m = Top(S)
PROOF
  <1>1. IsTop(Top(S), S)
    BY TopExists
  <1>2. \A r \in S : Prio[r] \in Nat /\ Prio[r] > 0
    BY PrioType
  <1> QED BY <1>1, <1>2 DEF IsTop

LEMMA TopEmpty == Top({}) = -1
PROOF
  <1>1. IsTop(-1, {})
    BY DEF IsTop
  <1> QED BY <1>1, TopUnique

\* The best of two sets.
LEMMA TopUnion ==
  ASSUME NEW A \in SUBSET Rules, NEW B \in SUBSET Rules
  PROVE  Top(A \cup B) = IF Top(B) > Top(A) THEN Top(B) ELSE Top(A)
PROOF
  <1> DEFINE a == Top(A)  b == Top(B)  m == IF b > a THEN b ELSE a
  <1>1. IsTop(a, A) /\ IsTop(b, B) /\ a \in Nat \cup {-1} /\ b \in Nat \cup {-1}
    BY TopExists
  <1>2. \A r \in A \cup B : Prio[r] \in Nat
    BY PrioType
  <1> HIDE DEF a, b
  <1>3. IsTop(m, A \cup B)
    BY <1>1, <1>2 DEF IsTop
  <1>4. m = Top(A \cup B)
    BY <1>3, TopUnique
  <1> QED BY <1>4 DEF a, b

\* Leaving out rules that are no better than a set's best changes nothing.
LEMMA TopOfPart ==
  ASSUME NEW A \in SUBSET Rules, NEW S \in SUBSET Rules, A \subseteq S,
         \A r \in S : r \in A \/ Prio[r] <= Top(A)
  PROVE  Top(S) = Top(A)
PROOF
  <1>1. IsTop(Top(A), A)
    BY TopExists
  <1>2. IsTop(Top(A), S)
    BY <1>1 DEF IsTop
  <1> QED BY <1>2, TopUnique

\* The answer Classifier asks for: 0 when nothing matches.
LEMMA BestOfTop ==
  ASSUME NEW S \in SUBSET Rules
  PROVE  (CHOOSE m \in {0} \cup {Prio[r] : r \in S} : \A r \in S : Prio[r] <= m)
         = IF Top(S) = -1 THEN 0 ELSE Top(S)
PROOF
  <1> DEFINE m == IF Top(S) = -1 THEN 0 ELSE Top(S)
             IsBest(x) == x \in {0} \cup {Prio[r] : r \in S} /\ \A r \in S : Prio[r] <= x
             best == CHOOSE x \in {0} \cup {Prio[r] : r \in S} : \A r \in S : Prio[r] <= x
  <1>1. \A r \in S : Prio[r] \in Nat /\ Prio[r] > 0
    BY PrioType
  <1>2. IsBest(m)
    BY <1>1, TopExists DEF IsTop
  <1>3. IsBest(best)
    BY <1>2
  <1> HIDE DEF m, best
  <1>4. best = m
    BY <1>1, <1>2, <1>3
  <1> QED BY <1>4 DEF m, best

----------------------------------------------------------------------------
(***************************************************************************)
(* A table with an exact cache keeps it.                                   *)
(***************************************************************************)

Exact(T) == T \in Table /\ T.maxPriority = Top(T.rules)

LEMMA TableType ==
  ASSUME NEW T \in Table
  PROVE  /\ T.lengths \in Lengths /\ T.rules \in SUBSET Rules
         /\ T.maxPriority \in Nat \cup {-1}
BY DEF Table

LEMMA NewTableExact ==
  ASSUME NEW len \in Lengths
  PROVE  /\ Exact(NewTable(len)) /\ NewTable(len).lengths = len
         /\ NewTable(len).rules = {} /\ NewTable(len).maxPriority = -1
BY TopEmpty DEF Exact, Table, NewTable

LEMMA InsertionExact ==
  ASSUME NEW T, Exact(T), NEW r \in Rules
  PROVE  LET U == Insertion(T, r) IN
         /\ Exact(U) /\ U.lengths = T.lengths /\ U.rules = T.rules \cup {r}
         /\ ~(Prio[r] > T.maxPriority) => U.maxPriority = T.maxPriority
PROOF
  <1> DEFINE U == Insertion(T, r)
             best == IF Prio[r] > T.maxPriority THEN Prio[r] ELSE T.maxPriority
             more == T.rules \cup {r}
  <1>1. /\ T.lengths \in Lengths /\ T.rules \in SUBSET Rules /\ T \in Table
        /\ T.maxPriority \in Nat \cup {-1} /\ T.maxPriority = Top(T.rules)
    BY TableType DEF Exact
  <1>2. Prio[r] \in Nat /\ Prio[r] > 0
    BY PrioType
  <1>3. Top({r}) = Prio[r]
    <2>1. IsTop(Prio[r], {r})
      BY <1>2 DEF IsTop
    <2> QED BY <2>1, TopUnique
  <1>4. best = Top(more)
    BY <1>1, <1>3, TopUnion
  <1>5. best \in Nat \cup {-1} /\ more \in SUBSET Rules
    BY <1>1, <1>2
  <1>6. U = [T EXCEPT !.rules = more, !.maxPriority = best]
    BY DEF Insertion
  <1> HIDE DEF U, best, more
  <1>7. /\ U \in Table /\ U.lengths = T.lengths /\ U.rules = more /\ U.maxPriority = best
    BY <1>1, <1>5, <1>6 DEF Table
  <1>8. ~(Prio[r] > T.maxPriority) => best = T.maxPriority
    BY DEF best
  <1> QED BY <1>4, <1>7, <1>8 DEF Exact, U, more

LEMMA DeletionExact ==
  ASSUME NEW T, Exact(T), NEW r \in T.rules
  PROVE  LET U == Deletion(T, r) IN
         /\ Exact(U) /\ U.lengths = T.lengths /\ U.rules = T.rules \ {r}
         /\ T.rules = {r} => U.maxPriority = -1
         /\ ~DeletionChanges(T, r) => U.maxPriority = T.maxPriority
PROOF
  <1> DEFINE U == Deletion(T, r)
             rest == T.rules \ {r}
             best == IF T.rules = {r} THEN -1
                     ELSE IF Prio[r] = T.maxPriority THEN Top(T.rules \ {r}) ELSE T.maxPriority
  <1>1. /\ T.lengths \in Lengths /\ T.rules \in SUBSET Rules /\ T \in Table
        /\ T.maxPriority \in Nat \cup {-1} /\ T.maxPriority = Top(T.rules)
    BY TableType DEF Exact
  <1>2. best = Top(rest)
    <2>1. CASE T.rules = {r}
      <3>1. rest = {}
        BY <2>1
      <3> QED BY <2>1, <3>1, TopEmpty
    <2>2. CASE T.rules # {r} /\ Prio[r] = T.maxPriority
      BY <2>2
    <2>3. CASE T.rules # {r} /\ Prio[r] # T.maxPriority
      <3>1. IsTop(T.maxPriority, T.rules) /\ T.maxPriority \in Nat
        <4>1. T.maxPriority > 0
          BY <1>1, TopExists
        <4> QED BY <1>1, <4>1, TopExists
      <3>2. IsTop(T.maxPriority, rest)
        BY <2>3, <3>1 DEF IsTop
      <3>3. T.maxPriority = Top(rest)
        BY <1>1, <3>2, TopUnique
      <3> QED BY <2>3, <3>3
    <2> QED BY <2>1, <2>2, <2>3
  <1>3. rest \in SUBSET Rules /\ best \in Nat \cup {-1}
    BY <1>1, <1>2, TopExists
  <1>4. U = [T EXCEPT !.rules = rest, !.maxPriority = best]
    BY DEF Deletion
  <1>5. T.rules = {r} => best = -1
    OBVIOUS
  <1>6. ~DeletionChanges(T, r) => best = T.maxPriority
    BY DEF DeletionChanges
  <1> HIDE DEF U, best, rest
  <1>7. U \in Table /\ U.lengths = T.lengths /\ U.rules = rest /\ U.maxPriority = best
    BY <1>1, <1>3, <1>4 DEF Table
  <1> QED BY <1>2, <1>5, <1>6, <1>7 DEF Exact, U, rest

----------------------------------------------------------------------------
(***************************************************************************)
(* Searching a table.                                                      *)
(***************************************************************************)

\* The lengths of a table are no longer than those of its rules.
FitsAll(T) == \A r \in T.rules, f \in Indexed : T.lengths[f] <= PrefixLen[r][f]

\* A rule that fits has the hash of every packet it matches.
LEMMA SameMasked ==
  ASSUME NEW len \in Lengths, NEW r \in Rules, \A f \in Indexed : len[f] <= PrefixLen[r][f],
         NEW p \in Packets, Matches(r, p)
  PROVE  Masked(Lo[r], len) = Masked(p, len)
PROOF
  <1>1. ASSUME NEW f \in Indexed
        PROVE  Shr(Lo[r][f], Width[f] - len[f]) = Shr(p[f], Width[f] - len[f])
    <2>1. f \in Fields
      BY TableAssumption
    <2>2. PrefixLen[r][f] \in Nat /\ len[f] \in Nat
      BY <2>1, PrefixAssumption DEF Lengths
    <2>3. len[f] \in 0 .. PrefixLen[r][f]
      BY <2>2
    <2>4. Lo[r][f] <= p[f] /\ p[f] <= Hi[r][f]
      BY <2>1 DEF Matches
    <2> QED BY <2>1, <2>3, <2>4, PrefixAssumption
  <1> QED BY <1>1 DEF Masked

LEMMA FindExact ==
  ASSUME NEW T \in Table, FitsAll(T), NEW p \in Packets
  PROVE  FindMatchPacket(T, p) = Top({r \in T.rules : Matches(r, p)})
PROOF
  <1>1. ASSUME NEW r \in T.rules, Matches(r, p) PROVE HashRule(r, T) = HashPacket(p, T)
    <2>1. r \in Rules /\ T.lengths \in Lengths
      BY TableType
    <2>2. Masked(Lo[r], T.lengths) = Masked(p, T.lengths)
      BY <1>1, <2>1, SameMasked DEF FitsAll
    <2> QED BY <2>2 DEF HashRule, HashPacket
  <1>2. {r \in Chain(T, HashPacket(p, T)) : Matches(r, p)} = {r \in T.rules : Matches(r, p)}
    BY <1>1 DEF Chain
  <1> QED BY <1>2 DEF FindMatchPacket

----------------------------------------------------------------------------
(***************************************************************************)
(* The vector of the tables.                                               *)
(***************************************************************************)

LEMMA SortedLists ==
  ASSUME NEW h, NEW D, NEW arr, Lists(arr, D), NEW s \in Sorted(h, arr)
  PROVE  Lists(s, D) /\ Len(s) = Len(arr) /\ Descends(h, s)
PROOF
  <1>1. PICK f \in [DOMAIN arr -> DOMAIN arr] :
          Elements(f) = DOMAIN arr /\ s = [i \in DOMAIN arr |-> arr[f[i]]] /\ Descends(h, s)
    BY DEF Sorted, Permuted
  <1>2. \A j \in DOMAIN arr : \E i \in DOMAIN arr : f[i] = j
    BY <1>1 DEF Elements
  <1>3. InOrder(s, arr, f)
    BY <1>1, <1>2 DEF InOrder
  <1>4. Lists(s, D) /\ Len(s) = Len(arr)
    BY <1>3, PermutedLists
  <1> QED BY <1>1, <1>4

\* A vector that descends goes on descending when no best priority changes.
LEMMA DescendsStill ==
  ASSUME NEW h, NEW D, NEW g, NEW arr, Lists(arr, D), Descends(h, arr),
         \A k \in D : g[k].maxPriority = h[k].maxPriority
  PROVE  Descends(g, arr)
PROOF
  <1>1. \A i \in DOMAIN arr : arr[i] \in D
    BY DEF Lists
  <1> QED BY <1>1 DEF Descends


\* The rules of the first q tables of vector arr, and of all tables of h.
Seen(h, arr, q) == UNION {h[arr[i]].rules : i \in 1 .. q}
RulesOf(h) == UNION {h[k].rules : k \in DOMAIN h}

LEMMA SeenProps ==
  ASSUME NEW h, \A k \in DOMAIN h : Exact(h[k]), NEW arr, Lists(arr, DOMAIN h),
         NEW q \in 0 .. Len(arr)
  PROVE  /\ Len(arr) \in Nat /\ DOMAIN arr = 1 .. Len(arr) /\ q \in Nat
         /\ RulesOf(h) \in SUBSET Rules /\ Seen(h, arr, q) \in SUBSET RulesOf(h)
         /\ Seen(h, arr, 0) = {}
         /\ q < Len(arr) => /\ arr[q + 1] \in DOMAIN h
                            /\ Seen(h, arr, q + 1) = Seen(h, arr, q) \cup h[arr[q + 1]].rules
PROOF
  <1>1. Len(arr) \in Nat /\ DOMAIN arr = 1 .. Len(arr) /\ q \in Nat
        /\ \A i \in DOMAIN arr : arr[i] \in DOMAIN h
    BY DEF Lists
  <1>2. RulesOf(h) \in SUBSET Rules
    BY TableType DEF Exact, RulesOf
  <1>3. Seen(h, arr, q) \in SUBSET RulesOf(h)
    BY <1>1 DEF Seen, RulesOf
  <1>4. Seen(h, arr, 0) = {}
    BY DEF Seen
  <1>5. 1 .. q + 1 = 1 .. q \cup {q + 1}
    BY <1>1
  <1>6. q < Len(arr) => q + 1 \in DOMAIN arr
    BY <1>1
  <1>7. Seen(h, arr, q + 1) = Seen(h, arr, q) \cup h[arr[q + 1]].rules
    BY <1>5 DEF Seen
  <1> QED BY <1>1, <1>2, <1>3, <1>4, <1>6, <1>7

\* When the next table is no better than x, nor is anything left in the vector.
LEMMA EarlyEnd ==
  ASSUME NEW h, \A k \in DOMAIN h : Exact(h[k]),
         NEW arr, Lists(arr, DOMAIN h), Descends(h, arr),
         NEW q \in 0 .. Len(arr), NEW x \in Int,
         q < Len(arr) => x >= h[arr[q + 1]].maxPriority
  PROVE  \A r \in RulesOf(h) : r \in Seen(h, arr, q) \/ Prio[r] <= x
PROOF
  <1>1. Len(arr) \in Nat /\ DOMAIN arr = 1 .. Len(arr) /\ q \in Nat
    BY SeenProps
  <1> SUFFICES ASSUME NEW r \in RulesOf(h), r \notin Seen(h, arr, q) PROVE Prio[r] <= x
    OBVIOUS
  <1>2. PICK k \in DOMAIN h : r \in h[k].rules
    BY DEF RulesOf
  <1>3. PICK i \in DOMAIN arr : arr[i] = k
    BY DEF Lists
  <1>4. i \in Nat /\ i >= q + 1 /\ q < Len(arr) /\ q + 1 \in DOMAIN arr
    <2>1. i \notin 1 .. q
      BY <1>2, <1>3 DEF Seen
    <2> QED BY <1>1, <1>3, <2>1
  <1>5. arr[q + 1] \in DOMAIN h
    BY <1>4 DEF Lists
  <1>6. /\ h[k].maxPriority \in Int /\ h[arr[q + 1]].maxPriority \in Int
        /\ Prio[r] \in Nat /\ Prio[r] <= h[k].maxPriority
    <2>1. /\ h[k].rules \in SUBSET Rules /\ h[k].maxPriority = Top(h[k].rules)
          /\ h[k].maxPriority \in Nat \cup {-1}
          /\ h[arr[q + 1]].maxPriority \in Nat \cup {-1}
      BY <1>5, TableType DEF Exact
    <2>2. IsTop(h[k].maxPriority, h[k].rules)
      BY <2>1, TopExists
    <2> QED BY <1>2, <2>1, <2>2, PrioType DEF IsTop
  <1>7. h[arr[q + 1]].maxPriority >= h[k].maxPriority
    <2>1. CASE i = q + 1
      BY <1>3, <1>6, <2>1
    <2>2. CASE i # q + 1
      BY <1>1, <1>3, <1>4, <2>2 DEF Descends
    <2> QED BY <2>1, <2>2
  <1> QED BY <1>4, <1>6, <1>7

----------------------------------------------------------------------------
(***************************************************************************)
(* The inductive invariant.  A tuple is good when it is not empty, its     *)
(* cache is exact and all its rules have its key and its lengths.  The     *)
(* vector lists the keys of the map, each once, in order; what a lookup in *)
(* progress has found is the best of the tuples it has probed.             *)
(***************************************************************************)

GoodTuple(T, k) ==
  /\ Exact(T)
  /\ T.rules # {}
  /\ \A r \in T.rules : KeyRulePrefix(r) = k /\ T.lengths = LengthsOf(r)

GoodMap(h) == \A k \in DOMAIN h : k \in Nat /\ GoodTuple(h[k], k)

VectorGood == /\ Lists(priority_tuples_vector, DOMAIN all_priority_tuples)
              /\ Descends(all_priority_tuples, priority_tuples_vector)

ScanTyped ==
  scan = NoScan
    \/ scan \in [packet : Packets, q : 0 .. Len(priority_tuples_vector), priority : Nat \cup {-1}]

ScanBest == scan # NoScan =>
              scan.priority = Top({r \in Probed : Matches(r, scan.packet)})

Inv == GoodMap(all_priority_tuples) /\ VectorGood /\ ScanTyped /\ ScanBest

----------------------------------------------------------------------------
(***************************************************************************)
(* Keys.                                                                   *)
(***************************************************************************)

\* One key, one pair of lengths: both can be read from the key.
LEMMA KeyLengths ==
  ASSUME NEW r \in Rules, NEW s \in Rules
  PROVE  /\ KeyRulePrefix(r) \in Nat /\ LengthsOf(r) \in Lengths
         /\ KeyRulePrefix(r) = KeyRulePrefix(s) => LengthsOf(r) = LengthsOf(s)
PROOF
  <1>1. 2 ^ 6 = 64
    OBVIOUS
  <1>2. 0 \in Fields /\ 1 \in Fields /\ 0 \in Indexed /\ 1 \in Indexed
    BY TableAssumption DEF Indexed
  <1>3. \A q \in Rules : PrefixLen[q][0] \in Nat /\ PrefixLen[q][1] \in Nat
    BY <1>2, PrefixAssumption
  <1>4. \A q \in Rules : PrefixLen[q][1] < 64
    <2>1. Width[1] < 64 /\ Width[1] \in Nat
      BY <1>1, <1>2, TableAssumption, PrefixAssumption
    <2>2. \A q \in Rules : PrefixLen[q][1] <= Width[1]
      BY <1>2, TableAssumption
    <2> QED BY <1>3, <2>1, <2>2
  <1>5. \A q \in Rules : KeyRulePrefix(q) = PrefixLen[q][0] * 64 + PrefixLen[q][1]
    BY <1>1 DEF KeyRulePrefix
  <1>6. LengthsOf(r) \in Lengths
    BY <1>3 DEF LengthsOf, Lengths, Indexed
  <1>7. ASSUME KeyRulePrefix(r) = KeyRulePrefix(s) PROVE LengthsOf(r) = LengthsOf(s)
    <2>1. PrefixLen[r][0] = PrefixLen[s][0] /\ PrefixLen[r][1] = PrefixLen[s][1]
      BY <1>3, <1>4, <1>5, <1>7
    <2> QED BY <2>1 DEF LengthsOf, Indexed
  <1> QED BY <1>3, <1>5, <1>6, <1>7

LEMMA GoodFits ==
  ASSUME NEW T, NEW k, GoodTuple(T, k)
  PROVE  T \in Table /\ T.rules \in SUBSET Rules /\ FitsAll(T)
PROOF
  <1>1. T \in Table /\ T.rules \in SUBSET Rules
    BY TableType DEF GoodTuple, Exact
  <1>2. ASSUME NEW r \in T.rules, NEW f \in Indexed PROVE T.lengths[f] <= PrefixLen[r][f]
    <2>1. T.lengths[f] = PrefixLen[r][f]
      BY DEF GoodTuple, LengthsOf
    <2>2. PrefixLen[r][f] \in Nat
      BY <1>1, TableAssumption, PrefixAssumption
    <2> QED BY <2>1, <2>2
  <1> QED BY <1>1, <1>2 DEF FitsAll

\* The rule r of tuple k is in no other tuple.
LEMMA OnlyThere ==
  ASSUME NEW h, GoodMap(h), NEW k \in DOMAIN h, NEW r \in h[k].rules, NEW j \in DOMAIN h,
         r \in h[j].rules
  PROVE  j = k /\ KeyRulePrefix(r) = k
BY DEF GoodMap, GoodTuple

LEMMA MapProps ==
  ASSUME Inv
  PROVE  /\ Stored = RulesOf(all_priority_tuples) /\ Stored \in SUBSET Rules
         /\ \A k \in DOMAIN all_priority_tuples : Exact(all_priority_tuples[k])
PROOF
  <1>1. \A k \in DOMAIN all_priority_tuples : Exact(all_priority_tuples[k])
    BY DEF Inv, GoodMap, GoodTuple
  <1>2. Stored \in SUBSET Rules
    BY <1>1, TableType DEF Stored, Exact
  <1> QED BY <1>1, <1>2 DEF Stored, RulesOf

----------------------------------------------------------------------------
(***************************************************************************)
(* Updates.                                                                *)
(***************************************************************************)

\* Inv after an update that leaves the map h and the vector priority_tuples_vector'.
LEMMA Join ==
  ASSUME NEW h, GoodMap(h), all_priority_tuples' = h, scan' = NoScan,
         Lists(priority_tuples_vector', DOMAIN h), Descends(h, priority_tuples_vector')
  PROVE  Inv'
BY DEF Inv, GoodMap, GoodTuple, KeyRulePrefix, VectorGood, ScanTyped, ScanBest

LEMMA InsertOldInv ==
  ASSUME Inv, scan' = NoScan, NEW r \in Rules, InsertOld(r)
  PROVE  Inv' /\ Stored' = Stored \cup {r}
PROOF
  <1> DEFINE k == KeyRulePrefix(r)
             T == all_priority_tuples[k]
             U == Insertion(T, r)
             h == [all_priority_tuples EXCEPT ![k] = U]
  <1>1. /\ k \in DOMAIN all_priority_tuples /\ all_priority_tuples' = h
        /\ IF Prio[r] > T.maxPriority
           THEN priority_tuples_vector' \in Sorted(h, priority_tuples_vector)
           ELSE priority_tuples_vector' = priority_tuples_vector
    BY DEF InsertOld, Resort
  <1>2. GoodMap(all_priority_tuples) /\ GoodTuple(T, k)
    BY <1>1 DEF Inv, GoodMap
  <1>3. /\ Exact(U) /\ U.lengths = T.lengths /\ U.rules = T.rules \cup {r}
        /\ ~(Prio[r] > T.maxPriority) => U.maxPriority = T.maxPriority
    <2> HIDE DEF T
    <2> QED BY <1>2, InsertionExact DEF GoodTuple
  <1>4. GoodTuple(U, k)
    <2>1. PICK q \in T.rules : q \in Rules /\ KeyRulePrefix(q) = k /\ T.lengths = LengthsOf(q)
      BY <1>2, GoodFits DEF GoodTuple
    <2>2. T.lengths = LengthsOf(r)
      BY <2>1, KeyLengths
    <2> HIDE DEF U, T
    <2> QED BY <1>2, <1>3, <2>2 DEF GoodTuple
  <1> HIDE DEF U
  <1>5. /\ DOMAIN h = DOMAIN all_priority_tuples /\ h[k] = U
        /\ \A j \in DOMAIN all_priority_tuples : j # k => h[j] = all_priority_tuples[j]
    <2> HIDE DEF k
    <2> QED BY <1>1
  <1> HIDE DEF h, k
  <1>6. GoodMap(h)
    BY <1>2, <1>4, <1>5 DEF GoodMap
  <1>7. Lists(priority_tuples_vector, DOMAIN h)
        /\ Descends(all_priority_tuples, priority_tuples_vector)
    BY <1>5 DEF Inv, VectorGood
  <1>8. Lists(priority_tuples_vector', DOMAIN h) /\ Descends(h, priority_tuples_vector')
    <2>1. CASE Prio[r] > T.maxPriority
      <3>1. priority_tuples_vector' \in Sorted(h, priority_tuples_vector)
        BY <1>1, <2>1
      <3> QED BY <1>7, <3>1, SortedLists
    <2>2. CASE ~(Prio[r] > T.maxPriority)
      <3>1. \A j \in DOMAIN h : h[j].maxPriority = all_priority_tuples[j].maxPriority
        BY <1>3, <1>5, <2>2
      <3>2. Descends(h, priority_tuples_vector)
        BY <1>7, <3>1, DescendsStill
      <3> QED BY <1>1, <1>7, <2>2, <3>2
    <2> QED BY <2>1, <2>2
  <1>9. Stored' = Stored \cup {r}
    BY <1>1, <1>3, <1>5 DEF Stored
  <1>10. Inv'
    BY <1>1, <1>6, <1>8, Join
  <1> QED BY <1>9, <1>10

LEMMA InsertNewInv ==
  ASSUME Inv, scan' = NoScan, NEW r \in Rules, InsertNew(r)
  PROVE  Inv' /\ Stored' = Stored \cup {r}
PROOF
  <1> DEFINE k == KeyRulePrefix(r)
             U == Insertion(NewTable(LengthsOf(r)), r)
             h == [j \in DOMAIN all_priority_tuples \cup {k} |->
                     IF j = k THEN U ELSE all_priority_tuples[j]]
             arr == Append(priority_tuples_vector, k)
  <1>1. /\ k \notin DOMAIN all_priority_tuples /\ all_priority_tuples' = h
        /\ priority_tuples_vector' \in Sorted(h, arr)
    BY DEF InsertNew, Resort
  <1>2. GoodMap(all_priority_tuples) /\ k \in Nat /\ LengthsOf(r) \in Lengths
    BY KeyLengths DEF Inv
  <1>3. GoodTuple(U, k) /\ U.rules = {r}
    <2>1. /\ Exact(NewTable(LengthsOf(r))) /\ NewTable(LengthsOf(r)).lengths = LengthsOf(r)
          /\ NewTable(LengthsOf(r)).rules = {}
      BY <1>2, NewTableExact
    <2>2. Exact(U) /\ U.lengths = LengthsOf(r) /\ U.rules = {r}
      <3> DEFINE N == NewTable(LengthsOf(r))
      <3> HIDE DEF N
      <3>1. Exact(N) /\ N.lengths = LengthsOf(r) /\ N.rules = {}
        BY <2>1 DEF N
      <3>2. Exact(Insertion(N, r)) /\ Insertion(N, r).lengths = N.lengths
            /\ Insertion(N, r).rules = N.rules \cup {r}
        BY <3>1, InsertionExact
      <3> QED BY <3>1, <3>2 DEF N
    <2> HIDE DEF U
    <2> QED BY <2>2 DEF GoodTuple
  <1> HIDE DEF U, k
  <1>4. /\ DOMAIN h = DOMAIN all_priority_tuples \cup {k} /\ h[k] = U
        /\ \A j \in DOMAIN all_priority_tuples : h[j] = all_priority_tuples[j]
    BY <1>1
  <1> HIDE DEF h
  <1>5. GoodMap(h)
    BY <1>2, <1>3, <1>4 DEF GoodMap
  <1>6. Lists(arr, DOMAIN h)
    BY <1>1, <1>4, AppendLists DEF Inv, VectorGood
  <1> HIDE DEF arr
  <1>7. Lists(priority_tuples_vector', DOMAIN h) /\ Descends(h, priority_tuples_vector')
    BY <1>1, <1>6, SortedLists
  <1>8. Stored' = Stored \cup {r}
    BY <1>1, <1>3, <1>4 DEF Stored
  <1>9. Inv'
    BY <1>1, <1>5, <1>7, Join
  <1> QED BY <1>8, <1>9

LEMMA DeleteOneInv ==
  ASSUME Inv, scan' = NoScan, NEW r \in Rules,
         KeyRulePrefix(r) \in DOMAIN all_priority_tuples,
         r \in all_priority_tuples[KeyRulePrefix(r)].rules, DeleteOne(r)
  PROVE  Inv' /\ Stored' = Stored \ {r}
PROOF
  <1> DEFINE k == KeyRulePrefix(r)
             T == all_priority_tuples[k]
             U == Deletion(T, r)
             h == [all_priority_tuples EXCEPT ![k] = U]
  <1>1. /\ T.rules # {r} /\ all_priority_tuples' = h
        /\ IF DeletionChanges(T, r)
           THEN priority_tuples_vector' \in Sorted(h, priority_tuples_vector)
           ELSE priority_tuples_vector' = priority_tuples_vector
    BY DEF DeleteOne, Resort
  <1>2. GoodMap(all_priority_tuples) /\ GoodTuple(T, k) /\ k \in DOMAIN all_priority_tuples
        /\ r \in T.rules
    BY DEF Inv, GoodMap
  <1>3. /\ Exact(U) /\ U.lengths = T.lengths /\ U.rules = T.rules \ {r}
        /\ ~DeletionChanges(T, r) => U.maxPriority = T.maxPriority
    <2> HIDE DEF T
    <2> QED BY <1>2, DeletionExact DEF GoodTuple
  <1>4. GoodTuple(U, k)
    <2> HIDE DEF U, T, k
    <2> QED BY <1>1, <1>2, <1>3 DEF GoodTuple
  <1> HIDE DEF U
  <1>5. /\ DOMAIN h = DOMAIN all_priority_tuples /\ h[k] = U
        /\ \A j \in DOMAIN all_priority_tuples : j # k => h[j] = all_priority_tuples[j]
    <2> HIDE DEF k
    <2> QED BY <1>2
  <1>6. Stored' = Stored \ {r}
    <2>1. \A j \in DOMAIN all_priority_tuples : r \in all_priority_tuples[j].rules => j = k
      BY <1>2, OnlyThere
    <2> HIDE DEF h, k
    <2> QED BY <1>1, <1>2, <1>3, <1>5, <2>1 DEF Stored
  <1> HIDE DEF h, k
  <1>7. GoodMap(h)
    BY <1>2, <1>4, <1>5 DEF GoodMap
  <1>8. Lists(priority_tuples_vector, DOMAIN h)
        /\ Descends(all_priority_tuples, priority_tuples_vector)
    BY <1>5 DEF Inv, VectorGood
  <1>9. Lists(priority_tuples_vector', DOMAIN h) /\ Descends(h, priority_tuples_vector')
    <2>1. CASE DeletionChanges(T, r)
      <3>1. priority_tuples_vector' \in Sorted(h, priority_tuples_vector)
        BY <1>1, <2>1
      <3> QED BY <1>8, <3>1, SortedLists
    <2>2. CASE ~DeletionChanges(T, r)
      <3>1. \A j \in DOMAIN h : h[j].maxPriority = all_priority_tuples[j].maxPriority
        BY <1>3, <1>5, <2>2
      <3>2. Descends(h, priority_tuples_vector)
        BY <1>8, <3>1, DescendsStill
      <3> QED BY <1>1, <1>8, <2>2, <3>2
    <2> QED BY <2>1, <2>2
  <1>10. Inv'
    BY <1>1, <1>7, <1>9, Join
  <1> QED BY <1>6, <1>10

\* The emptied tuple alone has priority -1, so it ends up last, where it is popped.
LEMMA DeleteLastInv ==
  ASSUME Inv, scan' = NoScan, NEW r \in Rules,
         KeyRulePrefix(r) \in DOMAIN all_priority_tuples,
         r \in all_priority_tuples[KeyRulePrefix(r)].rules, DeleteLast(r)
  PROVE  Inv' /\ Stored' = Stored \ {r}
PROOF
  <1> DEFINE k == KeyRulePrefix(r)
             T == all_priority_tuples[k]
             U == Deletion(T, r)
             h == [all_priority_tuples EXCEPT ![k] = U]
             g == [j \in DOMAIN all_priority_tuples \ {k} |-> all_priority_tuples[j]]
             arr == priority_tuples_vector
  <1>1. /\ T.rules = {r} /\ all_priority_tuples' = g
        /\ \E s \in Sorted(h, arr) : arr' = SubSeq(s, 1, Len(s) - 1)
    BY DEF DeleteLast
  <1>2. GoodMap(all_priority_tuples) /\ GoodTuple(T, k) /\ k \in DOMAIN all_priority_tuples
    BY DEF Inv, GoodMap
  <1>3. U.maxPriority = -1
    <2> HIDE DEF T, k
    <2> QED BY <1>1, <1>2, DeletionExact DEF GoodTuple
  <1> HIDE DEF U, k
  <1>4. /\ DOMAIN h = DOMAIN all_priority_tuples /\ h[k].maxPriority = -1
        /\ \A j \in DOMAIN all_priority_tuples : j # k => h[j] = all_priority_tuples[j]
    BY <1>2, <1>3
  <1>5. DOMAIN g = DOMAIN all_priority_tuples \ {k}
        /\ \A j \in DOMAIN g : g[j] = all_priority_tuples[j] /\ g[j] = h[j]
    BY <1>4
  <1> HIDE DEF h, g
  <1>6. PICK s \in Sorted(h, arr) : arr' = SubSeq(s, 1, Len(s) - 1)
    BY <1>1
  <1>7. Lists(s, DOMAIN h) /\ Descends(h, s)
    BY <1>4, SortedLists DEF Inv, VectorGood
  <1>8. /\ Len(s) \in DOMAIN s /\ Lists(arr', DOMAIN h \ {s[Len(s)]})
        /\ DOMAIN arr' = 1 .. Len(s) - 1
        /\ \A i \in DOMAIN arr' : i \in DOMAIN s /\ arr'[i] = s[i]
    BY <1>2, <1>4, <1>6, <1>7, FrontLists
  <1>9. DOMAIN s = 1 .. Len(s) /\ Len(s) \in Nat
    BY <1>7, ListsCount
  <1>10. s[Len(s)] = k
    <2> SUFFICES ASSUME s[Len(s)] # k PROVE FALSE
      OBVIOUS
    <2> DEFINE last == s[Len(s)]
    <2>1. PICK i \in DOMAIN s : s[i] = k
      BY <1>2, <1>4, <1>7 DEF Lists
    <2>2. i < Len(s)
      BY <1>9, <2>1
    <2>3. h[k].maxPriority >= h[last].maxPriority
      BY <1>7, <1>8, <2>1, <2>2 DEF Descends
    <2>4. last \in DOMAIN all_priority_tuples /\ last # k
      BY <1>4, <1>7, <1>8 DEF Lists
    <2> HIDE DEF last
    <2>5. /\ all_priority_tuples[last].rules # {}
          /\ all_priority_tuples[last].rules \in SUBSET Rules
          /\ all_priority_tuples[last].maxPriority = Top(all_priority_tuples[last].rules)
      BY <1>2, <2>4, TableType DEF GoodMap, GoodTuple, Exact
    <2>6. h[last].maxPriority \in Nat /\ h[last].maxPriority > 0
      BY <1>4, <2>4, <2>5, TopExists
    <2> QED BY <1>4, <2>3, <2>6
  <1>11. Lists(arr', DOMAIN g)
    BY <1>4, <1>5, <1>8, <1>10
  <1>12. Descends(g, arr')
    <2>1. \A i \in DOMAIN arr' : g[arr'[i]] = h[s[i]] /\ i \in DOMAIN s
      <3>1. \A i \in DOMAIN arr' : arr'[i] \in DOMAIN g
        BY <1>11 DEF Lists
      <3> QED BY <1>5, <1>8, <3>1
    <2> QED BY <1>7, <2>1 DEF Descends
  <1>13. GoodMap(g)
    BY <1>2, <1>5 DEF GoodMap
  <1>14. Stored' = Stored \ {r}
    <2>1. \A j \in DOMAIN all_priority_tuples : r \in all_priority_tuples[j].rules => j = k
      BY <1>1, <1>2, OnlyThere
    <2> QED BY <1>1, <1>2, <1>5, <2>1 DEF Stored
  <1>15. Inv'
    BY <1>1, <1>11, <1>12, <1>13, Join
  <1> QED BY <1>14, <1>15

LEMMA InsertRuleInv ==
  ASSUME Inv, NEW r \in Rules, InsertRule(r)
  PROVE  Inv' /\ r \notin Stored /\ Stored' = Stored \cup {r} /\ answer' = <<>>
PROOF
  <1>1. /\ scan' = NoScan /\ r \notin Stored /\ answer' = <<>>
        /\ InsertOld(r) \/ InsertNew(r)
    BY DEF InsertRule
  <1> HIDE DEF Inv
  <1> QED BY <1>1, InsertOldInv, InsertNewInv

LEMMA DeleteRuleInv ==
  ASSUME Inv, NEW r \in Rules, DeleteRule(r)
  PROVE  Inv' /\ r \in Stored /\ Stored' = Stored \ {r} /\ answer' = <<>>
PROOF
  <1>1. /\ scan' = NoScan /\ answer' = <<>>
        /\ KeyRulePrefix(r) \in DOMAIN all_priority_tuples
        /\ r \in all_priority_tuples[KeyRulePrefix(r)].rules
        /\ DeleteOne(r) \/ DeleteLast(r)
    BY DEF DeleteRule
  <1>2. r \in Stored
    BY <1>1 DEF Stored
  <1> HIDE DEF Inv
  <1> QED BY <1>1, <1>2, DeleteOneInv, DeleteLastInv

----------------------------------------------------------------------------
(***************************************************************************)
(* Lookups.                                                                *)
(***************************************************************************)

LEMMA StoreSame ==
  ASSUME Inv, UNCHANGED store, ScanTyped', ScanBest'
  PROVE  Inv' /\ Stored' = Stored
PROOF
  <1>1. all_priority_tuples' = all_priority_tuples
        /\ priority_tuples_vector' = priority_tuples_vector
    BY DEF store
  <1>2. GoodMap(all_priority_tuples)' /\ VectorGood'
    BY <1>1 DEF Inv, GoodMap, GoodTuple, KeyRulePrefix, VectorGood
  <1> QED BY <1>1, <1>2 DEF Inv, Stored

LEMMA ScanType ==
  ASSUME Inv, scan # NoScan
  PROVE  LET h == all_priority_tuples  arr == priority_tuples_vector IN
         /\ scan \in [packet : Packets, q : 0 .. Len(arr), priority : Nat \cup {-1}]
         /\ scan.packet \in Packets /\ scan.q \in 0 .. Len(arr) /\ scan.q \in Nat
         /\ scan.priority \in Nat \cup {-1} /\ Len(arr) \in Nat
         /\ Probed = Seen(h, arr, scan.q) /\ Probed \in SUBSET Stored
         /\ scan.priority = Top({r \in Probed : Matches(r, scan.packet)})
         /\ scan.q < Len(arr) =>
              /\ arr[scan.q + 1] \in DOMAIN h
              /\ Seen(h, arr, scan.q + 1) = Probed \cup h[arr[scan.q + 1]].rules
PROOF
  <1> DEFINE h == all_priority_tuples  arr == priority_tuples_vector
  <1>1. scan \in [packet : Packets, q : 0 .. Len(arr), priority : Nat \cup {-1}]
    BY DEF Inv, ScanTyped
  <1>2. scan.packet \in Packets /\ scan.q \in 0 .. Len(arr) /\ scan.priority \in Nat \cup {-1}
    BY <1>1
  <1>3. Stored = RulesOf(h) /\ \A k \in DOMAIN h : Exact(h[k])
    BY MapProps
  <1>4. Probed = Seen(h, arr, scan.q)
    BY DEF Probed, Seen
  <1>5. scan.priority = Top({r \in Probed : Matches(r, scan.packet)})
    BY DEF Inv, ScanBest
  <1>6. Lists(arr, DOMAIN h)
    BY DEF Inv, VectorGood
  <1> HIDE DEF h, arr
  <1>7. /\ Len(arr) \in Nat /\ scan.q \in Nat /\ Seen(h, arr, scan.q) \in SUBSET RulesOf(h)
        /\ scan.q < Len(arr) =>
             /\ arr[scan.q + 1] \in DOMAIN h
             /\ Seen(h, arr, scan.q + 1) = Seen(h, arr, scan.q) \cup h[arr[scan.q + 1]].rules
    BY <1>2, <1>3, <1>6, SeenProps
  <1> QED BY <1>1, <1>2, <1>3, <1>4, <1>5, <1>7 DEF h, arr

LEMMA ClassifyStartInv ==
  ASSUME Inv, NEW p \in Packets, ClassifyStart(p)
  PROVE  Inv' /\ Stored' = Stored /\ answer' = answer
PROOF
  <1>1. /\ scan' = [packet |-> p, q |-> 0, priority |-> -1]
        /\ UNCHANGED store /\ answer' = answer
    BY DEF ClassifyStart, NoScan
  <1>2. Len(priority_tuples_vector) \in Nat /\ priority_tuples_vector' = priority_tuples_vector
    BY <1>1, ListsCount DEF Inv, VectorGood, store
  <1>3. ScanTyped'
    BY <1>1, <1>2 DEF ScanTyped
  <1>4. ScanBest'
    <2>1. Probed' = {}
      BY <1>1 DEF Probed
    <2>2. {r \in Probed' : Matches(r, scan'.packet)} = {}
      BY <2>1
    <2> QED BY <1>1, <2>2, TopEmpty DEF ScanBest
  <1> QED BY <1>1, <1>3, <1>4, StoreSame

LEMMA ClassifyProbeInv ==
  ASSUME Inv, ClassifyProbe
  PROVE  Inv' /\ Stored' = Stored /\ answer' = answer
PROOF
  <1> DEFINE h == all_priority_tuples
             arr == priority_tuples_vector
             i == scan.q + 1
             T == h[arr[i]]
             p == scan.packet
             x == scan.priority
             result == FindMatchPacket(T, p)
             y == IF x > result THEN x ELSE result
             A == {r \in Probed : Matches(r, p)}
             B == {r \in T.rules : Matches(r, p)}
  <1>1. /\ scan # NoScan /\ scan.q < Len(arr) /\ UNCHANGED store /\ answer' = answer
        /\ scan' = [scan EXCEPT !.q = i, !.priority = y]
    BY DEF ClassifyProbe, NextTuple, ScanOver
  <1>2. /\ scan \in [packet : Packets, q : 0 .. Len(arr), priority : Nat \cup {-1}]
        /\ p \in Packets /\ x \in Nat \cup {-1} /\ Len(arr) \in Nat /\ i \in 0 .. Len(arr)
        /\ x = Top(A) /\ arr[i] \in DOMAIN h /\ Seen(h, arr, i) = Probed \cup T.rules
        /\ Probed \in SUBSET Stored
    BY <1>1, ScanType
  <1>3. T \in Table /\ T.rules \in SUBSET Rules /\ FitsAll(T) /\ Stored \in SUBSET Rules
    BY <1>2, GoodFits, MapProps DEF Inv, GoodMap
  <1>4. A \in SUBSET Rules /\ B \in SUBSET Rules
    BY <1>2, <1>3
  <1>5. result = Top(B)
    BY <1>2, <1>3, FindExact
  <1>6. y = Top(A \cup B) /\ y \in Nat \cup {-1}
    <2> HIDE DEF A, B, result, x
    <2>1. Top(B) \in Nat \cup {-1} /\ Top(A) \in Nat \cup {-1}
      BY <1>4, TopExists
    <2> QED BY <1>2, <1>4, <1>5, <2>1, TopUnion
  <1>7. h' = h /\ arr' = arr
    BY <1>1 DEF store
  <1> HIDE DEF y
  <1>8. scan'.packet = p /\ scan'.priority = y /\ scan'.q = i /\ ScanTyped'
    <2> HIDE DEF i
    <2> QED BY <1>1, <1>2, <1>6, <1>7 DEF ScanTyped
  <1>9. Probed' = Probed \cup T.rules
    BY <1>2, <1>7, <1>8 DEF Probed, Seen
  <1>10. ScanBest'
    <2>1. {r \in Probed' : Matches(r, scan'.packet)} = A \cup B
      BY <1>8, <1>9
    <2> QED BY <1>6, <1>8, <2>1 DEF ScanBest
  <1> QED BY <1>1, <1>8, <1>10, StoreSame

\* A lookup that ends has the best match of all stored rules.
LEMMA ScanOverExact ==
  ASSUME Inv, scan # NoScan, ScanOver
  PROVE  scan.priority = Top({r \in Stored : Matches(r, scan.packet)})
PROOF
  <1> DEFINE h == all_priority_tuples
             arr == priority_tuples_vector
             x == scan.priority
             A == {r \in Probed : Matches(r, scan.packet)}
             S == {r \in Stored : Matches(r, scan.packet)}
  <1>1. /\ x = Top(A) /\ x \in Nat \cup {-1} /\ Len(arr) \in Nat
        /\ scan.q \in 0 .. Len(arr) /\ Probed = Seen(h, arr, scan.q) /\ Probed \in SUBSET Stored
        /\ scan.q < Len(arr) => arr[scan.q + 1] \in DOMAIN h
    BY ScanType
  <1>2. /\ Stored = RulesOf(h) /\ Stored \in SUBSET Rules
        /\ \A k \in DOMAIN h : Exact(h[k])
    BY MapProps
  <1>3. Lists(arr, DOMAIN h) /\ Descends(h, arr)
    BY DEF Inv, VectorGood
  <1>4. ASSUME scan.q < Len(arr) PROVE x >= h[arr[scan.q + 1]].maxPriority
    <2>1. x > h[arr[scan.q + 1]].maxPriority
      BY <1>4 DEF ScanOver, NextTuple
    <2>2. h[arr[scan.q + 1]].maxPriority \in Nat \cup {-1}
      BY <1>1, <1>2, <1>4, TableType DEF Exact
    <2> QED BY <1>1, <2>1, <2>2
  <1> HIDE DEF h, arr, x
  <1>5. x \in Int
    BY <1>1
  <1>6. \A r \in Stored : r \in Probed \/ Prio[r] <= x
    BY <1>1, <1>2, <1>3, <1>4, <1>5, EarlyEnd
  <1>7. A \subseteq S /\ S \in SUBSET Rules /\ A \in SUBSET Rules
    BY <1>1, <1>2
  <1>8. \A r \in S : r \in A \/ Prio[r] <= x
    BY <1>6
  <1> HIDE DEF A, S
  <1>9. Top(S) = Top(A)
    BY <1>1, <1>7, <1>8, TopOfPart
  <1> QED BY <1>1, <1>9 DEF x, S

LEMMA ClassifyEndInv ==
  ASSUME Inv, ClassifyEnd
  PROVE  /\ Inv' /\ Stored' = Stored
         /\ \E p \in Packets : answer' = <<p, Top({r \in Stored : Matches(r, p)})>>
PROOF
  <1>1. /\ scan # NoScan /\ ScanOver /\ scan' = NoScan /\ UNCHANGED store
        /\ answer' = <<scan.packet, scan.priority>>
    BY DEF ClassifyEnd
  <1>2. scan.packet \in Packets
    BY <1>1, ScanType
  <1>3. scan.priority = Top({r \in Stored : Matches(r, scan.packet)})
    BY <1>1, ScanOverExact
  <1>4. ScanTyped' /\ ScanBest'
    BY <1>1 DEF ScanTyped, ScanBest
  <1> QED BY <1>1, <1>2, <1>3, <1>4, StoreSame

----------------------------------------------------------------------------
(***************************************************************************)
(* All steps.                                                              *)
(***************************************************************************)

LEMMA InitInv == Init => Inv /\ Stored = {} /\ answer = <<>>
PROOF
  <1> SUFFICES ASSUME Init PROVE Inv /\ Stored = {} /\ answer = <<>>
    OBVIOUS
  <1>1. /\ DOMAIN all_priority_tuples = {} /\ priority_tuples_vector = <<>>
        /\ scan = NoScan /\ answer = <<>>
    BY DEF Init
  <1>2. Lists(priority_tuples_vector, DOMAIN all_priority_tuples)
    BY <1>1, EmptyLists
  <1>3. Descends(all_priority_tuples, priority_tuples_vector)
    BY <1>1 DEF Descends
  <1> QED BY <1>1, <1>2, <1>3 DEF Inv, GoodMap, VectorGood, ScanTyped, ScanBest, Stored

\* What a step means to the classifier.
StepMeaning ==
  \/ Stored' = Stored /\ answer' = answer
  \/ \E r \in Rules : r \notin Stored /\ Stored' = Stored \cup {r} /\ answer' = <<>>
  \/ \E r \in Rules : r \in Stored /\ Stored' = Stored \ {r} /\ answer' = <<>>
  \/ \E p \in Packets : /\ answer' = <<p, Top({r \in Stored : Matches(r, p)})>>
                        /\ Stored' = Stored

LEMMA StepInv == Inv /\ [Next]_vars => Inv' /\ StepMeaning
PROOF
  <1> SUFFICES ASSUME Inv, [Next]_vars PROVE Inv' /\ StepMeaning
    OBVIOUS
  <1>1. CASE UNCHANGED vars
    <2>1. UNCHANGED store /\ scan' = scan /\ answer' = answer
          /\ all_priority_tuples' = all_priority_tuples
          /\ priority_tuples_vector' = priority_tuples_vector
      BY <1>1 DEF vars, store
    <2>2. ScanTyped' /\ ScanBest'
      BY <2>1 DEF Inv, ScanTyped, ScanBest, Probed
    <2> QED BY <2>1, <2>2, StoreSame DEF StepMeaning
  <1>2. ASSUME NEW r \in Rules, InsertRule(r) PROVE Inv' /\ StepMeaning
    BY <1>2, InsertRuleInv DEF StepMeaning
  <1>3. ASSUME NEW r \in Rules, DeleteRule(r) PROVE Inv' /\ StepMeaning
    BY <1>3, DeleteRuleInv DEF StepMeaning
  <1>4. ASSUME NEW p \in Packets, ClassifyStart(p) PROVE Inv' /\ StepMeaning
    BY <1>4, ClassifyStartInv DEF StepMeaning
  <1>5. CASE ClassifyProbe
    BY <1>5, ClassifyProbeInv DEF StepMeaning
  <1>6. CASE ClassifyEnd
    BY <1>6, ClassifyEndInv DEF StepMeaning
  <1> QED BY <1>1, <1>2, <1>3, <1>4, <1>5, <1>6 DEF Next

THEOREM Invariance == Spec => []Inv
BY InitInv, StepInv, PTL DEF Spec

----------------------------------------------------------------------------
(***************************************************************************)
(* The properties.                                                         *)
(***************************************************************************)

LEMMA InvSound == Inv => TypeOK /\ TuplesSound
PROOF
  <1> SUFFICES ASSUME Inv PROVE TypeOK /\ TuplesSound
    OBVIOUS
  <1>1. GoodMap(all_priority_tuples)
        /\ Lists(priority_tuples_vector, DOMAIN all_priority_tuples)
        /\ Descends(all_priority_tuples, priority_tuples_vector)
    BY DEF Inv, VectorGood
  <1>2. TypeOK
    <2>1. \A k \in DOMAIN all_priority_tuples : k \in Nat /\ all_priority_tuples[k] \in Table
      BY <1>1 DEF GoodMap, GoodTuple, Exact
    <2>2. priority_tuples_vector \in Seq(DOMAIN all_priority_tuples)
      BY <1>1 DEF Lists
    <2> QED BY <2>1, <2>2 DEF Inv, ScanTyped, TypeOK
  <1>3. VectorExact
    BY <1>1, ListsCount DEF VectorExact, Elements
  <1>4. TuplesExact
    BY <1>1 DEF GoodMap, GoodTuple, Exact, TuplesExact
  <1>5. ScanExact
    BY ScanOverExact DEF Inv, ScanBest, ScanExact
  <1> QED BY <1>1, <1>2, <1>3, <1>4, <1>5 DEF VectorSorted, TuplesSound

\* Map and vector list the same live tuples in order, with exact caches, so that the
\* pop after the sort takes the emptied tuple; and the early end of a lookup loses
\* nothing (TupleSpaceSearch.cpp:248-256, 287-293).
THEOREM Sound == Spec => [](TypeOK /\ TuplesSound)
BY Invariance, InvSound, PTL

\* The search implements the classifier (TupleSpaceSearch.cpp:236-335).
THEOREM Refinement == Spec => ClassifierSpec
PROOF
  <1> DEFINE Answer == IF answer = <<>> \/ answer[2] >= 0 THEN answer ELSE <<answer[1], 0>>
  <1>1. Init => Abstract!Init
    BY InitInv DEF Abstract!Init
  <1>2. ASSUME NEW S \in SUBSET Rules
        PROVE  Abstract!Best(S) = IF Top(S) = -1 THEN 0 ELSE Top(S)
    BY BestOfTop DEF Abstract!Best
  <1>3. Inv /\ StepMeaning => [Abstract!Next]_<<Stored, Answer>>
    <2> SUFFICES ASSUME Inv, StepMeaning PROVE [Abstract!Next]_<<Stored, Answer>>
      OBVIOUS
    <2>1. CASE Stored' = Stored /\ answer' = answer
      BY <2>1
    <2>2. ASSUME NEW r \in Rules, r \notin Stored, Stored' = Stored \cup {r}, answer' = <<>>
          PROVE  Abstract!Next
      BY <2>2 DEF Abstract!Next, Abstract!Insert
    <2>3. ASSUME NEW r \in Rules, r \in Stored, Stored' = Stored \ {r}, answer' = <<>>
          PROVE  Abstract!Next
      BY <2>3 DEF Abstract!Next, Abstract!Delete
    <2>4. ASSUME NEW p \in Packets, Stored' = Stored,
                 answer' = <<p, Top({r \in Stored : Matches(r, p)})>>
          PROVE  Abstract!Next
      <3> DEFINE S == {r \in Stored : Matches(r, p)}
      <3>1. S \in SUBSET Rules
        BY MapProps
      <3>2. Top(S) \in Nat \cup {-1} /\ Abstract!Best(S) = IF Top(S) = -1 THEN 0 ELSE Top(S)
        BY <1>2, <3>1, TopExists
      <3>3. answer' = <<p, Top(S)>> /\ answer'[1] = p /\ answer'[2] = Top(S) /\ answer' # <<>>
        BY <2>4
      <3> HIDE DEF S
      <3>4. Answer' = <<p, Abstract!Best(S)>>
        BY <3>2, <3>3
      <3> HIDE DEF Answer
      <3> QED BY <2>4, <3>4 DEF Abstract!Next, Abstract!Lookup, S, Answer
    <2> QED BY <2>1, <2>2, <2>3, <2>4 DEF StepMeaning
  <1>4. Inv /\ [Next]_vars => [Abstract!Next]_<<Stored, Answer>>
    BY <1>3, StepInv
  <1> QED BY <1>1, <1>4, Invariance, PTL DEF Spec, ClassifierSpec, Abstract!Spec
=============================================================================
