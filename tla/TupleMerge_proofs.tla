-------------------------- MODULE TupleMerge_proofs --------------------------
(***************************************************************************)
(* TupleMerge keeps its vector of tables in order, the tables' caches      *)
(* exact, their lengths distinct and no longer than those of their rules,  *)
(* and its assignments true, through splits and deletes, for all rules,    *)
(* limits and hash functions, and implements the classifier of module      *)
(* Classifier.                                                             *)
(***************************************************************************)
EXTENDS TupleMerge, ListLemmas

----------------------------------------------------------------------------
(***************************************************************************)
(* The best of a set of rules, -1 when there is none.                      *)
(***************************************************************************)

IsTop(m, S) == m \in {-1} \cup {Prio[r] : r \in S} /\ \A r \in S : Prio[r] <= m

LEMMA PrioType ==
  /\ \A r \in Rules : Prio[r] \in Nat /\ Prio[r] > 0
  /\ \A S \in SUBSET Rules : IsFiniteSet(S)
PROOF
  <1>1. \A r \in Rules : Prio[r] \in Nat /\ Prio[r] > 0
    BY TableAssumption
  <1>2. \A S \in SUBSET Rules : IsFiniteSet(S)
    BY FS_Subset, TableAssumption
  <1> QED BY <1>1, <1>2

LEMMA TopExists ==
  ASSUME NEW S \in SUBSET Rules
  PROVE  /\ IsTop(Top(S), S) /\ Top(S) \in Nat \cup {-1} /\ Top(S) # 0
         /\ S # {} => \E r \in S : Top(S) = Prio[r] /\ Top(S) > 0
PROOF
  <1>1. \A r \in S : Prio[r] \in Nat /\ Prio[r] > 0
    BY PrioType
  <1>2. \E m \in {-1} \cup {Prio[r] : r \in S} : \A r \in S : Prio[r] <= m
    <2>1. CASE S = {}
      BY <2>1
    <2>2. CASE S # {}
      <3>1. PICK b \in S : \A r \in S : Prio[r] <= Prio[b]
        BY <1>1, <2>2, PrioType, SomeBest
      <3> QED BY <3>1
    <2> QED BY <2>1, <2>2
  <1>3. IsTop(Top(S), S)
    BY <1>2 DEF IsTop, Top
  <1>4. Top(S) \in Nat \cup {-1} /\ Top(S) # 0
    BY <1>1, <1>3 DEF IsTop
  <1>5. ASSUME S # {} PROVE \E r \in S : Top(S) = Prio[r] /\ Top(S) > 0
    <2>1. PICK q \in S : Prio[q] <= Top(S)
      BY <1>3, <1>5 DEF IsTop
    <2>2. Top(S) > 0
      BY <1>1, <1>4, <2>1
    <2> QED BY <1>3, <2>2 DEF IsTop
  <1> QED BY <1>3, <1>4, <1>5

LEMMA TopUnique ==
  ASSUME NEW S \in SUBSET Rules, NEW m, IsTop(m, S)
  PROVE  m = Top(S)
PROOF
  <1>1. IsTop(Top(S), S)
    BY TopExists
  <1>2. \A r \in S : Prio[r] \in Nat /\ Prio[r] > 0
    BY PrioType
  <1> QED BY <1>1, <1>2 DEF IsTop

LEMMA TopEmpty == Top({}) = -1
PROOF
  <1>1. IsTop(-1, {})
    BY DEF IsTop
  <1> QED BY <1>1, TopUnique

\* The best of two sets.
LEMMA TopUnion ==
  ASSUME NEW A \in SUBSET Rules, NEW B \in SUBSET Rules
  PROVE  Top(A \cup B) = IF Top(B) > Top(A) THEN Top(B) ELSE Top(A)
PROOF
  <1> DEFINE a == Top(A)  b == Top(B)  m == IF b > a THEN b ELSE a
  <1>1. IsTop(a, A) /\ IsTop(b, B) /\ a \in Nat \cup {-1} /\ b \in Nat \cup {-1}
    BY TopExists
  <1>2. \A r \in A \cup B : Prio[r] \in Nat
    BY PrioType
  <1> HIDE DEF a, b
  <1>3. IsTop(m, A \cup B)
    BY <1>1, <1>2 DEF IsTop
  <1>4. m = Top(A \cup B)
    BY <1>3, TopUnique
  <1> QED BY <1>4 DEF a, b

\* Leaving out rules that are no better than a set's best changes nothing.
LEMMA TopOfPart ==
  ASSUME NEW A \in SUBSET Rules, NEW S \in SUBSET Rules, A \subseteq S,
         \A r \in S : r \in A \/ Prio[r] <= Top(A)
  PROVE  Top(S) = Top(A)
PROOF
  <1>1. IsTop(Top(A), A)
    BY TopExists
  <1>2. IsTop(Top(A), S)
    BY <1>1 DEF IsTop
  <1> QED BY <1>2, TopUnique

\* The answer Classifier asks for: 0 when nothing matches.
LEMMA BestOfTop ==
  ASSUME NEW S \in SUBSET Rules
  PROVE  (CHOOSE m \in {0} \cup {Prio[r] : r \in S} : \A r \in S : Prio[r] <= m)
         = IF Top(S) = -1 THEN 0 ELSE Top(S)
PROOF
  <1> DEFINE m == IF Top(S) = -1 THEN 0 ELSE Top(S)
             IsBest(x) == x \in {0} \cup {Prio[r] : r \in S} /\ \A r \in S : Prio[r] <= x
             best == CHOOSE x \in {0} \cup {Prio[r] : r \in S} : \A r \in S : Prio[r] <= x
  <1>1. \A r \in S : Prio[r] \in Nat /\ Prio[r] > 0
    BY PrioType
  <1>2. IsBest(m)
    BY <1>1, TopExists DEF IsTop
  <1>3. IsBest(best)
    BY <1>2
  <1> HIDE DEF m, best
  <1>4. best = m
    BY <1>1, <1>2, <1>3
  <1> QED BY <1>4 DEF m, best

----------------------------------------------------------------------------
(***************************************************************************)
(* A table with an exact cache keeps it.                                   *)
(***************************************************************************)

Exact(T) == T \in Table /\ T.maxPriority = Top(T.rules)

LEMMA TableType ==
  ASSUME NEW T \in Table
  PROVE  /\ T.lengths \in Lengths /\ T.rules \in SUBSET Rules
         /\ T.maxPriority \in Nat \cup {-1}
BY DEF Table

LEMMA NewTableExact ==
  ASSUME NEW len \in Lengths
  PROVE  /\ Exact(NewTable(len)) /\ NewTable(len).lengths = len
         /\ NewTable(len).rules = {} /\ NewTable(len).maxPriority = -1
BY TopEmpty DEF Exact, Table, NewTable

LEMMA InsertionExact ==
  ASSUME NEW T, Exact(T), NEW r \in Rules
  PROVE  LET U == Insertion(T, r) IN
         /\ Exact(U) /\ U.lengths = T.lengths /\ U.rules = T.rules \cup {r}
         /\ ~(Prio[r] > T.maxPriority) => U.maxPriority = T.maxPriority
PROOF
  <1> DEFINE U == Insertion(T, r)
             best == IF Prio[r] > T.maxPriority THEN Prio[r] ELSE T.maxPriority
             more == T.rules \cup {r}
  <1>1. /\ T.lengths \in Lengths /\ T.rules \in SUBSET Rules /\ T \in Table
        /\ T.maxPriority \in Nat \cup {-1} /\ T.maxPriority = Top(T.rules)
    BY TableType DEF Exact
  <1>2. Prio[r] \in Nat /\ Prio[r] > 0
    BY PrioType
  <1>3. Top({r}) = Prio[r]
    <2>1. IsTop(Prio[r], {r})
      BY <1>2 DEF IsTop
    <2> QED BY <2>1, TopUnique
  <1>4. best = Top(more)
    BY <1>1, <1>3, TopUnion
  <1>5. best \in Nat \cup {-1} /\ more \in SUBSET Rules
    BY <1>1, <1>2
  <1>6. U = [T EXCEPT !.rules = more, !.maxPriority = best]
    BY DEF Insertion
  <1> HIDE DEF U, best, more
  <1>7. /\ U \in Table /\ U.lengths = T.lengths /\ U.rules = more /\ U.maxPriority = best
    BY <1>1, <1>5, <1>6 DEF Table
  <1>8. ~(Prio[r] > T.maxPriority) => best = T.maxPriority
    BY DEF best
  <1> QED BY <1>4, <1>7, <1>8 DEF Exact, U, more

LEMMA DeletionExact ==
  ASSUME NEW T, Exact(T), NEW r \in T.rules
  PROVE  LET U == Deletion(T, r) IN
         /\ Exact(U) /\ U.lengths = T.lengths /\ U.rules = T.rules \ {r}
         /\ T.rules = {r} => U.maxPriority = -1
         /\ ~DeletionChanges(T, r) => U.maxPriority = T.maxPriority
PROOF
  <1> DEFINE U == Deletion(T, r)
             rest == T.rules \ {r}
             best == IF T.rules = {r} THEN -1
                     ELSE IF Prio[r] = T.maxPriority THEN Top(T.rules \ {r}) ELSE T.maxPriority
  <1>1. /\ T.lengths \in Lengths /\ T.rules \in SUBSET Rules /\ T \in Table
        /\ T.maxPriority \in Nat \cup {-1} /\ T.maxPriority = Top(T.rules)
    BY TableType DEF Exact
  <1>2. best = Top(rest)
    <2>1. CASE T.rules = {r}
      <3>1. rest = {}
        BY <2>1
      <3> QED BY <2>1, <3>1, TopEmpty
    <2>2. CASE T.rules # {r} /\ Prio[r] = T.maxPriority
      BY <2>2
    <2>3. CASE T.rules # {r} /\ Prio[r] # T.maxPriority
      <3>1. IsTop(T.maxPriority, T.rules) /\ T.maxPriority \in Nat
        <4>1. T.maxPriority > 0
          BY <1>1, TopExists
        <4> QED BY <1>1, <4>1, TopExists
      <3>2. IsTop(T.maxPriority, rest)
        BY <2>3, <3>1 DEF IsTop
      <3>3. T.maxPriority = Top(rest)
        BY <1>1, <3>2, TopUnique
      <3> QED BY <2>3, <3>3
    <2> QED BY <2>1, <2>2, <2>3
  <1>3. rest \in SUBSET Rules /\ best \in Nat \cup {-1}
    BY <1>1, <1>2, TopExists
  <1>4. U = [T EXCEPT !.rules = rest, !.maxPriority = best]
    BY DEF Deletion
  <1>5. T.rules = {r} => best = -1
    OBVIOUS
  <1>6. ~DeletionChanges(T, r) => best = T.maxPriority
    BY DEF DeletionChanges
  <1> HIDE DEF U, best, rest
  <1>7. U \in Table /\ U.lengths = T.lengths /\ U.rules = rest /\ U.maxPriority = best
    BY <1>1, <1>3, <1>4 DEF Table
  <1> QED BY <1>2, <1>5, <1>6, <1>7 DEF Exact, U, rest

----------------------------------------------------------------------------
(***************************************************************************)
(* Searching a table.                                                      *)
(***************************************************************************)

\* The lengths of a table are no longer than those of its rules.
FitsAll(T) == \A r \in T.rules, f \in Indexed : T.lengths[f] <= PrefixLen[r][f]

\* A rule that fits has the hash of every packet it matches.
LEMMA SameMasked ==
  ASSUME NEW len \in Lengths, NEW r \in Rules, \A f \in Indexed : len[f] <= PrefixLen[r][f],
         NEW p \in Packets, Matches(r, p)
  PROVE  Masked(Lo[r], len) = Masked(p, len)
PROOF
  <1>1. ASSUME NEW f \in Indexed
        PROVE  Shr(Lo[r][f], Width[f] - len[f]) = Shr(p[f], Width[f] - len[f])
    <2>1. f \in Fields
      BY TableAssumption
    <2>2. PrefixLen[r][f] \in Nat /\ len[f] \in Nat
      BY <2>1, PrefixAssumption DEF Lengths
    <2>3. len[f] \in 0 .. PrefixLen[r][f]
      BY <2>2
    <2>4. Lo[r][f] <= p[f] /\ p[f] <= Hi[r][f]
      BY <2>1 DEF Matches
    <2> QED BY <2>1, <2>3, <2>4, PrefixAssumption
  <1> QED BY <1>1 DEF Masked

LEMMA FindExact ==
  ASSUME NEW T \in Table, FitsAll(T), NEW p \in Packets
  PROVE  FindMatchPacket(T, p) = Top({r \in T.rules : Matches(r, p)})
PROOF
  <1>1. ASSUME NEW r \in T.rules, Matches(r, p) PROVE HashRule(r, T) = HashPacket(p, T)
    <2>1. r \in Rules /\ T.lengths \in Lengths
      BY TableType
    <2>2. Masked(Lo[r], T.lengths) = Masked(p, T.lengths)
      BY <1>1, <2>1, SameMasked DEF FitsAll
    <2> QED BY <2>2 DEF HashRule, HashPacket
  <1>2. {r \in Chain(T, HashPacket(p, T)) : Matches(r, p)} = {r \in T.rules : Matches(r, p)}
    BY <1>1 DEF Chain
  <1> QED BY <1>2 DEF FindMatchPacket

----------------------------------------------------------------------------
(***************************************************************************)
(* The vector of the tables.                                               *)
(***************************************************************************)

LEMMA SortedLists ==
  ASSUME NEW h, NEW D, NEW arr, Lists(arr, D), NEW s \in Sorted(h, arr)
  PROVE  Lists(s, D) /\ Len(s) = Len(arr) /\ Descends(h, s)
PROOF
  <1>1. PICK f \in [DOMAIN arr -> DOMAIN arr] :
          Elements(f) = DOMAIN arr /\ s = [i \in DOMAIN arr |-> arr[f[i]]] /\ Descends(h, s)
    BY DEF Sorted, Permuted
  <1>2. \A j \in DOMAIN arr : \E i \in DOMAIN arr : f[i] = j
    BY <1>1 DEF Elements
  <1>3. InOrder(s, arr, f)
    BY <1>1, <1>2 DEF InOrder
  <1>4. Lists(s, D) /\ Len(s) = Len(arr)
    BY <1>3, PermutedLists
  <1> QED BY <1>1, <1>4

\* A vector that descends goes on descending when no best priority changes.
LEMMA DescendsStill ==
  ASSUME NEW h, NEW D, NEW g, NEW arr, Lists(arr, D), Descends(h, arr),
         \A k \in D : g[k].maxPriority = h[k].maxPriority
  PROVE  Descends(g, arr)
PROOF
  <1>1. \A i \in DOMAIN arr : arr[i] \in D
    BY DEF Lists
  <1> QED BY <1>1 DEF Descends

\* A vector that descends may be extended by what is no better than all.
LEMMA DescendsAppend ==
  ASSUME NEW h, NEW D, NEW g, NEW arr, Lists(arr, D), Descends(h, arr), NEW k, k \notin D,
         \A j \in D : g[j].maxPriority = h[j].maxPriority /\ g[j].maxPriority >= g[k].maxPriority
  PROVE  Descends(g, Append(arr, k))
PROOF
  <1> DEFINE s == Append(arr, k)
  <1>1. /\ Len(arr) \in Nat /\ DOMAIN arr = 1 .. Len(arr) /\ DOMAIN s = 1 .. Len(arr) + 1
        /\ s[Len(arr) + 1] = k /\ \A i \in DOMAIN arr : s[i] = arr[i] /\ arr[i] \in D
    BY AppendLists, ListsCount DEF Lists
  <1> HIDE DEF s
  <1>2. ASSUME NEW i \in DOMAIN s, NEW j \in DOMAIN s, i < j
        PROVE  g[s[i]].maxPriority >= g[s[j]].maxPriority
    <2>1. CASE j \in DOMAIN arr
      <3>1. i \in DOMAIN arr
        BY <1>1, <1>2, <2>1
      <3> QED BY <1>1, <1>2, <2>1, <3>1 DEF Descends
    <2>2. CASE j = Len(arr) + 1
      <3>1. i \in DOMAIN arr
        BY <1>1, <1>2, <2>2
      <3> QED BY <1>1, <2>2, <3>1
    <2> QED BY <1>1, <2>1, <2>2
  <1> QED BY <1>2 DEF Descends, s

\* The rules of the first q tables of vector arr, and of all tables of h.
Seen(h, arr, q) == UNION {h[arr[i]].rules : i \in 1 .. q}
RulesOf(h) == UNION {h[k].rules : k \in DOMAIN h}

LEMMA SeenProps ==
  ASSUME NEW h, \A k \in DOMAIN h : Exact(h[k]), NEW arr, Lists(arr, DOMAIN h),
         NEW q \in 0 .. Len(arr)
  PROVE  /\ Len(arr) \in Nat /\ DOMAIN arr = 1 .. Len(arr) /\ q \in Nat
         /\ RulesOf(h) \in SUBSET Rules /\ Seen(h, arr, q) \in SUBSET RulesOf(h)
         /\ Seen(h, arr, 0) = {}
         /\ q < Len(arr) => /\ arr[q + 1] \in DOMAIN h
                            /\ Seen(h, arr, q + 1) = Seen(h, arr, q) \cup h[arr[q + 1]].rules
PROOF
  <1>1. Len(arr) \in Nat /\ DOMAIN arr = 1 .. Len(arr) /\ q \in Nat
        /\ \A i \in DOMAIN arr : arr[i] \in DOMAIN h
    BY DEF Lists
  <1>2. RulesOf(h) \in SUBSET Rules
    BY TableType DEF Exact, RulesOf
  <1>3. Seen(h, arr, q) \in SUBSET RulesOf(h)
    BY <1>1 DEF Seen, RulesOf
  <1>4. Seen(h, arr, 0) = {}
    BY DEF Seen
  <1>5. 1 .. q + 1 = 1 .. q \cup {q + 1}
    BY <1>1
  <1>6. q < Len(arr) => q + 1 \in DOMAIN arr
    BY <1>1
  <1>7. Seen(h, arr, q + 1) = Seen(h, arr, q) \cup h[arr[q + 1]].rules
    BY <1>5 DEF Seen
  <1> QED BY <1>1, <1>2, <1>3, <1>4, <1>6, <1>7

\* When the next table is no better than x, nor is anything left in the vector.
LEMMA EarlyEnd ==
  ASSUME NEW h, \A k \in DOMAIN h : Exact(h[k]),
         NEW arr, Lists(arr, DOMAIN h), Descends(h, arr),
         NEW q \in 0 .. Len(arr), NEW x \in Int,
         q < Len(arr) => x >= h[arr[q + 1]].maxPriority
  PROVE  \A r \in RulesOf(h) : r \in Seen(h, arr, q) \/ Prio[r] <= x
PROOF
  <1>1. Len(arr) \in Nat /\ DOMAIN arr = 1 .. Len(arr) /\ q \in Nat
    BY SeenProps
  <1> SUFFICES ASSUME NEW r \in RulesOf(h), r \notin Seen(h, arr, q) PROVE Prio[r] <= x
    OBVIOUS
  <1>2. PICK k \in DOMAIN h : r \in h[k].rules
    BY DEF RulesOf
  <1>3. PICK i \in DOMAIN arr : arr[i] = k
    BY DEF Lists
  <1>4. i \in Nat /\ i >= q + 1 /\ q < Len(arr) /\ q + 1 \in DOMAIN arr
    <2>1. i \notin 1 .. q
      BY <1>2, <1>3 DEF Seen
    <2> QED BY <1>1, <1>3, <2>1
  <1>5. arr[q + 1] \in DOMAIN h
    BY <1>4 DEF Lists
  <1>6. /\ h[k].maxPriority \in Int /\ h[arr[q + 1]].maxPriority \in Int
        /\ Prio[r] \in Nat /\ Prio[r] <= h[k].maxPriority
    <2>1. /\ h[k].rules \in SUBSET Rules /\ h[k].maxPriority = Top(h[k].rules)
          /\ h[k].maxPriority \in Nat \cup {-1}
          /\ h[arr[q + 1]].maxPriority \in Nat \cup {-1}
      BY <1>5, TableType DEF Exact
    <2>2. IsTop(h[k].maxPriority, h[k].rules)
      BY <2>1, TopExists
    <2> QED BY <1>2, <2>1, <2>2, PrioType DEF IsTop
  <1>7. h[arr[q + 1]].maxPriority >= h[k].maxPriority
    <2>1. CASE i = q + 1
      BY <1>3, <1>6, <2>1
    <2>2. CASE i # q + 1
      BY <1>1, <1>3, <1>4, <2>2 DEF Descends
    <2> QED BY <2>1, <2>2
  <1> QED BY <1>4, <1>6, <1>7

----------------------------------------------------------------------------
(***************************************************************************)
(* The inductive invariant.                                                *)
(***************************************************************************)

GoodTables(h) ==
  /\ \A t \in DOMAIN h : t \in Nat /\ t # 0 /\ Exact(h[t]) /\ FitsAll(h[t])
  /\ \A t, u \in DOMAIN h : h[t].lengths = h[u].lengths => t = u

VectorGood == Lists(tables, DOMAIN table) /\ Descends(table, tables)

ScanTyped ==
  scan = NoScan \/ scan \in [packet : Packets, q : 0 .. Len(tables), prior : Nat]

ScanBest == scan # NoScan =>
              scan.prior = Best({r \in Probed : Matches(r, scan.packet)})

Inv == GoodTables(table) /\ VectorGood /\ AssignmentExact /\ ScanTyped /\ ScanBest

LEMMA TableProps ==
  ASSUME Inv
  PROVE  /\ Stored = RulesOf(table) /\ Stored \in SUBSET Rules
         /\ \A t \in DOMAIN table : /\ t \in Nat /\ t # 0 /\ Exact(table[t]) /\ FitsAll(table[t])
                                    /\ table[t].lengths \in Lengths
                                    /\ table[t].rules \in SUBSET Rules
                                    /\ table[t].rules \in SUBSET Stored
                                    /\ \A r \in table[t].rules : assignments[r] = t
         /\ DOMAIN assignments = Stored
         /\ Len(tables) \in Nat /\ DOMAIN tables = 1 .. Len(tables)
         /\ \A i \in DOMAIN tables : tables[i] \in DOMAIN table
PROOF
  <1>1. \A t \in DOMAIN table : t \in Nat /\ t # 0 /\ Exact(table[t]) /\ FitsAll(table[t])
    BY DEF Inv, GoodTables
  <1>2. \A t \in DOMAIN table : table[t].lengths \in Lengths /\ table[t].rules \in SUBSET Rules
    BY <1>1, TableType DEF Exact
  <1>3. Stored \in SUBSET Rules /\ \A t \in DOMAIN table : table[t].rules \in SUBSET Stored
    BY <1>2 DEF Stored
  <1>4. /\ DOMAIN assignments = Stored
        /\ \A t \in DOMAIN table : \A r \in table[t].rules : assignments[r] = t
    BY DEF Inv, AssignmentExact
  <1>5. Len(tables) \in Nat /\ DOMAIN tables = 1 .. Len(tables)
        /\ \A i \in DOMAIN tables : tables[i] \in DOMAIN table
    BY ListsCount DEF Inv, VectorGood, Lists
  <1> QED BY <1>1, <1>2, <1>3, <1>4, <1>5 DEF Stored, RulesOf

\* Inv after an update that leaves the tables h.
LEMMA Join ==
  ASSUME NEW h, GoodTables(h), table' = h, scan' = NoScan,
         Lists(tables', DOMAIN h), Descends(h, tables'),
         DOMAIN assignments' = RulesOf(h),
         \A t \in DOMAIN h : \A r \in h[t].rules : assignments'[r] = t
  PROVE  Inv' /\ Stored' = RulesOf(h)
PROOF
  <1>1. Stored' = RulesOf(h)
    BY DEF Stored, RulesOf
  <1>2. GoodTables(table)' /\ VectorGood'
    BY DEF GoodTables, VectorGood
  <1>3. AssignmentExact'
    BY <1>1 DEF AssignmentExact
  <1>4. ScanTyped' /\ ScanBest'
    BY DEF ScanTyped, ScanBest
  <1> QED BY <1>1, <1>2, <1>3, <1>4 DEF Inv

----------------------------------------------------------------------------
(***************************************************************************)
(* Addresses and lengths.                                                  *)
(***************************************************************************)

\* There is always an address left.
LEMMA AddressNew ==
  ASSUME Inv
  PROVE  Address \in Nat /\ Address # 0 /\ Address \notin DOMAIN table
PROOF
  <1> DEFINE D == DOMAIN table  n == Cardinality(D)
  <1>1. IsFiniteSet(D) /\ n \in Nat
    BY ListsCount DEF Inv, VectorGood
  <1>2. ~(1 .. n + 1 \subseteq D)
    <2>1. Cardinality(1 .. n + 1) = n + 1
      BY <1>1, FS_Interval
    <2>2. ASSUME 1 .. n + 1 \subseteq D PROVE Cardinality(1 .. n + 1) <= n
      BY <1>1, <2>2, FS_Subset
    <2> HIDE DEF n, D
    <2> QED BY <1>1, <2>1, <2>2
  <1>3. Address \in 1 .. n + 1 /\ Address \notin D
    BY <1>2 DEF Address
  <1> HIDE DEF n, D
  <1>4. Address \in Nat /\ Address # 0
    BY <1>1, <1>3
  <1> QED BY <1>3, <1>4 DEF D

LEMMA IndexedField ==
  ASSUME NEW r \in Rules, NEW f \in Indexed
  PROVE  PrefixLen[r][f] \in Nat /\ f \in Fields
BY TableAssumption, PrefixAssumption

\* A rule's own lengths, relaxed, are no longer than they were.
LEMMA RelaxFits ==
  ASSUME MergeAssumption, NEW r \in Rules
  PROVE  Relax(r) \in Lengths /\ CanInsert(Relax(r), r)
PROOF
  <1> DEFINE delta == PrefixLen[r][0] - PrefixLen[r][1]
             drop(f) == \/ f = 0 /\ -delta > deltaThreshold
                        \/ f = 1 /\ delta > deltaThreshold
             kept == [f \in Indexed |-> IF drop(f) THEN 0 ELSE PrefixLen[r][f]]
  <1>1. Relax(r) = [f \in Indexed |-> Shorten(kept[f], f)]
    BY DEF Relax
  <1>2. ASSUME NEW f \in Indexed PROVE kept[f] \in Nat /\ kept[f] <= PrefixLen[r][f]
    <2>1. PrefixLen[r][f] \in Nat
      BY IndexedField
    <2> HIDE DEF drop
    <2>2. kept[f] = IF drop(f) THEN 0 ELSE PrefixLen[r][f]
      OBVIOUS
    <2> HIDE DEF kept
    <2> QED BY <2>1, <2>2
  <1> HIDE DEF kept
  <1>3. ASSUME NEW len \in Nat, NEW f
        PROVE  Shorten(len, f) \in Nat /\ Shorten(len, f) <= len
    <2>1. CASE len = 0
      BY <2>1 DEF Shorten
    <2>2. CASE len # 0
      <3> DEFINE n == (len - 1) \div Quarter
      <3>1. n \in Nat /\ n <= len - 1
        <4>1. Quarter \in Nat /\ Quarter > 0 /\ len - 1 \in Nat
          BY <2>2 DEF MergeAssumption
        <4> DEFINE a == len - 1
        <4> HIDE DEF a
        <4>2. a \in Nat => a \div Quarter \in Nat /\ a \div Quarter <= a
          BY <4>1
        <4> QED BY <4>1, <4>2 DEF a
      <3>2. Shorten(len, f) = len - (n + 1) \/ Shorten(len, f) = len - n
        BY <2>2 DEF Shorten
      <3> HIDE DEF n
      <3> QED BY <3>1, <3>2
    <2> QED BY <2>1, <2>2
  <1>4. ASSUME NEW f \in Indexed
        PROVE  Shorten(kept[f], f) \in Nat /\ Shorten(kept[f], f) <= PrefixLen[r][f]
    <2>1. kept[f] \in Nat /\ kept[f] <= PrefixLen[r][f] /\ PrefixLen[r][f] \in Nat
      BY <1>2, IndexedField
    <2>2. Shorten(kept[f], f) \in Nat /\ Shorten(kept[f], f) <= kept[f]
      BY <1>3, <2>1
    <2> QED BY <2>1, <2>2
  <1> QED BY <1>1, <1>4 DEF Lengths, CanInsert

\* Half-way between lengths there are.
LEMMA SplitType ==
  ASSUME NEW S \in SUBSET Rules, S # {}
  PROVE  SplitLengths(S) \in Lengths
PROOF
  <1>1. IsFiniteSet(S)
    BY PrioType
  <1>2. ASSUME NEW f \in Indexed PROVE Greatest(S, f) \in Nat /\ Least(S, f) \in Nat
    <2> DEFINE Up == [r \in S |-> PrefixLen[r][f]]
               Down == [r \in S |-> -PrefixLen[r][f]]
    <2>1. \A r \in S : PrefixLen[r][f] \in Nat
      BY IndexedField
    <2>2. \A r \in S : Up[r] = PrefixLen[r][f] /\ Down[r] = -PrefixLen[r][f]
      OBVIOUS
    <2> HIDE DEF Up, Down
    <2>3. \A r \in S : Up[r] \in Int /\ Down[r] \in Int
      BY <2>1, <2>2
    <2>4. PICK m \in S : \A r \in S : Up[r] <= Up[m]
      BY <1>1, <2>3, SomeBest
    <2>5. PICK n \in S : \A r \in S : Down[r] <= Down[n]
      BY <1>1, <2>3, SomeBest
    <2>6. \A r \in S : PrefixLen[m][f] >= PrefixLen[r][f] /\ PrefixLen[n][f] <= PrefixLen[r][f]
      BY <2>1, <2>2, <2>4, <2>5
    <2>7. Greatest(S, f) \in {PrefixLen[r][f] : r \in S}
      BY <2>6 DEF Greatest
    <2>8. Least(S, f) \in {PrefixLen[r][f] : r \in S}
      BY <2>6 DEF Least
    <2> QED BY <2>1, <2>7, <2>8
  <1>3. ASSUME NEW f \in Indexed
        PROVE  (IF f = BestField(S) THEN (Greatest(S, f) + Least(S, f)) \div 2
                ELSE Least(S, f)) \in Nat
    <2>1. Greatest(S, f) \in Nat /\ Least(S, f) \in Nat
      BY <1>2
    <2> QED BY <2>1
  <1> QED BY <1>3 DEF SplitLengths, Lengths

LEMMA FirstTableProps ==
  ASSUME Inv, NEW r \in Rules
  PROVE  /\ FirstTable(r) # 0 => /\ FirstTable(r) \in DOMAIN table
                                 /\ CanInsert(table[FirstTable(r)].lengths, r)
         /\ FirstTable(r) = 0 => \A t \in DOMAIN table : ~CanInsert(table[t].lengths, r)
PROOF
  <1> DEFINE fit == {i \in DOMAIN tables : CanInsert(table[tables[i]].lengths, r)}
             n == CHOOSE i \in fit : \A j \in fit : i <= j
  <1>1. FirstTable(r) = IF fit = {} THEN 0 ELSE tables[n]
    BY DEF FirstTable
  <1>2. /\ Len(tables) \in Nat /\ fit \in SUBSET (1 .. Len(tables))
        /\ \A i \in DOMAIN tables : tables[i] \in DOMAIN table /\ tables[i] # 0
    BY TableProps
  <1>3. CASE fit = {}
    <2>1. ASSUME NEW t \in DOMAIN table PROVE ~CanInsert(table[t].lengths, r)
      <3>1. PICK i \in DOMAIN tables : tables[i] = t
        BY DEF Inv, VectorGood, Lists
      <3> QED BY <1>3, <3>1
    <2> QED BY <1>1, <1>3, <2>1
  <1>4. CASE fit # {}
    <2> HIDE DEF fit
    <2>1. n \in fit
      BY <1>2, <1>4, LeastIndex
    <2> HIDE DEF n
    <2>2. n \in DOMAIN tables /\ CanInsert(table[tables[n]].lengths, r)
      BY <2>1 DEF fit
    <2> QED BY <1>1, <1>2, <1>4, <2>2
  <1> QED BY <1>3, <1>4

----------------------------------------------------------------------------
(***************************************************************************)
(* Inserts.                                                                *)
(***************************************************************************)

\* A rule that fits a table leaves it good.
LEMMA InsertionGood ==
  ASSUME NEW T, Exact(T), FitsAll(T), NEW r \in Rules, CanInsert(T.lengths, r)
  PROVE  LET U == Insertion(T, r) IN
         /\ Exact(U) /\ FitsAll(U) /\ U.lengths = T.lengths /\ U.rules = T.rules \cup {r}
         /\ ~(Prio[r] > T.maxPriority) => U.maxPriority = T.maxPriority
PROOF
  <1> DEFINE U == Insertion(T, r)
  <1>1. /\ Exact(U) /\ U.lengths = T.lengths /\ U.rules = T.rules \cup {r}
        /\ ~(Prio[r] > T.maxPriority) => U.maxPriority = T.maxPriority
    BY InsertionExact
  <1> HIDE DEF U
  <1>2. FitsAll(U)
    BY <1>1 DEF FitsAll, CanInsert
  <1> QED BY <1>1, <1>2 DEF U

\* The insertion into table t when no rule moves.
LEMMA PlainInv ==
  ASSUME Inv, scan' = NoScan, NEW r \in Rules, r \notin Stored,
         NEW t \in DOMAIN table, CanInsert(table[t].lengths, r),
         table' = [table EXCEPT ![t] = Insertion(table[t], r)],
         Assign({r}, t),
         IF Prio[r] > table[t].maxPriority THEN Resort(tables) ELSE tables' = tables
  PROVE  Inv' /\ Stored' = Stored \cup {r}
PROOF
  <1> DEFINE T == table[t]
             U == Insertion(T, r)
             h == [table EXCEPT ![t] = U]
  <1>1. Exact(T) /\ FitsAll(T)
    BY TableProps
  <1>2. /\ Exact(U) /\ FitsAll(U) /\ U.lengths = T.lengths /\ U.rules = T.rules \cup {r}
        /\ ~(Prio[r] > T.maxPriority) => U.maxPriority = T.maxPriority
    <2> HIDE DEF T
    <2> QED BY <1>1, InsertionGood DEF T
  <1> HIDE DEF U
  <1>3. /\ DOMAIN h = DOMAIN table /\ h[t] = U
        /\ \A a \in DOMAIN table : a # t => h[a] = table[a]
    OBVIOUS
  <1>4. table' = h
    BY DEF U
  <1> HIDE DEF h
  <1>5. GoodTables(h)
    BY <1>2, <1>3 DEF Inv, GoodTables
  <1>6. RulesOf(h) = Stored \cup {r}
    BY <1>2, <1>3 DEF RulesOf, Stored
  <1>7. Lists(tables, DOMAIN h) /\ Descends(table, tables)
    BY <1>3 DEF Inv, VectorGood
  <1>8. Lists(tables', DOMAIN h) /\ Descends(h, tables')
    <2>1. CASE Prio[r] > T.maxPriority
      <3>1. tables' \in Sorted(h, tables)
        BY <1>4, <2>1 DEF Resort
      <3> QED BY <1>7, <3>1, SortedLists
    <2>2. CASE ~(Prio[r] > T.maxPriority)
      <3>1. \A a \in DOMAIN h : h[a].maxPriority = table[a].maxPriority
        BY <1>2, <1>3, <2>2
      <3>2. Descends(h, tables)
        BY <1>7, <3>1, DescendsStill
      <3> QED BY <1>7, <2>2, <3>2
    <2> QED BY <2>1, <2>2
  <1>9. assignments' = [q \in Stored \cup {r} |-> IF q = r THEN t ELSE assignments[q]]
    BY TableProps DEF Assign
  <1>10. ASSUME NEW a \in DOMAIN h, NEW q \in h[a].rules PROVE assignments'[q] = a
    <2>1. q = r => a = t
      BY <1>3, <1>10 DEF Stored
    <2>2. q # r => q \in table[a].rules /\ a \in DOMAIN table
      BY <1>2, <1>3, <1>10
    <2>3. q \in Stored \cup {r}
      BY <2>2 DEF Stored
    <2> QED BY <1>9, <2>1, <2>2, <2>3, TableProps
  <1>11. DOMAIN assignments' = RulesOf(h)
    BY <1>6, <1>9
  <1> QED BY <1>4, <1>5, <1>6, <1>8, <1>10, <1>11, Join

\* What a split leaves of the two tables.
LEMMA LightenExact ==
  ASSUME NEW T, Exact(T), FitsAll(T), NEW S \in SUBSET T.rules
  PROVE  LET U == Lighten(T, S) IN
         Exact(U) /\ FitsAll(U) /\ U.lengths = T.lengths /\ U.rules = T.rules \ S
PROOF
  <1> DEFINE U == Lighten(T, S)
             rest == T.rules \ S
             best == IF T.rules \subseteq S THEN -1 ELSE Top(T.rules \ S)
  <1>1. T \in Table /\ T.lengths \in Lengths /\ T.rules \in SUBSET Rules
    BY TableType DEF Exact
  <1>2. best = Top(rest)
    <2>1. T.rules \subseteq S => rest = {}
      OBVIOUS
    <2> QED BY <2>1, TopEmpty
  <1>3. rest \in SUBSET Rules /\ best \in Nat \cup {-1}
    BY <1>1, <1>2, TopExists
  <1>4. U = [T EXCEPT !.rules = rest, !.maxPriority = best]
    BY DEF Lighten
  <1> HIDE DEF U, best, rest
  <1>5. U \in Table /\ U.lengths = T.lengths /\ U.rules = rest /\ U.maxPriority = best
    BY <1>1, <1>3, <1>4 DEF Table
  <1>6. FitsAll(U)
    BY <1>5 DEF FitsAll, rest
  <1> QED BY <1>2, <1>5, <1>6 DEF Exact, U, rest

LEMMA TakeExact ==
  ASSUME NEW T, Exact(T), FitsAll(T), NEW S \in SUBSET Rules, \A q \in S : CanInsert(T.lengths, q)
  PROVE  LET U == Take(T, S) IN
         /\ Exact(U) /\ FitsAll(U) /\ U.lengths = T.lengths /\ U.rules = T.rules \cup S
         /\ ~(Top(S) > T.maxPriority) => U.maxPriority = T.maxPriority
PROOF
  <1> DEFINE U == Take(T, S)
             more == T.rules \cup S
             best == IF Top(S) > T.maxPriority THEN Top(S) ELSE T.maxPriority
  <1>1. /\ T \in Table /\ T.lengths \in Lengths /\ T.rules \in SUBSET Rules
        /\ T.maxPriority = Top(T.rules)
    BY TableType DEF Exact
  <1>2. best = Top(more)
    BY <1>1, TopUnion
  <1>3. more \in SUBSET Rules /\ best \in Nat \cup {-1}
    BY <1>1, <1>2, TopExists
  <1>4. U = [T EXCEPT !.rules = more, !.maxPriority = best]
    BY DEF Take
  <1>5. ~(Top(S) > T.maxPriority) => best = T.maxPriority
    OBVIOUS
  <1> HIDE DEF U, best, more
  <1>6. U \in Table /\ U.lengths = T.lengths /\ U.rules = more /\ U.maxPriority = best
    BY <1>1, <1>3, <1>4 DEF Table
  <1>7. FitsAll(U)
    BY <1>6 DEF FitsAll, CanInsert, more
  <1> QED BY <1>2, <1>5, <1>6, <1>7 DEF Exact, U, more

\* A table that is good and not among others: the new target of a split, or a table of h.
Target(target, to, new) ==
  /\ to \in Nat /\ to # 0 /\ Exact(target) /\ FitsAll(target) /\ new \in BOOLEAN
  /\ new => /\ to \notin DOMAIN table /\ target.rules = {} /\ target.maxPriority = -1
            /\ \A a \in DOMAIN table : table[a].lengths # target.lengths
  /\ ~new => to \in DOMAIN table /\ target = table[to]

LEMMA MoveInv ==
  ASSUME Inv, scan' = NoScan, NEW r \in Rules, r \notin Stored,
         NEW t \in DOMAIN table, CanInsert(table[t].lengths, r),
         NEW to, NEW new, NEW target, Target(target, to, new), to # t,
         Move(r, t, Insertion(table[t], r), new, to, target)
  PROVE  Inv' /\ Stored' = Stored \cup {r}
PROOF
  <1> DEFINE T == Insertion(table[t], r)
             S == Moved(T, target.lengths)
             list == IF new THEN Append(tables, to) ELSE tables
             L == Lighten(T, S)
             K == Take(target, S)
             h == Parted(t, T, S, to, target)
             hasChanged == \/ Prio[r] > table[t].maxPriority
                           \/ L.maxPriority # T.maxPriority
                           \/ Top(S) > target.maxPriority
  <1>1. /\ table' = h
        /\ Reassign(r, t, S, to)
        /\ IF hasChanged THEN tables' \in Sorted(h, list) ELSE tables' = list
    BY DEF Move, Resort
  <1>2. Exact(table[t]) /\ FitsAll(table[t])
    BY TableProps
  <1>3. /\ Exact(T) /\ FitsAll(T) /\ T.lengths = table[t].lengths
        /\ T.rules = table[t].rules \cup {r}
        /\ ~(Prio[r] > table[t].maxPriority) => T.maxPriority = table[t].maxPriority
    BY <1>2, InsertionGood
  <1>4. Exact(target) /\ FitsAll(target) /\ to \in Nat /\ to # 0
    BY DEF Target
  <1> HIDE DEF T
  <1>5. S \in SUBSET T.rules /\ S \in SUBSET Rules /\ \A q \in S : CanInsert(target.lengths, q)
    BY <1>3, TableType DEF Moved, Exact
  <1> HIDE DEF S
  <1>6. Exact(L) /\ FitsAll(L) /\ L.lengths = table[t].lengths
        /\ L.rules = (table[t].rules \cup {r}) \ S
    BY <1>3, <1>5, LightenExact
  <1>7. /\ Exact(K) /\ FitsAll(K) /\ K.lengths = target.lengths
        /\ K.rules = target.rules \cup S
        /\ ~(Top(S) > target.maxPriority) => K.maxPriority = target.maxPriority
    BY <1>4, <1>5, TakeExact
  <1>8. /\ DOMAIN h = DOMAIN table \cup {to} /\ h[t] = L /\ h[to] = K
        /\ \A a \in DOMAIN table : a # t /\ a # to => h[a] = table[a]
    <2> HIDE DEF L, K
    <2> QED BY DEF Parted, L, K
  <1> HIDE DEF h, L, K
  <1>9. GoodTables(h)
    <2>1. \A a \in DOMAIN table : /\ a \in Nat /\ a # 0 /\ Exact(table[a]) /\ FitsAll(table[a])
                                  /\ \A b \in DOMAIN table :
                                       table[a].lengths = table[b].lengths => a = b
      BY DEF Inv, GoodTables
    <2>2. \A a \in DOMAIN h : a \in Nat /\ a # 0 /\ Exact(h[a]) /\ FitsAll(h[a])
      BY <1>4, <1>6, <1>7, <1>8, <2>1
    <2>3. \A a \in DOMAIN table : h[a].lengths = table[a].lengths
      <3>1. \A a \in DOMAIN table : a = to => target.lengths = table[a].lengths
        BY DEF Target
      <3> QED BY <1>6, <1>7, <1>8, <3>1
    <2>4. \A a \in DOMAIN table : h[a].lengths = h[to].lengths => a = to
      <3>1. CASE new
        BY <1>7, <1>8, <2>3, <3>1 DEF Target
      <3>2. CASE ~new
        BY <2>1, <2>3, <3>2 DEF Target
      <3> QED BY <3>1, <3>2
    <2> QED BY <1>8, <2>1, <2>2, <2>3, <2>4 DEF GoodTables
  <1>10. \A a \in DOMAIN table : a = to => target.rules = table[a].rules
    BY DEF Target
  <1>11. RulesOf(h) = Stored \cup {r}
    <2>1. ASSUME NEW q \in RulesOf(h) PROVE q \in Stored \cup {r}
      <3>1. PICK a \in DOMAIN h : q \in h[a].rules
        BY DEF RulesOf
      <3>2. \A b \in DOMAIN table : table[b].rules \subseteq Stored
        BY DEF Stored
      <3>3. target.rules \subseteq Stored
        BY <3>2 DEF Target
      <3> QED BY <1>3, <1>5, <1>6, <1>7, <1>8, <3>1, <3>2, <3>3
    <2>2. ASSUME NEW q \in Stored \cup {r} PROVE q \in RulesOf(h)
      <3>1. CASE q \in S
        BY <1>7, <1>8, <3>1 DEF RulesOf
      <3>2. CASE q \notin S
        <4>1. PICK a \in DOMAIN table : q \in table[a].rules \/ (q = r /\ a = t)
          BY DEF Stored
        <4>2. q \in h[a].rules
          BY <1>6, <1>7, <1>8, <1>10, <3>2, <4>1
        <4> QED BY <1>8, <4>2 DEF RulesOf
      <3> QED BY <3>1, <3>2
    <2> QED BY <2>1, <2>2
  <1>12. assignments' = [q \in Stored \cup {r} |->
                           IF q \in S THEN to ELSE IF q = r THEN t ELSE assignments[q]]
    BY <1>1, TableProps DEF Reassign
  <1>13. ASSUME NEW a \in DOMAIN h, NEW q \in h[a].rules PROVE assignments'[q] = a
    <2>1. \A b \in DOMAIN table : \A p \in table[b].rules :
            assignments[p] = b /\ p # r /\ p \in Stored
      BY TableProps DEF Stored
    <2>2. q \in Stored \cup {r}
      BY <1>11 DEF RulesOf
    <2>3. assignments'[q] = IF q \in S THEN to ELSE IF q = r THEN t ELSE assignments[q]
      BY <1>12, <2>2
    <2>4. CASE a = t
      BY <1>6, <1>8, <2>1, <2>3, <2>4
    <2>5. CASE a = to
      <3>1. q \in S \/ q \in target.rules
        BY <1>7, <1>8, <2>5
      <3>2. q \in target.rules => to \in DOMAIN table /\ q \in table[to].rules
        BY DEF Target
      <3> QED BY <2>1, <2>3, <2>5, <3>1, <3>2
    <2>6. CASE a # t /\ a # to
      <3>1. a \in DOMAIN table /\ q \in table[a].rules
        BY <1>8, <2>6
      <3>2. q \notin S
        BY <1>3, <1>5, <2>1, <2>6, <3>1
      <3> QED BY <2>1, <2>3, <3>1, <3>2
    <2> QED BY <2>4, <2>5, <2>6
  <1>14. Lists(tables, DOMAIN table) /\ Descends(table, tables)
    BY DEF Inv, VectorGood
  <1>15. Lists(list, DOMAIN h)
    <2>1. CASE new
      BY <1>8, <1>14, <2>1, AppendLists DEF Target
    <2>2. CASE ~new
      <3>1. DOMAIN h = DOMAIN table
        BY <1>8, <2>2 DEF Target
      <3> QED BY <1>14, <2>2, <3>1
    <2> QED BY <2>1, <2>2
  <1>16. ASSUME ~hasChanged PROVE Descends(h, list)
    <2>1. L.maxPriority = table[t].maxPriority /\ K.maxPriority = target.maxPriority
      BY <1>3, <1>7, <1>16
    <2>2. \A a \in DOMAIN table : h[a].maxPriority = table[a].maxPriority
      <3>1. \A a \in DOMAIN table : a = to => target.maxPriority = table[a].maxPriority
        BY DEF Target
      <3> QED BY <1>8, <2>1, <3>1
    <2>3. CASE new
      <3>1. to \notin DOMAIN table /\ h[to].maxPriority = -1
        BY <1>8, <2>1, <2>3 DEF Target
      <3>2. \A a \in DOMAIN table : table[a].maxPriority >= -1
        BY TableProps, TableType DEF Exact
      <3>3. Descends(h, Append(tables, to))
        BY <1>14, <2>2, <3>1, <3>2, DescendsAppend
      <3> QED BY <2>3, <3>3
    <2>4. CASE ~new
      BY <1>14, <2>2, <2>4, DescendsStill
    <2> QED BY <2>3, <2>4 DEF Target
  <1> HIDE DEF list
  <1>17. Lists(tables', DOMAIN h) /\ Descends(h, tables')
    <2>1. CASE hasChanged
      <3>1. tables' \in Sorted(h, list)
        BY <1>1, <2>1
      <3> QED BY <1>15, <3>1, SortedLists
    <2>2. CASE ~hasChanged
      <3>1. tables' = list
        BY <1>1, <2>2
      <3> QED BY <1>15, <1>16, <2>2, <3>1
    <2> QED BY <2>1, <2>2
  <1>18. DOMAIN assignments' = RulesOf(h)
    BY <1>11, <1>12
  <1> QED BY <1>1, <1>9, <1>11, <1>13, <1>17, <1>18, Join

LEMMA InsertPlainInv ==
  ASSUME Inv, scan' = NoScan, NEW r \in Rules, r \notin Stored,
         NEW t \in DOMAIN table, CanInsert(table[t].lengths, r), InsertPlain(r, t)
  PROVE  Inv' /\ Stored' = Stored \cup {r}
PROOF
  <1>1. /\ table' = [table EXCEPT ![t] = Insertion(table[t], r)] /\ Assign({r}, t)
        /\ IF Prio[r] > table[t].maxPriority THEN Resort(tables) ELSE tables' = tables
    BY DEF InsertPlain
  <1> HIDE DEF Inv, Stored
  <1> QED BY <1>1, PlainInv

LEMMA InsertSplitInv ==
  ASSUME Inv, scan' = NoScan, NEW r \in Rules, r \notin Stored,
         NEW t \in DOMAIN table, CanInsert(table[t].lengths, r), InsertSplit(r, t)
  PROVE  Inv' /\ Stored' = Stored \cup {r}
PROOF
  <1> DEFINE T == Insertion(table[t], r)
             len == SplitLengths(Collisions(T, r))
             same == {i \in DOMAIN tables : table[tables[i]].lengths = len}
             n == CHOOSE i \in same : \A j \in same : i <= j
             to == tables[n]
  <1>1. /\ same # {}
        /\ IF to # t THEN Move(r, t, T, FALSE, to, table[to])
           ELSE /\ table' = [table EXCEPT ![t] = T]
                /\ Assign({r}, t)
                /\ IF Prio[r] > table[t].maxPriority THEN Resort(tables) ELSE tables' = tables
    BY DEF InsertSplit
  <1>2. CASE to = t
    <2> HIDE DEF Inv, Stored, to
    <2> QED BY <1>1, <1>2, PlainInv
  <1>3. CASE to # t
    <2>1. /\ Len(tables) \in Nat /\ same \in SUBSET (1 .. Len(tables))
          /\ \A i \in DOMAIN tables : tables[i] \in DOMAIN table
          /\ \A i \in same : i \in DOMAIN tables
      BY TableProps
    <2> HIDE DEF same
    <2>2. n \in same
      BY <1>1, <2>1, LeastIndex
    <2> HIDE DEF n
    <2>3. to \in DOMAIN table
      BY <2>1, <2>2
    <2> HIDE DEF to
    <2>4. Target(table[to], to, FALSE)
      BY <2>3, TableProps DEF Target
    <2>5. Move(r, t, T, FALSE, to, table[to])
      BY <1>1, <1>3
    <2> HIDE DEF Inv, Stored
    <2> QED BY <1>3, <2>4, <2>5, MoveInv
  <1> QED BY <1>2, <1>3

LEMMA InsertSplitNewInv ==
  ASSUME Inv, scan' = NoScan, NEW r \in Rules, r \notin Stored,
         NEW t \in DOMAIN table, CanInsert(table[t].lengths, r), InsertSplitNew(r, t)
  PROVE  Inv' /\ Stored' = Stored \cup {r}
PROOF
  <1> DEFINE T == Insertion(table[t], r)
             C == Collisions(T, r)
             len == SplitLengths(C)
  <1>1. /\ \A a \in DOMAIN table : table[a].lengths # len
        /\ Move(r, t, T, TRUE, Address, NewTable(len))
    BY DEF InsertSplitNew
  <1>2. len \in Lengths
    <2>1. Exact(T) /\ T.rules = table[t].rules \cup {r}
      BY TableProps, InsertionGood
    <2>2. C \in SUBSET Rules /\ r \in C
      BY <2>1, TableType DEF Exact, Collisions, Chain
    <2> HIDE DEF C
    <2> QED BY <2>2, SplitType
  <1> HIDE DEF len
  <1>3. /\ Exact(NewTable(len)) /\ NewTable(len).lengths = len
        /\ NewTable(len).rules = {} /\ NewTable(len).maxPriority = -1
    BY <1>2, NewTableExact
  <1>4. FitsAll(NewTable(len))
    BY <1>3 DEF FitsAll
  <1>5. Address \in Nat /\ Address # 0 /\ Address \notin DOMAIN table
    BY AddressNew
  <1>6. Target(NewTable(len), Address, TRUE)
    BY <1>1, <1>3, <1>4, <1>5 DEF Target
  <1>7. Address # t
    BY <1>5
  <1> HIDE DEF Inv, Stored
  <1> QED BY <1>1, <1>6, <1>7, MoveInv

LEMMA InsertNewTableInv ==
  ASSUME MergeAssumption, Inv, scan' = NoScan, NEW r \in Rules, r \notin Stored,
         \A t \in DOMAIN table : ~CanInsert(table[t].lengths, r), InsertNewTable(r)
  PROVE  Inv' /\ Stored' = Stored \cup {r}
PROOF
  <1> DEFINE to == Address
             N == NewTable(Relax(r))
             U == Insertion(N, r)
             h == [a \in DOMAIN table \cup {to} |-> IF a = to THEN U ELSE table[a]]
             list == Append(tables, to)
  <1>1. table' = h /\ Assign({r}, to) /\ tables' \in Sorted(h, list)
    BY DEF InsertNewTable, Resort
  <1>2. to \in Nat /\ to # 0 /\ to \notin DOMAIN table
    BY AddressNew
  <1>3. Relax(r) \in Lengths /\ CanInsert(Relax(r), r)
    BY RelaxFits
  <1>4. Exact(N) /\ N.lengths = Relax(r) /\ N.rules = {}
    BY <1>3, NewTableExact
  <1>5. FitsAll(N)
    BY <1>4 DEF FitsAll
  <1> HIDE DEF N
  <1>6. Exact(U) /\ FitsAll(U) /\ U.lengths = Relax(r) /\ U.rules = {r}
    BY <1>3, <1>4, <1>5, InsertionGood
  <1> HIDE DEF U, to
  <1>7. /\ DOMAIN h = DOMAIN table \cup {to} /\ h[to] = U
        /\ \A a \in DOMAIN table : h[a] = table[a]
    BY <1>2
  <1> HIDE DEF h
  <1>8. GoodTables(h)
    <2>1. \A a \in DOMAIN table : table[a].lengths # Relax(r)
      BY <1>3
    <2> QED BY <1>2, <1>6, <1>7, <2>1 DEF Inv, GoodTables
  <1>9. RulesOf(h) = Stored \cup {r}
    BY <1>2, <1>6, <1>7 DEF RulesOf, Stored
  <1>10. Lists(tables', DOMAIN h) /\ Descends(h, tables')
    <2>1. Lists(list, DOMAIN h)
      BY <1>2, <1>7, AppendLists DEF Inv, VectorGood
    <2> HIDE DEF list
    <2> QED BY <1>1, <2>1, SortedLists
  <1>11. assignments' = [q \in Stored \cup {r} |-> IF q = r THEN to ELSE assignments[q]]
    BY <1>1, TableProps DEF Assign
  <1>12. ASSUME NEW a \in DOMAIN h, NEW q \in h[a].rules PROVE assignments'[q] = a
    <2>1. CASE a = to
      BY <1>6, <1>7, <1>11, <2>1
    <2>2. CASE a # to
      <3>1. a \in DOMAIN table /\ q \in table[a].rules
        BY <1>7, <2>2
      <3>2. q # r /\ q \in Stored /\ assignments[q] = a
        BY <3>1, TableProps DEF Stored
      <3> QED BY <1>11, <3>2
    <2> QED BY <2>1, <2>2
  <1>13. DOMAIN assignments' = RulesOf(h)
    BY <1>9, <1>11
  <1> QED BY <1>1, <1>8, <1>9, <1>10, <1>12, <1>13, Join

LEMMA InsertRuleInv ==
  ASSUME MergeAssumption, Inv, NEW r \in Rules, InsertRule(r)
  PROVE  Inv' /\ r \notin Stored /\ Stored' = Stored \cup {r} /\ answer' = <<>>
PROOF
  <1> DEFINE t == FirstTable(r)
  <1>1. /\ scan' = NoScan /\ r \notin Stored /\ answer' = <<>>
        /\ \/ t # 0 /\ (InsertPlain(r, t) \/ InsertSplit(r, t) \/ InsertSplitNew(r, t))
           \/ t = 0 /\ InsertNewTable(r)
    BY DEF InsertRule
  <1>2. /\ t # 0 => t \in DOMAIN table /\ CanInsert(table[t].lengths, r)
        /\ t = 0 => \A u \in DOMAIN table : ~CanInsert(table[u].lengths, r)
    BY FirstTableProps
  <1> HIDE DEF Inv, Stored, t
  <1>3. CASE t # 0
    <2>1. t \in DOMAIN table /\ CanInsert(table[t].lengths, r)
      BY <1>2, <1>3
    <2>2. CASE InsertPlain(r, t)
      BY <1>1, <2>1, <2>2, InsertPlainInv
    <2>3. CASE InsertSplit(r, t)
      BY <1>1, <2>1, <2>3, InsertSplitInv
    <2>4. CASE InsertSplitNew(r, t)
      BY <1>1, <2>1, <2>4, InsertSplitNewInv
    <2> QED BY <1>1, <1>3, <2>2, <2>3, <2>4
  <1>4. CASE t = 0
    BY <1>1, <1>2, <1>4, InsertNewTableInv
  <1> QED BY <1>3, <1>4

----------------------------------------------------------------------------
(***************************************************************************)
(* Deletes.                                                                *)
(***************************************************************************)
LEMMA DeleteRuleInv ==
  ASSUME Inv, NEW r \in Rules, DeleteRule(r)
  PROVE  Inv' /\ r \in Stored /\ Stored' = Stored \ {r} /\ answer' = <<>>
PROOF
  <1> DEFINE t == assignments[r]
             T == table[t]
             U == Deletion(T, r)
             gone == U.rules = {}
             list == IF gone THEN Erased(tables, t) ELSE tables
             h == IF gone THEN [a \in DOMAIN table \ {t} |-> table[a]]
                  ELSE [table EXCEPT ![t] = U]
  <1>1. /\ scan' = NoScan /\ r \in DOMAIN assignments /\ answer' = <<>>
        /\ table' = h
        /\ \/ tables' \in Sorted(h, list)
           \/ ~DeletionChanges(T, r) /\ tables' = list
        /\ assignments' = [q \in DOMAIN assignments \ {r} |-> assignments[q]]
    BY DEF DeleteRule, Resort
  <1>2. /\ r \in Stored /\ DOMAIN assignments = Stored
        /\ \A a \in DOMAIN table : \A q \in table[a].rules : assignments[q] = a /\ q \in Stored
    BY <1>1, TableProps DEF Stored
  <1>3. t \in DOMAIN table /\ r \in T.rules
    BY <1>2 DEF Stored
  <1>4. Exact(T) /\ FitsAll(T)
    BY <1>3, TableProps
  <1> HIDE DEF T, t
  <1>5. /\ Exact(U) /\ U.lengths = T.lengths /\ U.rules = T.rules \ {r}
        /\ ~DeletionChanges(T, r) => U.maxPriority = T.maxPriority
    BY <1>3, <1>4, DeletionExact
  <1>6. gone => DeletionChanges(T, r)
    BY <1>3, <1>5 DEF DeletionChanges
  <1> HIDE DEF U
  <1>7. FitsAll(U)
    BY <1>4, <1>5 DEF FitsAll
  <1>8. /\ gone => DOMAIN h = DOMAIN table \ {t}
        /\ ~gone => DOMAIN h = DOMAIN table /\ h[t] = U
        /\ \A a \in DOMAIN table : a # t => a \in DOMAIN h /\ h[a] = table[a]
    BY <1>3
  <1> HIDE DEF gone, h
  <1>9. GoodTables(h)
    <2>1. \A a \in DOMAIN h : a \in DOMAIN table /\ h[a].lengths = table[a].lengths
      BY <1>5, <1>8 DEF T
    <2>2. \A a \in DOMAIN h : Exact(h[a]) /\ FitsAll(h[a])
      BY <1>5, <1>7, <1>8 DEF Inv, GoodTables
    <2> QED BY <2>1, <2>2 DEF Inv, GoodTables
  <1>10. \A a \in DOMAIN h : a \in DOMAIN table /\ h[a].rules = table[a].rules \ {r}
    <2>1. \A a \in DOMAIN table : r \in table[a].rules => a = t
      BY <1>2 DEF t
    <2> QED BY <1>5, <1>8, <2>1 DEF T
  <1>11. RulesOf(h) = Stored \ {r}
    <2>1. ASSUME NEW q \in Stored \ {r} PROVE q \in RulesOf(h)
      <3>1. PICK a \in DOMAIN table : q \in table[a].rules
        BY DEF Stored
      <3>2. a \in DOMAIN h
        BY <1>5, <1>8, <3>1 DEF gone, T
      <3> QED BY <1>10, <3>1, <3>2 DEF RulesOf
    <2> QED BY <1>10, <2>1 DEF RulesOf, Stored
  <1>12. Lists(tables, DOMAIN table) /\ Descends(table, tables)
    BY DEF Inv, VectorGood
  <1>13. Lists(list, DOMAIN h)
    <2>1. CASE gone
      <3> DEFINE n == CHOOSE i \in DOMAIN tables : tables[i] = t
      <3>1. n \in DOMAIN tables /\ tables[n] = t
        BY <1>3, <1>12 DEF Lists
      <3>2. list = [i \in 1 .. Len(tables) - 1 |-> IF i < n THEN tables[i] ELSE tables[i + 1]]
        BY <2>1 DEF Erased
      <3> HIDE DEF n, list
      <3>3. Lists(list, DOMAIN table \ {t})
        BY <1>12, <3>1, <3>2, EraseLists
      <3> QED BY <1>8, <2>1, <3>3
    <2>2. CASE ~gone
      BY <1>8, <1>12, <2>2
    <2> QED BY <2>1, <2>2
  <1>14. Lists(tables', DOMAIN h) /\ Descends(h, tables')
    <2>1. CASE tables' \in Sorted(h, list)
      <3> HIDE DEF list
      <3> QED BY <1>13, <2>1, SortedLists
    <2>2. CASE ~DeletionChanges(T, r) /\ tables' = list
      <3>1. ~gone /\ tables' = tables
        BY <1>6, <2>2
      <3>2. \A a \in DOMAIN table : h[a].maxPriority = table[a].maxPriority
        BY <1>5, <1>8, <2>2, <3>1 DEF T
      <3>3. Descends(h, tables)
        BY <1>12, <3>2, DescendsStill
      <3> QED BY <1>13, <2>2, <3>1, <3>3
    <2> QED BY <1>1, <2>1, <2>2
  <1>15. DOMAIN assignments' = RulesOf(h)
    BY <1>1, <1>2, <1>11
  <1>16. ASSUME NEW a \in DOMAIN h, NEW q \in h[a].rules PROVE assignments'[q] = a
    BY <1>1, <1>2, <1>10
  <1>17. Inv' /\ Stored' = RulesOf(h)
    BY <1>1, <1>9, <1>14, <1>15, <1>16, Join
  <1> QED BY <1>1, <1>2, <1>11, <1>17

----------------------------------------------------------------------------
(***************************************************************************)
(* Lookups.                                                                *)
(***************************************************************************)

LEMMA StoreSame ==
  ASSUME Inv, UNCHANGED store, ScanTyped', ScanBest'
  PROVE  Inv' /\ Stored' = Stored
PROOF
  <1>1. table' = table /\ tables' = tables /\ assignments' = assignments
    BY DEF store
  <1>2. GoodTables(table)' /\ VectorGood' /\ AssignmentExact'
    BY <1>1 DEF Inv, GoodTables, VectorGood, AssignmentExact, Stored
  <1> QED BY <1>1, <1>2 DEF Inv, Stored

LEMMA ScanType ==
  ASSUME Inv, scan # NoScan
  PROVE  /\ scan \in [packet : Packets, q : 0 .. Len(tables), prior : Nat]
         /\ scan.packet \in Packets /\ scan.q \in 0 .. Len(tables) /\ scan.q \in Nat
         /\ scan.prior \in Nat /\ Len(tables) \in Nat
         /\ Probed = Seen(table, tables, scan.q) /\ Probed \in SUBSET Stored
         /\ scan.prior = Best({r \in Probed : Matches(r, scan.packet)})
         /\ scan.q < Len(tables) =>
              /\ tables[scan.q + 1] \in DOMAIN table
              /\ Seen(table, tables, scan.q + 1) = Probed \cup table[tables[scan.q + 1]].rules
PROOF
  <1>1. scan \in [packet : Packets, q : 0 .. Len(tables), prior : Nat]
    BY DEF Inv, ScanTyped
  <1>2. scan.packet \in Packets /\ scan.q \in 0 .. Len(tables) /\ scan.prior \in Nat
    BY <1>1
  <1>3. Stored = RulesOf(table) /\ \A t \in DOMAIN table : Exact(table[t])
    BY TableProps
  <1>4. Probed = Seen(table, tables, scan.q)
    BY DEF Probed, Seen
  <1>5. scan.prior = Best({r \in Probed : Matches(r, scan.packet)})
    BY DEF Inv, ScanBest
  <1>6. Lists(tables, DOMAIN table)
    BY DEF Inv, VectorGood
  <1>7. /\ Len(tables) \in Nat /\ scan.q \in Nat
        /\ Seen(table, tables, scan.q) \in SUBSET RulesOf(table)
        /\ scan.q < Len(tables) =>
             /\ tables[scan.q + 1] \in DOMAIN table
             /\ Seen(table, tables, scan.q + 1)
                  = Seen(table, tables, scan.q) \cup table[tables[scan.q + 1]].rules
    BY <1>2, <1>3, <1>6, SeenProps
  <1> QED BY <1>1, <1>2, <1>3, <1>4, <1>5, <1>7

LEMMA ClassifyStartInv ==
  ASSUME Inv, NEW p \in Packets, ClassifyStart(p)
  PROVE  Inv' /\ Stored' = Stored /\ answer' = answer
PROOF
  <1>1. /\ scan' = [packet |-> p, q |-> 0, prior |-> 0]
        /\ UNCHANGED store /\ answer' = answer
    BY DEF ClassifyStart, NoScan
  <1>2. Len(tables) \in Nat /\ tables' = tables
    BY <1>1, TableProps DEF store
  <1>3. ScanTyped'
    BY <1>1, <1>2 DEF ScanTyped
  <1>4. ScanBest'
    <2>1. Probed' = {}
      BY <1>1 DEF Probed
    <2>2. {r \in Probed' : Matches(r, scan'.packet)} = {}
      BY <2>1
    <2> QED BY <1>1, <2>2, TopEmpty DEF ScanBest, Best
  <1> QED BY <1>1, <1>3, <1>4, StoreSame

LEMMA ClassifyProbeInv ==
  ASSUME Inv, ClassifyProbe
  PROVE  Inv' /\ Stored' = Stored /\ answer' = answer
PROOF
  <1> DEFINE i == scan.q + 1
             T == table[tables[i]]
             p == scan.packet
             x == scan.prior
             result == FindMatchPacket(T, p)
             y == IF result > x THEN result ELSE x
             A == {r \in Probed : Matches(r, p)}
             B == {r \in T.rules : Matches(r, p)}
  <1>1. /\ scan # NoScan /\ scan.q < Len(tables) /\ UNCHANGED store /\ answer' = answer
        /\ scan' = [scan EXCEPT !.q = i, !.prior = y]
    BY DEF ClassifyProbe, NextTable, ScanOver
  <1>2. /\ scan \in [packet : Packets, q : 0 .. Len(tables), prior : Nat]
        /\ p \in Packets /\ x \in Nat /\ Len(tables) \in Nat /\ i \in 0 .. Len(tables)
        /\ x = Best(A) /\ tables[i] \in DOMAIN table
        /\ Seen(table, tables, i) = Probed \cup T.rules
        /\ Probed \in SUBSET Stored
    BY <1>1, ScanType
  <1>3. T \in Table /\ T.rules \in SUBSET Rules /\ FitsAll(T) /\ Stored \in SUBSET Rules
    BY <1>2, TableProps DEF Exact
  <1>4. A \in SUBSET Rules /\ B \in SUBSET Rules
    BY <1>2, <1>3
  <1>5. result = Top(B)
    BY <1>2, <1>3, FindExact
  <1>6. y = Best(A \cup B) /\ y \in Nat
    <2> HIDE DEF A, B, result, x
    <2>1. Top(B) \in Nat \cup {-1} /\ Top(A) \in Nat \cup {-1} /\ Top(A) # 0 /\ Top(B) # 0
      BY <1>4, TopExists
    <2>2. Top(A \cup B) = IF Top(B) > Top(A) THEN Top(B) ELSE Top(A)
      BY <1>4, TopUnion
    <2> QED BY <1>2, <1>5, <2>1, <2>2 DEF Best
  <1>7. table' = table /\ tables' = tables
    BY <1>1 DEF store
  <1> HIDE DEF y
  <1>8. scan'.packet = p /\ scan'.prior = y /\ scan'.q = i /\ ScanTyped'
    <2> HIDE DEF i
    <2> QED BY <1>1, <1>2, <1>6, <1>7 DEF ScanTyped
  <1>9. Probed' = Probed \cup T.rules
    BY <1>2, <1>7, <1>8 DEF Probed, Seen
  <1>10. ScanBest'
    <2>1. {r \in Probed' : Matches(r, scan'.packet)} = A \cup B
      BY <1>8, <1>9
    <2> QED BY <1>6, <1>8, <2>1 DEF ScanBest, Best
  <1> QED BY <1>1, <1>8, <1>10, StoreSame

\* A lookup that ends has the best match of all stored rules.
LEMMA ScanOverExact ==
  ASSUME Inv, scan # NoScan, ScanOver
  PROVE  scan.prior = Best({r \in Stored : Matches(r, scan.packet)})
PROOF
  <1> DEFINE x == scan.prior
             A == {r \in Probed : Matches(r, scan.packet)}
             S == {r \in Stored : Matches(r, scan.packet)}
  <1>1. /\ x = Best(A) /\ x \in Nat /\ Len(tables) \in Nat /\ scan.q \in 0 .. Len(tables)
        /\ Probed = Seen(table, tables, scan.q) /\ Probed \in SUBSET Stored
        /\ scan.q < Len(tables) => tables[scan.q + 1] \in DOMAIN table
    BY ScanType
  <1>2. /\ Stored = RulesOf(table) /\ Stored \in SUBSET Rules
        /\ \A t \in DOMAIN table : Exact(table[t])
    BY TableProps
  <1>3. Lists(tables, DOMAIN table) /\ Descends(table, tables)
    BY DEF Inv, VectorGood
  <1>4. ASSUME scan.q < Len(tables) PROVE x >= table[tables[scan.q + 1]].maxPriority
    <2>1. table[tables[scan.q + 1]].maxPriority <= x
      BY <1>4 DEF ScanOver, NextTable
    <2>2. table[tables[scan.q + 1]].maxPriority \in Nat \cup {-1}
      BY <1>1, <1>2, <1>4, TableType DEF Exact
    <2> QED BY <1>1, <2>1, <2>2
  <1> HIDE DEF x
  <1>5. x \in Int
    BY <1>1
  <1>6. \A r \in Stored : r \in Probed \/ Prio[r] <= x
    BY <1>1, <1>2, <1>3, <1>4, <1>5, EarlyEnd
  <1>7. A \subseteq S /\ S \in SUBSET Rules /\ A \in SUBSET Rules
    BY <1>1, <1>2
  <1>8. \A r \in S : Prio[r] \in Nat /\ Prio[r] > 0
    BY <1>7, PrioType
  <1>9. \A r \in S : r \in A \/ Prio[r] <= Top(A)
    <2>1. Top(A) \in Nat \cup {-1}
      BY <1>7, TopExists
    <2>2. \A r \in S : r \in A \/ Prio[r] <= x
      BY <1>6
    <2> HIDE DEF A, S
    <2> QED BY <1>1, <1>8, <2>1, <2>2 DEF Best
  <1> HIDE DEF A, S
  <1>10. Top(S) = Top(A)
    BY <1>7, <1>9, TopOfPart
  <1> QED BY <1>1, <1>10 DEF x, S, Best

LEMMA ClassifyEndInv ==
  ASSUME Inv, ClassifyEnd
  PROVE  /\ Inv' /\ Stored' = Stored
         /\ \E p \in Packets : answer' = <<p, Best({r \in Stored : Matches(r, p)})>>
PROOF
  <1>1. /\ scan # NoScan /\ ScanOver /\ scan' = NoScan /\ UNCHANGED store
        /\ answer' = <<scan.packet, scan.prior>>
    BY DEF ClassifyEnd
  <1>2. scan.packet \in Packets
    BY <1>1, ScanType
  <1>3. scan.prior = Best({r \in Stored : Matches(r, scan.packet)})
    BY <1>1, ScanOverExact
  <1>4. ScanTyped' /\ ScanBest'
    BY <1>1 DEF ScanTyped, ScanBest
  <1> QED BY <1>1, <1>2, <1>3, <1>4, StoreSame

----------------------------------------------------------------------------
(***************************************************************************)
(* All steps.                                                              *)
(***************************************************************************)

LEMMA InitInv == Init => Inv /\ Stored = {} /\ answer = <<>>
PROOF
  <1> SUFFICES ASSUME Init PROVE Inv /\ Stored = {} /\ answer = <<>>
    OBVIOUS
  <1>1. /\ DOMAIN table = {} /\ tables = <<>> /\ DOMAIN assignments = {}
        /\ scan = NoScan /\ answer = <<>>
    BY DEF Init
  <1>2. Lists(tables, DOMAIN table)
    BY <1>1, EmptyLists
  <1>3. Descends(table, tables)
    BY <1>1 DEF Descends
  <1>4. Stored = {}
    BY <1>1 DEF Stored
  <1> QED BY <1>1, <1>2, <1>3, <1>4
          DEF Inv, GoodTables, VectorGood, AssignmentExact, ScanTyped, ScanBest

\* What a step means to the classifier.
StepMeaning ==
  \/ Stored' = Stored /\ answer' = answer
  \/ \E r \in Rules : r \notin Stored /\ Stored' = Stored \cup {r} /\ answer' = <<>>
  \/ \E r \in Rules : r \in Stored /\ Stored' = Stored \ {r} /\ answer' = <<>>
  \/ \E p \in Packets : /\ answer' = <<p, Best({r \in Stored : Matches(r, p)})>>
                        /\ Stored' = Stored

LEMMA StepInv == MergeAssumption /\ Inv /\ [Next]_vars => Inv' /\ StepMeaning
PROOF
  <1> SUFFICES ASSUME MergeAssumption, Inv, [Next]_vars PROVE Inv' /\ StepMeaning
    OBVIOUS
  <1>1. CASE UNCHANGED vars
    <2>1. UNCHANGED store /\ scan' = scan /\ answer' = answer
          /\ table' = table /\ tables' = tables
      BY <1>1 DEF vars, store
    <2>2. ScanTyped' /\ ScanBest'
      BY <2>1 DEF Inv, ScanTyped, ScanBest, Probed
    <2> QED BY <2>1, <2>2, StoreSame DEF StepMeaning
  <1>2. ASSUME NEW r \in Rules, InsertRule(r) PROVE Inv' /\ StepMeaning
    BY <1>2, InsertRuleInv DEF StepMeaning
  <1>3. ASSUME NEW r \in Rules, DeleteRule(r) PROVE Inv' /\ StepMeaning
    BY <1>3, DeleteRuleInv DEF StepMeaning
  <1>4. ASSUME NEW p \in Packets, ClassifyStart(p) PROVE Inv' /\ StepMeaning
    BY <1>4, ClassifyStartInv DEF StepMeaning
  <1>5. CASE ClassifyProbe
    BY <1>5, ClassifyProbeInv DEF StepMeaning
  <1>6. CASE ClassifyEnd
    BY <1>6, ClassifyEndInv DEF StepMeaning
  <1> QED BY <1>1, <1>2, <1>3, <1>4, <1>5, <1>6 DEF Next

THEOREM Invariance == MergeAssumption => (Spec => []Inv)
PROOF
  <1> SUFFICES ASSUME MergeAssumption PROVE Spec => []Inv
    OBVIOUS
  <1>1. Inv /\ [Next]_vars => Inv'
    BY StepInv
  <1> QED BY <1>1, InitInv, PTL DEF Spec

----------------------------------------------------------------------------
(***************************************************************************)
(* The properties.                                                         *)
(***************************************************************************)

LEMMA InvSound == Inv => TypeOK /\ TablesSound /\ AssignmentExact
PROOF
  <1> SUFFICES ASSUME Inv PROVE TypeOK /\ TablesSound /\ AssignmentExact
    OBVIOUS
  <1>1. /\ Stored \in SUBSET Rules /\ DOMAIN assignments = Stored
        /\ \A t \in DOMAIN table : t \in Nat /\ Exact(table[t]) /\ FitsAll(table[t])
        /\ \A t, u \in DOMAIN table : table[t].lengths = table[u].lengths => t = u
    BY TableProps DEF Inv, GoodTables
  <1>2. Lists(tables, DOMAIN table) /\ Descends(table, tables)
    BY DEF Inv, VectorGood
  <1>3. TypeOK
    <2>1. \A t \in DOMAIN table : t \in Nat /\ table[t] \in Table
      BY <1>1 DEF Exact
    <2>2. tables \in Seq(DOMAIN table) /\ Elements(tables) = DOMAIN table
          /\ Len(tables) = Cardinality(DOMAIN table)
      BY <1>2, ListsCount DEF Lists, Elements
    <2> QED BY <1>1, <2>1, <2>2 DEF Inv, ScanTyped, TypeOK
  <1>4. TablesExact /\ TablesDistinct /\ TablesSorted
    BY <1>1, <1>2 DEF Exact, FitsAll, TablesExact, TablesDistinct, TablesSorted
  <1>5. ScanExact
    BY ScanOverExact DEF Inv, ScanBest, ScanExact
  <1> QED BY <1>3, <1>4, <1>5 DEF Inv, TablesSound

\* Through splits, frees and addresses that come back, the vector lists the live
\* tables in order, caches are exact, no two tables have the same lengths, and the
\* assignment of a rule leads to the one table that has it
\* (TupleMergeOnline.cpp:102-116, 137-157, 180-253).
THEOREM Sound == MergeAssumption => (Spec => [](TypeOK /\ TablesSound /\ AssignmentExact))
BY Invariance, InvSound, PTL

\* TupleMerge implements the classifier: splits move rules and lose none
\* (TupleMergeOnline.cpp:96-117, 137-157, 184-253).
THEOREM Refinement == MergeAssumption => (Spec => ClassifierSpec)
PROOF
  <1> SUFFICES ASSUME MergeAssumption PROVE Spec => ClassifierSpec
    OBVIOUS
  <1>1. Init => Abstract!Init
    BY InitInv DEF Abstract!Init
  <1>2. ASSUME NEW S \in SUBSET Rules PROVE Abstract!Best(S) = Best(S)
    BY BestOfTop DEF Abstract!Best, Best
  <1>3. Inv /\ StepMeaning => [Abstract!Next]_<<Stored, answer>>
    <2> SUFFICES ASSUME Inv, StepMeaning PROVE [Abstract!Next]_<<Stored, answer>>
      OBVIOUS
    <2>1. CASE Stored' = Stored /\ answer' = answer
      BY <2>1
    <2>2. ASSUME NEW r \in Rules, r \notin Stored, Stored' = Stored \cup {r}, answer' = <<>>
          PROVE  Abstract!Next
      BY <2>2 DEF Abstract!Next, Abstract!Insert
    <2>3. ASSUME NEW r \in Rules, r \in Stored, Stored' = Stored \ {r}, answer' = <<>>
          PROVE  Abstract!Next
      BY <2>3 DEF Abstract!Next, Abstract!Delete
    <2>4. ASSUME NEW p \in Packets, Stored' = Stored,
                 answer' = <<p, Best({r \in Stored : Matches(r, p)})>>
          PROVE  Abstract!Next
      <3>1. {r \in Stored : Matches(r, p)} \in SUBSET Rules
        BY TableProps
      <3> QED BY <1>2, <2>4, <3>1 DEF Abstract!Next, Abstract!Lookup
    <2> QED BY <2>1, <2>2, <2>3, <2>4 DEF StepMeaning
  <1>4. Inv /\ [Next]_vars => [Abstract!Next]_<<Stored, answer>>
    BY <1>3, StepInv
  <1> QED BY <1>1, <1>4, Invariance, PTL DEF Spec, ClassifierSpec, Abstract!Spec
=============================================================================
