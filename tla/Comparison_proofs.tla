-------------------------- MODULE Comparison_proofs --------------------------
(***************************************************************************)
(* The classifiers of the comparison.  HybridTSS, which is trained and     *)
(* built before it is used, is proved first: its tree, and its lookups.    *)
(* Then: what PSTSS_proofs, TupleMerge_proofs and PartitionSort_proofs     *)
(* prove of each of the others holds of it in the driver, where it works   *)
(* on the rules it was created for.                                        *)
(***************************************************************************)
EXTENDS Comparison, HybridTSS, ListLemmas

----------------------------------------------------------------------------
(***************************************************************************)
(* Ranks, and the lists they make.                                         *)
(***************************************************************************)

\* how many elements of S have a lower value than x
Rank(S, Val, x) == Cardinality({y \in S : Val[y] < Val[x]})

\* Values in order are ranks in order.
LEMMA RankOrder ==
  ASSUME NEW S, IsFiniteSet(S), NEW Val, \A x \in S : Val[x] \in Int,
         NEW x \in S, NEW y \in S
  PROVE  /\ Rank(S, Val, x) \in Nat /\ Rank(S, Val, x) < Cardinality(S)
         /\ Val[x] < Val[y] => Rank(S, Val, x) < Rank(S, Val, y)
PROOF
  <1> DEFINE L(z) == {w \in S : Val[w] < Val[z]}
  <1>1. \A z \in S : IsFiniteSet(L(z)) /\ Cardinality(L(z)) \in Nat
    BY FS_Subset, FS_CardinalityType
  <1>2. Cardinality(S) \in Nat
    BY FS_CardinalityType
  <1>3. Cardinality(L(x)) < Cardinality(S)
    <2>1. L(x) \in SUBSET S /\ L(x) # S
      OBVIOUS
    <2> HIDE DEF L
    <2>2. Cardinality(L(x)) <= Cardinality(S) /\ Cardinality(L(x)) # Cardinality(S)
      BY <2>1, FS_Subset
    <2> QED BY <1>1, <1>2, <2>2
  <1>4. ASSUME Val[x] < Val[y] PROVE Cardinality(L(x)) < Cardinality(L(y))
    <2>1. L(x) \in SUBSET L(y) /\ L(x) # L(y)
      BY <1>4
    <2> HIDE DEF L
    <2>2. Cardinality(L(x)) <= Cardinality(L(y)) /\ Cardinality(L(x)) # Cardinality(L(y))
      BY <1>1, <2>1, FS_Subset
    <2> QED BY <1>1, <2>2
  <1> QED BY <1>1, <1>3, <1>4 DEF Rank

\* When no two values are equal every rank is taken.
LEMMA RankTaken ==
  ASSUME NEW S, IsFiniteSet(S), NEW Val, \A x \in S : Val[x] \in Int,
         \A x, y \in S : Val[x] = Val[y] => x = y,
         NEW n \in 1 .. Cardinality(S)
  PROVE  \E x \in S : Rank(S, Val, x) = n - 1
PROOF
  <1> DEFINE N == Cardinality(S)
             f == [x \in S |-> Rank(S, Val, x) + 1]
  <1>1. N \in Nat
    BY FS_CardinalityType
  <1>2. \A x \in S : Rank(S, Val, x) \in Nat /\ Rank(S, Val, x) < N
    BY RankOrder
  <1>3. \A x, y \in S : Val[x] < Val[y] => Rank(S, Val, x) < Rank(S, Val, y)
    BY RankOrder
  <1> HIDE DEF N
  <1>4. f \in [S -> 1 .. N]
    BY <1>1, <1>2
  <1>5. ASSUME NEW x \in S, NEW y \in S, f[x] = f[y] PROVE x = y
    <2>1. Rank(S, Val, x) = Rank(S, Val, y)
      BY <1>2, <1>5
    <2>2. Val[x] = Val[y]
      BY <1>2, <1>3, <2>1
    <2> QED BY <2>2
  <1>6. f \in Injection(S, 1 .. N)
    BY <1>4, <1>5 DEF Injection, IsInjective
  <1>7. IsFiniteSet(1 .. N) /\ Cardinality(1 .. N) = N
    BY <1>1, FS_Interval
  <1>8. f \in Surjection(S, 1 .. N)
    BY <1>6, <1>7, FS_Injection DEF N
  <1>9. PICK x \in S : f[x] = n
    BY <1>8 DEF Surjection, N
  <1> QED BY <1>2, <1>9

\* The elements of S, in the order of s.
LEMMA SublistIs ==
  ASSUME NEW R, NEW s \in Seq(R), NEW S
  PROVE  /\ Sublist(s, S) \in Seq(R) /\ Elements(Sublist(s, S)) = Elements(s) \cap S
         /\ \A m, n \in DOMAIN Sublist(s, S) : m < n =>
              \E i, j \in DOMAIN s : i < j /\ Sublist(s, S)[m] = s[i] /\ Sublist(s, S)[n] = s[j]
PROOF
  <1> DEFINE at == {i \in DOMAIN s : s[i] \in S}
             N == Cardinality(at)
             Val == [i \in at |-> i]
             Pos(n) == CHOOSE i \in at : Cardinality({j \in at : j < i}) = n - 1
             t == [n \in 1 .. N |-> s[Pos(n)]]
  <1>1. Len(s) \in Nat /\ DOMAIN s = 1 .. Len(s) /\ \A i \in DOMAIN s : s[i] \in R
    OBVIOUS
  <1>2. IsFiniteSet(at) /\ N \in Nat
    <2>1. IsFiniteSet(1 .. Len(s)) /\ at \subseteq 1 .. Len(s)
      BY <1>1, FS_Interval
    <2> QED BY <2>1, FS_Subset, FS_CardinalityType
  <1>3. \A i \in at : Val[i] \in Int /\ Val[i] = i
    BY <1>1
  <1>4. \A i \in at : Cardinality({j \in at : j < i}) = Rank(at, Val, i)
    <2> SUFFICES ASSUME NEW i \in at PROVE Cardinality({j \in at : j < i}) = Rank(at, Val, i)
      OBVIOUS
    <2>1. {j \in at : j < i} = {j \in at : Val[j] < Val[i]}
      BY <1>3
    <2> QED BY <2>1 DEF Rank
  <1>5. t = Sublist(s, S)
    BY DEF Sublist
  <1>9. \A i \in at : i \in DOMAIN s /\ i \in Int /\ s[i] \in S
    BY <1>1
  <1> HIDE DEF Val, at
  <1>6. \A n \in 1 .. N : \E i \in at : Rank(at, Val, i) = n - 1
    BY <1>2, <1>3, RankTaken
  <1> HIDE DEF N
  <1>7. \A n \in 1 .. N : Pos(n) \in at /\ Rank(at, Val, Pos(n)) = n - 1
    BY <1>4, <1>6
  <1>8. \A i, j \in at : /\ Rank(at, Val, i) \in Nat /\ Rank(at, Val, i) < N
                         /\ i < j => Rank(at, Val, i) < Rank(at, Val, j)
    BY <1>2, <1>3, RankOrder DEF N
  <1> HIDE DEF Pos
  <1>10. t \in Seq(R)
    BY <1>1, <1>2, <1>7, <1>9
  <1>11. ASSUME NEW x \in Elements(t) PROVE x \in Elements(s) \cap S
    BY <1>7, <1>9, <1>11 DEF Elements
  <1>12. ASSUME NEW x \in Elements(s) \cap S PROVE x \in Elements(t)
    <2>1. PICK i \in DOMAIN s : x = s[i]
      BY <1>12 DEF Elements
    <2>2. i \in at
      BY <1>12, <2>1 DEF at
    <2> DEFINE n == Rank(at, Val, i) + 1
    <2>3. n \in 1 .. N /\ Rank(at, Val, i) = n - 1
      BY <1>2, <1>8, <2>2
    <2>4. Pos(n) = i
      <3>1. Pos(n) \in at /\ Rank(at, Val, Pos(n)) = Rank(at, Val, i)
        BY <1>7, <2>3
      <3>2. ~(Pos(n) < i) /\ ~(i < Pos(n))
        BY <1>8, <2>2, <3>1
      <3> QED BY <1>9, <2>2, <3>1, <3>2
    <2> HIDE DEF n
    <2>5. n \in DOMAIN t /\ t[n] = x
      BY <2>1, <2>3, <2>4
    <2> QED BY <2>5 DEF Elements
  <1>13. ASSUME NEW m \in DOMAIN t, NEW n \in DOMAIN t, m < n
         PROVE  \E i, j \in DOMAIN s : i < j /\ t[m] = s[i] /\ t[n] = s[j]
    <2>1. m \in 1 .. N /\ n \in 1 .. N /\ t[m] = s[Pos(m)] /\ t[n] = s[Pos(n)]
      OBVIOUS
    <2>2. Pos(m) \in at /\ Pos(n) \in at /\ Rank(at, Val, Pos(m)) < Rank(at, Val, Pos(n))
      BY <1>2, <1>7, <1>13, <2>1
    <2>3. Pos(m) < Pos(n)
      <3>1. ~(Pos(n) < Pos(m))
        BY <1>8, <2>2
      <3>2. Pos(m) # Pos(n)
        BY <1>8, <2>2
      <3> QED BY <1>9, <2>2, <3>1, <3>2
    <2> QED BY <1>9, <2>1, <2>2, <2>3
  <1> HIDE DEF t
  <1>14. Elements(t) = Elements(s) \cap S
    BY <1>11, <1>12
  <1> QED BY <1>5, <1>10, <1>13, <1>14

----------------------------------------------------------------------------
\* Best first: what the priorities of a list do.
BestFirst(s) == \A i, j \in DOMAIN s : i < j => Prio[s[i]] > Prio[s[j]]

\* The priorities are positive, and every set of rules is finite.
LEMMA PrioIs ==
  /\ \A r \in Rules : Prio[r] \in Nat /\ Prio[r] > 0
  /\ \A S \in SUBSET Rules : IsFiniteSet(S) /\ Cardinality(S) \in Nat
PROOF
  <1>1. \A r \in Rules : Prio[r] \in Nat /\ Prio[r] > 0
    BY TableAssumption
  <1>2. \A S \in SUBSET Rules : IsFiniteSet(S) /\ Cardinality(S) \in Nat
    BY FS_Subset, FS_CardinalityType, TableAssumption
  <1> QED BY <1>1, <1>2

\* The list of all rules, best first.
LEMMA AllRulesIs ==
  AllRules \in Seq(Rules) /\ Elements(AllRules) = Rules /\ BestFirst(AllRules)
PROOF
  <1> DEFINE N == Cardinality(Rules)
             Val == [r \in Rules |-> -Prio[r]]
             Best(i) == CHOOSE r \in Rules : Cardinality({q \in Rules : Prio[q] > Prio[r]}) = i - 1
             s == [i \in 1 .. N |-> Best(i)]
  <1>1. IsFiniteSet(Rules) /\ N \in Nat
    BY PrioIs
  <1>2. \A r \in Rules : Prio[r] \in Nat
    BY PrioIs
  <1>3. \A r \in Rules : Val[r] \in Int /\ Val[r] = -Prio[r]
    BY <1>2
  <1>4. s = AllRules
    BY DEF AllRules
  <1> HIDE DEF Val
  <1>5. \A r, q \in Rules : Val[q] < Val[r] <=> Prio[q] > Prio[r]
    BY <1>2, <1>3
  <1>6. \A r \in Rules : Cardinality({q \in Rules : Prio[q] > Prio[r]}) = Rank(Rules, Val, r)
    <2> SUFFICES ASSUME NEW r \in Rules
                 PROVE  Cardinality({q \in Rules : Prio[q] > Prio[r]}) = Rank(Rules, Val, r)
      OBVIOUS
    <2>1. {q \in Rules : Prio[q] > Prio[r]} = {q \in Rules : Val[q] < Val[r]}
      BY <1>5
    <2> QED BY <2>1 DEF Rank
  <1>7. \A r, q \in Rules : Val[r] = Val[q] => r = q
    <2>1. \A r, q \in Rules : Val[r] = Val[q] => Prio[r] = Prio[q]
      BY <1>2, <1>3
    <2> QED BY <2>1, TableAssumption
  <1>8. \A i \in 1 .. N : \E r \in Rules : Rank(Rules, Val, r) = i - 1
    BY <1>1, <1>3, <1>7, RankTaken
  <1>9. \A i \in 1 .. N : Best(i) \in Rules /\ Rank(Rules, Val, Best(i)) = i - 1
    BY <1>6, <1>8
  <1>10. \A r, q \in Rules : /\ Rank(Rules, Val, r) \in Nat /\ Rank(Rules, Val, r) < N
                             /\ Val[r] < Val[q] => Rank(Rules, Val, r) < Rank(Rules, Val, q)
    BY <1>1, <1>3, RankOrder
  <1> HIDE DEF Best, N
  <1>11. s \in Seq(Rules)
    BY <1>1, <1>9
  <1>12. ASSUME NEW r \in Rules PROVE r \in Elements(s)
    <2> DEFINE i == Rank(Rules, Val, r) + 1
    <2>1. i \in 1 .. N /\ Rank(Rules, Val, r) = i - 1
      BY <1>1, <1>10
    <2>2. Best(i) \in Rules /\ Rank(Rules, Val, Best(i)) = Rank(Rules, Val, r)
      BY <1>9, <2>1
    <2> HIDE DEF i
    <2>3. ~(Val[Best(i)] < Val[r]) /\ ~(Val[r] < Val[Best(i)])
      BY <1>10, <2>2
    <2>4. Val[Best(i)] = Val[r]
      BY <1>3, <2>2, <2>3
    <2>5. s[i] = r /\ i \in DOMAIN s
      BY <1>7, <2>1, <2>2, <2>4
    <2> QED BY <2>5 DEF Elements
  <1>13. \A r \in Elements(s) : r \in Rules
    BY <1>9 DEF Elements
  <1>14. ASSUME NEW i \in DOMAIN s, NEW j \in DOMAIN s, i < j PROVE Prio[s[i]] > Prio[s[j]]
    <2>1. i \in 1 .. N /\ j \in 1 .. N /\ s[i] = Best(i) /\ s[j] = Best(j)
      OBVIOUS
    <2>2. Best(i) \in Rules /\ Best(j) \in Rules
          /\ Rank(Rules, Val, Best(i)) < Rank(Rules, Val, Best(j))
      BY <1>1, <1>9, <1>14, <2>1
    <2>3. ~(Val[Best(j)] < Val[Best(i)]) /\ Val[Best(j)] # Val[Best(i)]
      BY <1>7, <1>10, <2>2
    <2>4. Val[Best(i)] < Val[Best(j)]
      BY <1>3, <2>2, <2>3
    <2> QED BY <1>5, <2>1, <2>2, <2>4
  <1> HIDE DEF s
  <1> QED BY <1>4, <1>11, <1>12, <1>13, <1>14 DEF BestFirst

\* A part of a list that is best first is best first.
LEMMA SublistBestFirst ==
  ASSUME NEW s \in Seq(Rules), BestFirst(s), NEW S
  PROVE  BestFirst(Sublist(s, S))
PROOF
  <1>1. \A m, n \in DOMAIN Sublist(s, S) : m < n =>
          \E i, j \in DOMAIN s : i < j /\ Sublist(s, S)[m] = s[i] /\ Sublist(s, S)[n] = s[j]
    BY SublistIs
  <1> QED BY <1>1 DEF BestFirst

\* A list that is best first has as many entries as elements.
LEMMA BestFirstCount ==
  ASSUME NEW s \in Seq(Rules), BestFirst(s)
  PROVE  Len(s) = Cardinality(Elements(s))
PROOF
  <1>1. Len(s) \in Nat /\ DOMAIN s = 1 .. Len(s) /\ \A i \in DOMAIN s : s[i] \in Rules
    OBVIOUS
  <1>2. \A i \in DOMAIN s : Prio[s[i]] \in Nat
    BY <1>1, PrioIs
  <1>3. \A i, j \in DOMAIN s : s[i] = s[j] => i = j
    BY <1>1, <1>2 DEF BestFirst
  <1>4. Lists(s, Elements(s))
    <2>1. s \in Seq(Elements(s))
      BY <1>1 DEF Elements
    <2> QED BY <1>3, <2>1 DEF Lists, Elements
  <1> QED BY <1>4, ListsCount

IsTop(m, S) == m \in {-1} \cup {Prio[r] : r \in S} /\ \A r \in S : Prio[r] <= m

\* The priority Top picks is the greatest of the rules of S, and -1 of none.
LEMMA TopIs ==
  ASSUME NEW S \in SUBSET Rules
  PROVE  /\ IsTop(Top(S), S) /\ Top(S) \in Nat \cup {-1}
         /\ S = {} => Top(S) = -1
         /\ S # {} => \E r \in S : Top(S) = Prio[r] /\ Top(S) > 0
PROOF
  <1>1. \A r \in S : Prio[r] \in Nat /\ Prio[r] > 0
    BY PrioIs
  <1>2. \E m \in {-1} \cup {Prio[r] : r \in S} : \A r \in S : Prio[r] <= m
    <2>1. CASE S = {}
      BY <2>1
    <2>2. CASE S # {}
      <3>1. PICK b \in S : \A r \in S : Prio[r] <= Prio[b]
        BY <1>1, <2>2, PrioIs, SomeBest
      <3> QED BY <3>1
    <2> QED BY <2>1, <2>2
  <1>3. IsTop(Top(S), S)
    BY <1>2 DEF IsTop, Top
  <1>4. Top(S) \in Nat \cup {-1} /\ (S = {} => Top(S) = -1)
    BY <1>1, <1>3 DEF IsTop
  <1>5. ASSUME S # {} PROVE \E r \in S : Top(S) = Prio[r] /\ Top(S) > 0
    <2>1. PICK q \in S : Prio[q] <= Top(S)
      BY <1>3, <1>5 DEF IsTop
    <2>2. Top(S) > 0
      BY <1>1, <1>4, <2>1
    <2> QED BY <1>3, <2>2 DEF IsTop
  <1> QED BY <1>3, <1>4, <1>5

\* There is only one such value.
LEMMA TopOnly ==
  ASSUME NEW S \in SUBSET Rules, NEW m, IsTop(m, S)
  PROVE  m = Top(S)
PROOF
  <1>1. IsTop(Top(S), S)
    BY TopIs
  <1>2. \A r \in S : Prio[r] \in Nat /\ Prio[r] > 0
    BY PrioIs
  <1> QED BY <1>1, <1>2 DEF IsTop

----------------------------------------------------------------------------
\* Some number of a set is the least.
LEMMA LeastNumber ==
  ASSUME NEW S \in SUBSET Nat, S # {}
  PROVE  \E n \in S : \A m \in S : n <= m
PROOF
  <1>1. PICK k \in S : TRUE
    OBVIOUS
  <1>2. k \in Nat
    BY <1>1
  <1> DEFINE T == {i \in 1 .. k + 1 : i - 1 \in S}
  <1>3. T \in SUBSET (1 .. k + 1) /\ k + 1 \in T
    BY <1>1, <1>2
  <1>4. \A m \in S : m <= k => m + 1 \in T
    BY <1>2
  <1>5. \A i \in T : i \in Int /\ i - 1 \in S
    BY <1>2
  <1> DEFINE N == k + 1
  <1>6a. N \in Nat /\ T \in SUBSET (1 .. N) /\ T # {}
    BY <1>2, <1>3
  <1> HIDE DEF T, N
  <1>6. PICK i \in T : \A j \in T : i <= j
    BY <1>6a, LeastIndex
  <1>7. i - 1 \in S /\ i \in Int /\ i <= k + 1
    BY <1>3, <1>5, <1>6
  <1>8. ASSUME NEW m \in S PROVE i - 1 <= m
    <2>1. CASE m <= k
      BY <1>2, <1>4, <1>6, <1>7, <2>1
    <2>2. CASE m > k
      BY <1>2, <1>7, <2>2
    <2> QED BY <1>2, <2>1, <2>2
  <1> QED BY <1>7, <1>8

\* the ranges of positions lower_bound may be left with
Spans(s) == {w \in (1 .. Len(s) + 1) \X (0 .. Len(s)) : w[1] + w[2] <= Len(s) + 1}
Right(w) == <<w[1] + w[2] \div 2 + 1, w[2] - w[2] \div 2 - 1>>
Left(w) == <<w[1], w[2] \div 2>>
\* one step of lower_bound
Halve(s, r, f, w) ==
  IF w[2] = 0 THEN w[1]
  ELSE IF id[s[w[1] + w[2] \div 2]] > id[r] THEN f[Right(w)] ELSE f[Left(w)]

\* What is left is in the list, and shorter.
LEMMA SpansShrink ==
  ASSUME NEW s \in Seq(Rules), NEW w \in Spans(s)
  PROVE  /\ w[1] \in 1 .. Len(s) + 1 /\ w[2] \in 0 .. Len(s)
         /\ w[2] # 0 => /\ Right(w) \in Spans(s) /\ Right(w)[2] < w[2]
                        /\ Left(w) \in Spans(s) /\ Left(w)[2] < w[2]
                        /\ w[1] + w[2] \div 2 \in 1 .. Len(s)
PROOF
  <1> DEFINE L == Len(s)  first == w[1]  n == w[2]  h == n \div 2
  <1>1. L \in Nat
    OBVIOUS
  <1>2. first \in 1 .. L + 1 /\ n \in 0 .. L /\ first + n <= L + 1
    BY DEF Spans
  <1>3. h \in Nat /\ (n # 0 => h < n)
    BY <1>1, <1>2
  <1> HIDE DEF L, first, n, h
  <1>4. n # 0 => /\ first + h + 1 \in 1 .. L + 1 /\ n - h - 1 \in 0 .. L
                 /\ first + h + 1 + (n - h - 1) <= L + 1 /\ first + h <= L + 1
                 /\ n - h - 1 < n /\ h \in 0 .. L /\ first + h \in 1 .. L
    BY <1>1, <1>2, <1>3
  <1>5. Right(w) = <<first + h + 1, n - h - 1>> /\ Left(w) = <<first, h>>
    BY DEF Right, Left, first, n, h
  <1>6. ASSUME n # 0 PROVE Right(w) \in Spans(s) /\ Left(w) \in Spans(s)
    <2>1. \A a \in 1 .. L + 1, b \in 0 .. L : a + b <= L + 1 => <<a, b>> \in Spans(s)
      BY DEF Spans, L
    <2>2. first \in 1 .. L + 1 /\ first + h <= L + 1
      BY <1>2, <1>4, <1>6
    <2> QED BY <1>4, <1>5, <1>6, <2>1, <2>2
  <1> QED BY <1>2, <1>3, <1>4, <1>5, <1>6 DEF L, first, n, h

\* The equation of lower_bound has a solution.
LEMMA LowerExists ==
  ASSUME NEW s \in Seq(Rules), NEW r \in Rules
  PROVE  \E f : f = [w \in Spans(s) |-> Halve(s, r, f, w)]
PROOF
  <1> DEFINE L == Len(s)
             D(n) == {w \in Spans(s) : w[2] <= n}
             Solves(f, n) == f = [w \in D(n) |-> Halve(s, r, f, w)]
             Bad == {n \in 0 .. L : ~\E f : Solves(f, n)}
  <1>1. L \in Nat
    OBVIOUS
  <1>2. D(L) = Spans(s)
    BY SpansShrink
  <1>3. SUFFICES ASSUME Bad # {} PROVE FALSE
    <2>1. L \in 0 .. L
      BY <1>1
    <2>2. (\E f : Solves(f, L)) => \E f : f = [w \in Spans(s) |-> Halve(s, r, f, w)]
      BY <1>2
    <2> HIDE DEF Solves
    <2> QED BY <2>1, <2>2
  <1>4. Bad \in SUBSET Nat
    BY <1>1
  <1> HIDE DEF Bad
  <1>5. PICK n \in Bad : \A m \in Bad : n <= m
    BY <1>3, <1>4, LeastNumber
  <1>6. n \in 0 .. L /\ ~\E f : Solves(f, n)
    BY <1>5 DEF Bad
  <1>7. CASE n = 0
    <2> DEFINE f == [w \in D(0) |-> w[1]]
    <2>1. \A w \in D(0) : w[2] = 0
      <3>1. \A w \in Spans(s) : w[2] \in 0 .. L
        BY SpansShrink
      <3> QED BY <1>1, <3>1
    <2>2. \A w \in D(0) : Halve(s, r, f, w) = w[1]
      BY <2>1 DEF Halve
    <2>3. Solves(f, 0)
      BY <2>2
    <2> QED BY <1>6, <1>7, <2>3
  <1>8. CASE n # 0
    <2>1. n - 1 \in 0 .. L /\ n \in Int
      BY <1>1, <1>6, <1>8
    <2>2. n - 1 \notin Bad
      BY <1>4, <1>5, <2>1
    <2>3. PICK f : Solves(f, n - 1)
      BY <2>1, <2>2 DEF Bad
    <2>4. \A w \in D(n - 1) : f[w] = Halve(s, r, f, w)
      BY <2>3
    <2> DEFINE g == [w \in D(n) |-> IF w[2] <= n - 1 THEN f[w] ELSE Halve(s, r, f, w)]
    <2>5. \A w \in Spans(s) : w[2] <= n - 1 => w \in D(n) /\ w \in D(n - 1) /\ g[w] = f[w]
      <3>1. \A w \in Spans(s) : w[2] \in 0 .. L
        BY SpansShrink
      <3> QED BY <1>1, <2>1, <3>1
    <2>6. \A w \in D(n) : g[w] = Halve(s, r, f, w)
      BY <2>4, <2>5
    <2>7. \A w \in D(n) : w \in Spans(s) /\ w[2] <= n
      OBVIOUS
    <2> HIDE DEF g, D
    <2>8. ASSUME NEW w \in D(n) PROVE Halve(s, r, g, w) = Halve(s, r, f, w)
      <3>1. w \in Spans(s) /\ w[2] <= n /\ w[2] \in 0 .. L
        BY <2>7, SpansShrink
      <3>2. CASE w[2] = 0
        BY <3>2 DEF Halve
      <3>3. CASE w[2] # 0
        <4>1. /\ Right(w) \in Spans(s) /\ Right(w)[2] < w[2]
              /\ Left(w) \in Spans(s) /\ Left(w)[2] < w[2]
          BY <3>1, <3>3, SpansShrink
        <4>2. Right(w)[2] \in 0 .. L /\ Left(w)[2] \in 0 .. L
          BY <4>1, SpansShrink
        <4>3. \A a \in 0 .. L : a < w[2] => a <= n - 1
          BY <1>1, <2>1, <3>1
        <4>4. g[Right(w)] = f[Right(w)] /\ g[Left(w)] = f[Left(w)]
          BY <2>5, <4>1, <4>2, <4>3
        <4> QED BY <4>4 DEF Halve
      <3> QED BY <3>2, <3>3
    <2>9. \A w \in D(n) : g[w] = Halve(s, r, g, w)
      BY <2>6, <2>8
    <2>10. g = [w \in D(n) |-> Halve(s, r, g, w)]
      <3>1. g = [w \in D(n) |-> g[w]]
        BY DEF g
      <3> QED BY <2>9, <3>1
    <2> QED BY <1>6, <2>10
  <1> QED BY <1>7, <1>8

\* lower_bound returns a position of the list, or its end.
LEMMA LowerBoundIs ==
  ASSUME NEW s \in Seq(Rules), NEW r \in Rules
  PROVE  LowerBound(s, r) \in 1 .. Len(s) + 1
PROOF
  <1> DEFINE L == Len(s)
             f == CHOOSE g : g = [w \in Spans(s) |-> Halve(s, r, g, w)]
             Bad == {n \in 0 .. L : \E w \in Spans(s) : w[2] = n /\ f[w] \notin 1 .. L + 1}
  <1>1. L \in Nat
    OBVIOUS
  <1>2. f = [w \in Spans(s) |-> Halve(s, r, f, w)]
    BY LowerExists
  <1>3. LowerBound(s, r) = f[<<1, L>>]
    BY DEF LowerBound, Halve, Spans, Right, Left
  <1> HIDE DEF f
  <1>4. \A w \in Spans(s) : f[w] = Halve(s, r, f, w)
    BY <1>2
  <1>5. <<1, L>> \in Spans(s) /\ <<1, L>>[2] = L /\ L \in 0 .. L
    BY <1>1 DEF Spans
  <1>6. SUFFICES ASSUME Bad # {} PROVE FALSE
    BY <1>3, <1>5
  <1>7. Bad \in SUBSET Nat
    BY <1>1
  <1>8. PICK n \in Bad : \A m \in Bad : n <= m
    <2> HIDE DEF Bad
    <2> QED BY <1>6, <1>7, LeastNumber
  <1>9. PICK w \in Spans(s) : w[2] = n /\ f[w] \notin 1 .. L + 1
    BY <1>8
  <1>10. w[1] \in 1 .. L + 1 /\ w[2] \in 0 .. L
    BY <1>9, SpansShrink
  <1>11. w[2] # 0
    BY <1>4, <1>9, <1>10 DEF Halve
  <1>12. /\ Right(w) \in Spans(s) /\ Right(w)[2] < n
         /\ Left(w) \in Spans(s) /\ Left(w)[2] < n
    BY <1>9, <1>11, SpansShrink
  <1>13. Right(w)[2] \in 0 .. L /\ Left(w)[2] \in 0 .. L
    BY <1>12, SpansShrink
  <1>14. Right(w)[2] \notin Bad /\ Left(w)[2] \notin Bad
    <2>1. n \in Int /\ Right(w)[2] \in Int /\ Left(w)[2] \in Int
      BY <1>9, <1>10, <1>13
    <2> HIDE DEF Bad
    <2> QED BY <1>8, <1>12, <2>1
  <1>15. f[Right(w)] \in 1 .. L + 1 /\ f[Left(w)] \in 1 .. L + 1
    BY <1>12, <1>13, <1>14
  <1>16. f[w] \in 1 .. L + 1
    BY <1>4, <1>9, <1>11, <1>15 DEF Halve
  <1> QED BY <1>9, <1>16

\* What an insert or an erase makes of the elements of a list.
LEMMA InsertedIs ==
  ASSUME NEW s \in Seq(Rules), NEW r \in Rules, NEW i \in 1 .. Len(s) + 1
  PROVE  LET t == SubSeq(s, 1, i - 1) \o <<r>> \o SubSeq(s, i, Len(s)) IN
         t \in Seq(Rules) /\ Elements(t) \subseteq Elements(s) \cup {r}
PROOF
  <1> DEFINE a == SubSeq(s, 1, i - 1)  b == SubSeq(s, i, Len(s))
             t == a \o <<r>> \o b
             E == Elements(s) \cup {r}
  <1>1. Len(s) \in Nat /\ DOMAIN s = 1 .. Len(s) /\ s \in Seq(Elements(s))
    BY DEF Elements
  <1>2. s \in Seq(E) /\ r \in E /\ E \subseteq Rules
    <2>1. E \subseteq Rules /\ r \in E
      BY <1>1 DEF Elements
    <2>2. \A j \in DOMAIN s : s[j] \in E
      BY DEF Elements
    <2> HIDE DEF E
    <2> QED BY <1>1, <2>1, <2>2
  <1> HIDE DEF E
  <1>3. a \in Seq(E) /\ b \in Seq(E)
    BY <1>1, <1>2, SubSeqProperties
  <1>4. t \in Seq(E)
    BY <1>2, <1>3
  <1> HIDE DEF t
  <1>5. t \in Seq(Rules) /\ Elements(t) \subseteq E
    BY <1>2, <1>4 DEF Elements
  <1> QED BY <1>5 DEF E, t

\* erase on a leaf's vector leaves rules that were there.
LEMMA ErasedIs ==
  ASSUME NEW s \in Seq(Rules), NEW i \in 1 .. Len(s)
  PROVE  LET t == SubSeq(s, 1, i - 1) \o SubSeq(s, i + 1, Len(s)) IN
         t \in Seq(Rules) /\ Elements(t) \subseteq Elements(s)
PROOF
  <1> DEFINE a == SubSeq(s, 1, i - 1)  b == SubSeq(s, i + 1, Len(s))
             t == a \o b
             E == Elements(s)
  <1>1. Len(s) \in Nat /\ DOMAIN s = 1 .. Len(s) /\ s \in Seq(E) /\ E \subseteq Rules
    BY DEF Elements
  <1> HIDE DEF E
  <1>2. a \in Seq(E) /\ b \in Seq(E)
    BY <1>1, SubSeqProperties
  <1>3. t \in Seq(E)
    BY <1>2
  <1> HIDE DEF t
  <1>4. t \in Seq(Rules) /\ Elements(t) \subseteq E
    BY <1>1, <1>3 DEF Elements
  <1> QED BY <1>4 DEF E, t

----------------------------------------------------------------------------
(***************************************************************************)
(* The inductive invariant.  Its parts speak of any tree N, so that the    *)
(* lemmas can compare the tree before a step with the one after it.        *)
(***************************************************************************)

\* r is sent along p from the root, as LeafOf has it
Leads(N, p, r) == \A i \in DOMAIN p : p[i] = Step(N[SubSeq(p, 1, i - 1)], r)
LeadTo(N, p) == {r \in Rules : Leads(N, p, r)}
BigAt(N, p) == {r \in LeadTo(N, p) : Step(N[p], r) = BIG}

Nodes ==
  [fun : {"none", "linear", "TM", "Hash"}, rules : Seq(Rules), used : SUBSET Dims,
   tmo : SUBSET Rules, dim : Int, bit : Int, maxBigPriority : Nat \cup {-1}, reward : Int]

Typed(N) ==
  /\ N = [p \in DOMAIN N |-> N[p]] /\ <<>> \in DOMAIN N
  /\ \A p \in DOMAIN N : /\ p \in Seq(Int) /\ N[p] \in Nodes
                         /\ IsFiniteSet(N[p].used) /\ Cardinality(N[p].used) = Len(p)

\* every path goes through hash nodes
Branches(N) ==
  \A p \in DOMAIN N : \A i \in DOMAIN p :
    SubSeq(p, 1, i - 1) \in DOMAIN N /\ N[SubSeq(p, 1, i - 1)].fun = "Hash"

\* a hash node has the children its rules need, and knows the best of the big ones
Hashes(N) ==
  \A p \in DOMAIN N : N[p].fun = "Hash" =>
    /\ N[p].dim \in Dims /\ N[p].bit \in Bits[N[p].dim]
    /\ \A r \in LeadTo(N, p) : Append(p, Step(N[p], r)) \in DOMAIN N
    /\ N[p].maxBigPriority = Top(BigAt(N, p))

\* the other nodes have no big rules, and each but the root is there for some rule
Leaves(N) ==
  \A p \in DOMAIN N : /\ N[p].fun # "Hash" => N[p].maxBigPriority = -1
                      /\ p # <<>> => LeadTo(N, p) # {}

Shape(N) == Typed(N) /\ Branches(N) /\ Hashes(N) /\ Leaves(N)

\* p has the rules that lead to it, best first
Exact(N, p) == Elements(N[p].rules) = LeadTo(N, p) /\ BestFirst(N[p].rules)

\* only lists are updated, and only with rules that lead to them
RulesKept(N) ==
  \A p \in DOMAIN N : /\ N[p].fun # "linear" => Exact(N, p)
                      /\ Elements(N[p].rules) \subseteq LeadTo(N, p)

\* a TupleMerge leaf of the tree that is used has the stored rules that lead to it
Stores(N, S) == \A p \in DOMAIN N : N[p].tmo = IF N[p].fun = "TM" THEN LeadTo(N, p) \cap S ELSE {}
Nothing(N) == \A p \in DOMAIN N : N[p].tmo = {}

\* the rules of the TupleMerge leaves at and below p
Merged(N, p) ==
  {r \in Rules : \E q \in DOMAIN N :
     p \in Above(q) /\ N[q].fun = "TM" /\ r \in Elements(N[q].rules)}
Rewards(N) == \A p \in DOMAIN N : N[p].reward = -Cardinality(Merged(N, p))

\* no update yet
New(N, S) == S = Rules /\ \A p \in DOMAIN N : Exact(N, p)

TreeInv ==
  /\ mode \in {"train", "build"} /\ stored \subseteq Rules /\ binth \in Binths
  /\ que = {p \in DOMAIN node : node[p].fun = "none"}
  /\ Shape(node) /\ RulesKept(node) /\ Rewards(node)
  /\ mode = "build" => Stores(node, stored)
  /\ mode = "train" => Nothing(node)
  /\ mode = "train" \/ que # {} => New(node, stored)
----------------------------------------------------------------------------
(***************************************************************************)
(* Paths.                                                                  *)
(***************************************************************************)

\* where a node that hashes b bits of field d sends r
Way(d, b, r) == IF PrefixLen[r][d] < b THEN BIG ELSE Key(Shr(Lo[r][d], Width[d] - b))

\* getKey depends on the field and the bits of the node only.
LEMMA StepIs ==
  /\ \A n, r : Step(n, r) = Way(n.dim, n.bit, r)
  /\ \A d \in Dims : \A b \in Bits[d], r \in Rules : Way(d, b, r) \in Int
PROOF
  <1>1. \A n, r : Step(n, r) = Way(n.dim, n.bit, r)
    BY DEF Step, Way, getKey
  <1>2. ASSUME NEW d \in Dims, NEW b \in Bits[d], NEW r \in Rules PROVE Way(d, b, r) \in Int
    <2>1. Key(Shr(Lo[r][d], Width[d] - b)) \in Nat
      BY TreeAssumption
    <2> QED BY <2>1 DEF Way, BIG
  <1> QED BY <1>1, <1>2

\* A path ends with its last step.
LEMMA PathEnd ==
  ASSUME NEW p \in Seq(Int)
  PROVE  /\ Len(p) \in Nat /\ DOMAIN p = 1 .. Len(p) /\ SubSeq(p, 1, Len(p)) = p
         /\ p = <<>> <=> Len(p) = 0
         /\ \A i \in DOMAIN p : /\ SubSeq(p, 1, i - 1) \in Seq(Int) /\ Len(SubSeq(p, 1, i - 1)) = i - 1
                                /\ i - 1 \in Nat /\ i - 1 < Len(p)
                                /\ \A j \in 1 .. i - 1 : SubSeq(p, 1, i - 1)[j] = p[j]
PROOF
  <1>1. Len(p) \in Nat /\ DOMAIN p = 1 .. Len(p) /\ (p = <<>> <=> Len(p) = 0)
    BY EmptySeq
  <1>2. SubSeq(p, 1, Len(p)) = p
    BY SubSeqFull
  <1>3. ASSUME NEW i \in DOMAIN p
        PROVE  /\ SubSeq(p, 1, i - 1) \in Seq(Int) /\ Len(SubSeq(p, 1, i - 1)) = i - 1
               /\ i - 1 \in Nat /\ i - 1 < Len(p)
               /\ \A j \in 1 .. i - 1 : SubSeq(p, 1, i - 1)[j] = p[j]
    <2>1. i \in 1 .. Len(p) /\ i - 1 \in Nat /\ i - 1 < Len(p)
      BY <1>1
    <2>2. 1 \in 1 .. Len(p) + 1 /\ i - 1 \in 1 - 1 .. Len(p)
      BY <1>1, <2>1
    <2>3. /\ SubSeq(p, 1, i - 1) \in Seq(Int) /\ Len(SubSeq(p, 1, i - 1)) = i - 1
          /\ \A j \in 1 .. i - 1 : SubSeq(p, 1, i - 1)[j] = p[j]
      BY <2>1
    <2> QED BY <2>1, <2>3
  <1> QED BY <1>1, <1>2, <1>3

\* Prefixes of paths of the same steps are the same.
LEMMA PrefixSame ==
  ASSUME NEW p \in Seq(Int), NEW q \in Seq(Int), NEW n \in Nat, n <= Len(p), n <= Len(q),
         \A i \in 1 .. n : p[i] = q[i]
  PROVE  SubSeq(p, 1, n) = SubSeq(q, 1, n)
PROOF
  <1>1. Len(p) \in Nat /\ Len(q) \in Nat
    OBVIOUS
  <1> QED BY <1>1

\* One more step.
LEMMA AppendPath ==
  ASSUME NEW p \in Seq(Int), NEW k \in Int
  PROVE  LET c == Append(p, k) IN
         /\ c \in Seq(Int) /\ Len(c) = Len(p) + 1 /\ DOMAIN c = 1 .. Len(p) + 1
         /\ c[Len(c)] = k /\ c # p /\ c # <<>>
         /\ \A i \in DOMAIN p : c[i] = p[i] /\ SubSeq(c, 1, i - 1) = SubSeq(p, 1, i - 1)
         /\ SubSeq(c, 1, Len(c) - 1) = p
PROOF
  <1> DEFINE c == Append(p, k)
  <1>1. Len(p) \in Nat /\ DOMAIN p = 1 .. Len(p)
    OBVIOUS
  <1>2. /\ c \in Seq(Int) /\ Len(c) = Len(p) + 1 /\ DOMAIN c = 1 .. Len(p) + 1
        /\ c[Len(p) + 1] = k /\ \A i \in DOMAIN p : c[i] = p[i]
    BY <1>1, AppendProperties
  <1> HIDE DEF c
  <1>3. c # p /\ c # <<>>
    BY <1>1, <1>2
  <1>4. ASSUME NEW n \in Nat, n <= Len(p) PROVE SubSeq(c, 1, n) = SubSeq(p, 1, n)
    <2>1. Len(p) \in Nat /\ Len(c) = Len(p) + 1 /\ c \in Seq(Int)
      BY <1>1, <1>2
    <2>2. n <= Len(c)
      BY <1>4, <2>1
    <2>3. \A i \in 1 .. n : i \in DOMAIN p
      BY <1>1, <1>4, <2>1
    <2>4. \A i \in 1 .. n : c[i] = p[i]
      BY <1>2, <2>3
    <2> QED BY <1>4, <2>1, <2>2, <2>4, PrefixSame
  <1>5. \A i \in DOMAIN p : SubSeq(c, 1, i - 1) = SubSeq(p, 1, i - 1)
    BY <1>1, <1>4
  <1>6. SubSeq(c, 1, Len(c) - 1) = p
    <2>1. Len(c) - 1 = Len(p) /\ SubSeq(p, 1, Len(p)) = p
      BY <1>1, <1>2, PathEnd
    <2> QED BY <1>1, <1>4, <2>1
  <1>7. c[Len(c)] = k
    BY <1>2
  <1>8. /\ c \in Seq(Int) /\ Len(c) = Len(p) + 1 /\ DOMAIN c = 1 .. Len(p) + 1
        /\ c[Len(c)] = k /\ c # p /\ c # <<>>
        /\ \A i \in DOMAIN p : c[i] = p[i] /\ SubSeq(c, 1, i - 1) = SubSeq(p, 1, i - 1)
        /\ SubSeq(c, 1, Len(c) - 1) = p
    <2>1. \A i \in DOMAIN p : c[i] = p[i] /\ SubSeq(c, 1, i - 1) = SubSeq(p, 1, i - 1)
      BY <1>2, <1>5, Zenon
    <2> QED BY <1>2, <1>3, <1>6, <1>7, <2>1, Zenon
  <1> QED BY <1>8, Zenon DEF c

\* Every path but the root is another with one more step.
LEMMA LastStep ==
  ASSUME NEW c \in Seq(Int), c # <<>>
  PROVE  LET p == SubSeq(c, 1, Len(c) - 1) IN
         p \in Seq(Int) /\ Len(c) \in DOMAIN c /\ c = Append(p, c[Len(c)])
PROOF
  <1> DEFINE p == SubSeq(c, 1, Len(c) - 1)
  <1>1. Len(c) \in Nat /\ DOMAIN c = 1 .. Len(c) /\ Len(c) # 0
    BY PathEnd
  <1>2. Len(c) \in DOMAIN c
    BY <1>1
  <1>3. p \in Seq(Int) /\ Len(p) = Len(c) - 1 /\ \A j \in 1 .. Len(c) - 1 : p[j] = c[j]
    BY <1>2, PathEnd
  <1> HIDE DEF p
  <1>4. c[Len(c)] \in Int
    BY <1>2
  <1> DEFINE k == c[Len(c)]
             d == Append(p, k)
             n == Len(c)
  <1>5. /\ d \in Seq(Int) /\ Len(d) = Len(p) + 1 /\ DOMAIN d = 1 .. Len(p) + 1
        /\ d[Len(d)] = k /\ \A i \in DOMAIN p : d[i] = p[i]
    <2> HIDE DEF k
    <2> QED BY <1>3, <1>4, AppendPath DEF k
  <1>6. DOMAIN p = 1 .. n - 1 /\ n \in Nat /\ n # 0 /\ Len(p) = n - 1
    BY <1>1, <1>3
  <1>7. Len(d) = n /\ DOMAIN d = 1 .. n /\ d[n] = c[n] /\ \A i \in 1 .. n - 1 : d[i] = c[i]
    <2> HIDE DEF d
    <2>1. Len(d) = n
      BY <1>5, <1>6
    <2> QED BY <1>3, <1>5, <1>6, <2>1
  <1> HIDE DEF d, n
  <1>8. \A i \in 1 .. n : i = n \/ i \in 1 .. n - 1
    BY <1>6
  <1>9. \A i \in 1 .. n : d[i] = c[i]
    BY <1>7, <1>8
  <1>10. Len(c) = n
    BY DEF n
  <1>11. d = c
    BY <1>5, <1>7, <1>9, <1>10, SeqEqual
  <1> QED BY <1>2, <1>3, <1>11 DEF p, d

\* What leads to a child.
LEMMA LeadsOn ==
  ASSUME NEW N, NEW p \in Seq(Int), NEW k \in Int, NEW r
  PROVE  Leads(N, Append(p, k), r) <=> Leads(N, p, r) /\ k = Step(N[p], r)
PROOF
  <1> DEFINE c == Append(p, k)
  <1>1. /\ c \in Seq(Int) /\ Len(c) = Len(p) + 1 /\ DOMAIN c = 1 .. Len(p) + 1
        /\ c[Len(c)] = k
        /\ \A i \in DOMAIN p : c[i] = p[i] /\ SubSeq(c, 1, i - 1) = SubSeq(p, 1, i - 1)
        /\ SubSeq(c, 1, Len(c) - 1) = p
    BY AppendPath
  <1>2. Len(p) \in Nat /\ DOMAIN p = 1 .. Len(p)
    OBVIOUS
  <1> HIDE DEF c
  <1>3. \A i : i \in DOMAIN c <=> i \in DOMAIN p \/ i = Len(c)
    BY <1>1, <1>2
  <1> DEFINE Sent(i) == c[i] = Step(N[SubSeq(c, 1, i - 1)], r)
  <1>4. Leads(N, c, r) <=> (\A i \in DOMAIN p : Sent(i)) /\ Sent(Len(c))
    <2>1. Leads(N, c, r) <=> \A i \in DOMAIN c : Sent(i)
      BY DEF Leads
    <2> HIDE DEF Sent
    <2> QED BY <1>3, <2>1, Zenon
  <1>5. (\A i \in DOMAIN p : Sent(i)) <=> Leads(N, p, r)
    BY <1>1 DEF Leads
  <1>6. Sent(Len(c)) <=> k = Step(N[p], r)
    BY <1>1
  <1>7. Leads(N, c, r) <=> Leads(N, p, r) /\ k = Step(N[p], r)
    <2> HIDE DEF Sent
    <2> QED BY <1>4, <1>5, <1>6
  <1> QED BY <1>7 DEF c

\* Every rule leads to the root.
LEMMA LeadsRoot ==
  ASSUME NEW N, NEW r
  PROVE  Leads(N, <<>>, r)
PROOF
  <1>1. DOMAIN <<>> = {}
    OBVIOUS
  <1> QED BY <1>1 DEF Leads

\* Trees that send rules the same way on a path have the same rules lead to its end.
LEMMA LeadsSame ==
  ASSUME NEW N, NEW M, NEW p,
         \A i \in DOMAIN p : LET q == SubSeq(p, 1, i - 1) IN
           N[q].dim = M[q].dim /\ N[q].bit = M[q].bit
  PROVE  LeadTo(N, p) = LeadTo(M, p)
PROOF
  <1>1. \A i \in DOMAIN p : \A r : Step(N[SubSeq(p, 1, i - 1)], r) = Step(M[SubSeq(p, 1, i - 1)], r)
    BY StepIs
  <1> QED BY <1>1 DEF LeadTo, Leads

\* No rule leads to two leaves.
LEMMA LeafOnce ==
  ASSUME NEW N, Typed(N), Branches(N), NEW p \in DOMAIN N, NEW q \in DOMAIN N,
         N[p].fun # "Hash", N[q].fun # "Hash", NEW r, Leads(N, p, r), Leads(N, q, r)
  PROVE  p = q
PROOF
  <1> DEFINE Shorter(a, b) == /\ a \in DOMAIN N /\ b \in DOMAIN N /\ N[a].fun # "Hash"
                              /\ N[b].fun # "Hash" /\ Leads(N, a, r) /\ Leads(N, b, r)
                              /\ Len(a) <= Len(b)
  <1>1. ASSUME NEW a, NEW b, Shorter(a, b) PROVE a = b
    <2>1. a \in Seq(Int) /\ b \in Seq(Int)
      BY <1>1 DEF Typed
    <2>2. /\ Len(a) \in Nat /\ DOMAIN a = 1 .. Len(a) /\ SubSeq(a, 1, Len(a)) = a
          /\ Len(b) \in Nat /\ DOMAIN b = 1 .. Len(b) /\ SubSeq(b, 1, Len(b)) = b
      BY <2>1, PathEnd
    <2> DEFINE Diff == {i \in 1 .. Len(a) : a[i] # b[i]}
    <2>3. Diff = {}
      <3>1. SUFFICES ASSUME Diff # {} PROVE FALSE
        OBVIOUS
      <3>2. Diff \in SUBSET (1 .. Len(a))
        OBVIOUS
      <3> HIDE DEF Diff
      <3>3. PICK i \in Diff : \A j \in Diff : i <= j
        BY <2>2, <3>1, <3>2, LeastIndex
      <3>4. i \in 1 .. Len(a) /\ a[i] # b[i]
        BY <3>3 DEF Diff
      <3>5. i \in DOMAIN a /\ i \in DOMAIN b /\ i - 1 \in Nat /\ i - 1 <= Len(a) /\ i - 1 <= Len(b)
        BY <1>1, <2>2, <3>4
      <3>6. \A j \in 1 .. i - 1 : a[j] = b[j]
        <4> SUFFICES ASSUME NEW j \in 1 .. i - 1, a[j] # b[j] PROVE FALSE
          OBVIOUS
        <4>1. j \in 1 .. Len(a) /\ j < i
          BY <2>2, <3>4
        <4>2. j \in Diff
          BY <4>1 DEF Diff
        <4> QED BY <2>2, <3>3, <3>4, <4>1, <4>2
      <3>7. SubSeq(a, 1, i - 1) = SubSeq(b, 1, i - 1)
        BY <2>1, <3>5, <3>6, PrefixSame
      <3>8. a[i] = b[i]
        BY <1>1, <3>5, <3>7 DEF Leads
      <3> QED BY <3>4, <3>8
    <2>4. SubSeq(b, 1, Len(a)) = a
      <3>1. \A i \in 1 .. Len(a) : b[i] = a[i]
        BY <2>3
      <3>2. SubSeq(b, 1, Len(a)) = SubSeq(a, 1, Len(a))
        BY <1>1, <2>1, <2>2, <3>1, PrefixSame
      <3> QED BY <2>2, <3>2
    <2>5. Len(a) = Len(b)
      <3>0. Len(a) \in Nat /\ Len(b) \in Nat /\ Len(a) <= Len(b)
        BY <1>1, <2>2
      <3> SUFFICES ASSUME Len(a) < Len(b) PROVE FALSE
        BY <3>0
      <3>1. Len(a) + 1 \in DOMAIN b /\ (Len(a) + 1) - 1 = Len(a)
        BY <2>2
      <3>2. N[SubSeq(b, 1, Len(a))].fun = "Hash"
        BY <1>1, <3>1 DEF Branches
      <3> QED BY <1>1, <2>4, <3>2
    <2> QED BY <2>2, <2>4, <2>5
  <1>2. Len(p) \in Nat /\ Len(q) \in Nat
    <2>1. p \in Seq(Int) /\ q \in Seq(Int)
      BY DEF Typed
    <2> QED BY <2>1
  <1>3. Len(p) <= Len(q) \/ Len(q) <= Len(p)
    BY <1>2
  <1>4. Shorter(p, q) \/ Shorter(q, p)
    BY <1>3
  <1> HIDE DEF Shorter
  <1> QED BY <1>1, <1>4

\* A field is hashed once on a path, so that a path is no longer than there are fields.
LEMMA DepthIs ==
  ASSUME NEW N, Typed(N), NEW p \in DOMAIN N
  PROVE  /\ p \in Seq(Int) /\ Len(p) \in Nat
         /\ Cardinality(Dims) \in Nat /\ Len(p) <= Cardinality(Dims)
PROOF
  <1>1. p \in Seq(Int) /\ N[p] \in Nodes /\ Cardinality(N[p].used) = Len(p)
    BY DEF Typed
  <1>2. N[p].used \in SUBSET Dims
    BY <1>1 DEF Nodes
  <1>3. IsFiniteSet(Dims) /\ Cardinality(Dims) \in Nat
    BY TreeAssumption, FS_CardinalityType
  <1>4. Cardinality(N[p].used) <= Cardinality(Dims)
    BY <1>2, <1>3, FS_Subset
  <1> QED BY <1>1, <1>3, <1>4

\* Every rule leads to some leaf: the longest of the paths that it leads to.
LEMMA LeafExists ==
  ASSUME NEW N, Shape(N), NEW r \in Rules
  PROVE  \E p \in DOMAIN N : N[p].fun # "Hash" /\ Leads(N, p, r)
PROOF
  <1> DEFINE K == Cardinality(Dims)
             P == {p \in DOMAIN N : Leads(N, p, r)}
             S == {n \in Nat : \E p \in P : n = K - Len(p)}
  <1>1. \A p \in P : p \in DOMAIN N /\ Leads(N, p, r)
    OBVIOUS
  <1>2. \A p \in P : p \in Seq(Int) /\ Len(p) \in Nat /\ K \in Nat /\ Len(p) <= K
    BY DepthIs DEF Shape
  <1>3. <<>> \in P
    BY LeadsRoot DEF Shape, Typed
  <1>4. \A p \in DOMAIN N : Leads(N, p, r) => p \in P
    OBVIOUS
  <1> HIDE DEF P, K
  <1>5. \A p \in P : K - Len(p) \in S
    BY <1>2
  <1>6. S \in SUBSET Nat /\ S # {}
    BY <1>3, <1>5
  <1> HIDE DEF S
  <1>7. PICK n \in S : \A m \in S : n <= m
    BY <1>6, LeastNumber
  <1>8. PICK p \in P : n = K - Len(p)
    BY <1>7 DEF S
  <1>9. CASE N[p].fun = "Hash"
    <2> DEFINE k == Step(N[p], r)
               c == Append(p, k)
    <2>1. p \in DOMAIN N /\ Leads(N, p, r) /\ p \in Seq(Int)
      BY <1>1, <1>2
    <2>2. c \in DOMAIN N /\ k \in Int
      <3>1. /\ N[p].dim \in Dims /\ N[p].bit \in Bits[N[p].dim] /\ r \in LeadTo(N, p)
            /\ \A q \in LeadTo(N, p) : Append(p, Step(N[p], q)) \in DOMAIN N
        BY <1>9, <2>1 DEF Shape, Hashes, LeadTo
      <3> QED BY <3>1, StepIs
    <2>3. Leads(N, c, r)
      <3> HIDE DEF k
      <3>1. Leads(N, Append(p, k), r) <=> Leads(N, p, r) /\ k = Step(N[p], r)
        BY <2>1, <2>2, LeadsOn
      <3> QED BY <2>1, <3>1 DEF k
    <2>4. Len(c) = Len(p) + 1
      <3> HIDE DEF k
      <3> QED BY <2>1, <2>2, AppendPath
    <2> HIDE DEF c
    <2>5. c \in P
      BY <1>4, <2>2, <2>3
    <2>6. n <= K - Len(c)
      BY <1>5, <1>7, <2>5
    <2>7. Len(p) \in Nat /\ K \in Nat
      BY <1>2
    <2> QED BY <1>8, <2>4, <2>6, <2>7
  <1> QED BY <1>1, <1>9

\* An update of r ends in the leaf r leads to.
LEMMA LeafOfIs ==
  ASSUME Shape(node), NEW r \in Rules
  PROVE  LeafOf(r) \in DOMAIN node /\ node[LeafOf(r)].fun # "Hash" /\ Leads(node, LeafOf(r), r)
PROOF
  <1>1. \E p \in DOMAIN node : node[p].fun # "Hash" /\ Leads(node, p, r)
    BY LeafExists
  <1> QED BY <1>1 DEF LeafOf, Leads

\* What the shape of a tree depends on.
SameWays(N, M) ==
  /\ DOMAIN M = DOMAIN N
  /\ \A p \in DOMAIN N :
       /\ M[p].dim = N[p].dim /\ M[p].bit = N[p].bit
       /\ M[p].maxBigPriority = N[p].maxBigPriority
       /\ M[p].fun = "Hash" <=> N[p].fun = "Hash"

\* A tree in which nodes branch as before has the same shape.
LEMMA ShapeSame ==
  ASSUME NEW N, NEW M, Shape(N), Typed(M), SameWays(N, M)
  PROVE  Shape(M) /\ \A p \in DOMAIN N : LeadTo(M, p) = LeadTo(N, p)
PROOF
  <1>1. DOMAIN M = DOMAIN N
    BY DEF SameWays
  <1>2. \A p \in DOMAIN N : M[p].dim = N[p].dim /\ M[p].bit = N[p].bit
    BY DEF SameWays
  <1>3. ASSUME NEW p \in DOMAIN N PROVE LeadTo(M, p) = LeadTo(N, p)
    <2>1. \A i \in DOMAIN p : SubSeq(p, 1, i - 1) \in DOMAIN N
      BY DEF Shape, Branches
    <2>2. \A i \in DOMAIN p : LET q == SubSeq(p, 1, i - 1) IN
            M[q].dim = N[q].dim /\ M[q].bit = N[q].bit
      BY <1>2, <2>1
    <2> QED BY <2>2, LeadsSame
  <1>4. Branches(M)
    BY <1>1 DEF Shape, Branches, SameWays
  <1>5. \A p \in DOMAIN N : \A r : Step(M[p], r) = Step(N[p], r)
    BY <1>2, StepIs
  <1>6. \A p \in DOMAIN N : BigAt(M, p) = BigAt(N, p)
    BY <1>3, <1>5 DEF BigAt
  <1>7. Hashes(M)
    <2> SUFFICES ASSUME NEW p \in DOMAIN M, M[p].fun = "Hash"
                 PROVE  /\ M[p].dim \in Dims /\ M[p].bit \in Bits[M[p].dim]
                        /\ \A r \in LeadTo(M, p) : Append(p, Step(M[p], r)) \in DOMAIN M
                        /\ M[p].maxBigPriority = Top(BigAt(M, p))
      BY DEF Hashes
    <2>1. p \in DOMAIN N /\ N[p].fun = "Hash" /\ M[p].maxBigPriority = N[p].maxBigPriority
      BY <1>1 DEF SameWays
    <2>2. /\ N[p].dim \in Dims /\ N[p].bit \in Bits[N[p].dim]
          /\ \A r \in LeadTo(N, p) : Append(p, Step(N[p], r)) \in DOMAIN N
          /\ N[p].maxBigPriority = Top(BigAt(N, p))
      BY <2>1 DEF Shape, Hashes
    <2> QED BY <1>1, <1>2, <1>3, <1>5, <1>6, <2>1, <2>2
  <1>8. Leaves(M)
    <2> SUFFICES ASSUME NEW p \in DOMAIN M
                 PROVE  /\ M[p].fun # "Hash" => M[p].maxBigPriority = -1
                        /\ p # <<>> => LeadTo(M, p) # {}
      BY DEF Leaves
    <2>1. p \in DOMAIN N /\ (M[p].fun = "Hash" <=> N[p].fun = "Hash")
          /\ M[p].maxBigPriority = N[p].maxBigPriority
      BY <1>1 DEF SameWays
    <2> QED BY <1>3, <2>1 DEF Shape, Leaves
  <1> QED BY <1>3, <1>4, <1>7, <1>8 DEF Shape
----------------------------------------------------------------------------
(***************************************************************************)
(* A tree that is to be built.                                             *)
(***************************************************************************)

\* A node ConstructClassifier has not seen yet has its rules and nothing else.
LEMMA NewNodeIs ==
  ASSUME NEW s \in Seq(Rules), NEW U \in SUBSET Dims
  PROVE  LET n == NewNode(s, U) IN
         /\ n \in Nodes /\ n.fun = "none" /\ n.rules = s /\ n.used = U /\ n.tmo = {}
         /\ n.maxBigPriority = -1 /\ n.reward = 0
PROOF
  <1> DEFINE n == NewNode(s, U)
  <1>1. /\ n.fun = "none" /\ n.rules = s /\ n.used = U /\ n.tmo = {}
        /\ n.maxBigPriority = -1 /\ n.reward = 0
    BY DEF NewNode
  <1>2. n \in Nodes
    BY DEF NewNode, Nodes
  <1> QED BY <1>1, <1>2

\* The tree with the root alone satisfies every part of the invariant.
LEMMA NewTreeIs ==
  /\ DOMAIN NewTree = {<<>>} /\ {p \in DOMAIN NewTree : NewTree[p].fun = "none"} = {<<>>}
  /\ Shape(NewTree) /\ RulesKept(NewTree) /\ Rewards(NewTree)
  /\ Nothing(NewTree) /\ Stores(NewTree, Rules) /\ New(NewTree, Rules)
PROOF
  <1> DEFINE N == NewTree
             n == NewNode(AllRules, {})
  <1>1. N = [p \in {<<>>} |-> n]
    BY DEF NewTree
  <1>2. /\ n \in Nodes /\ n.fun = "none" /\ n.rules = AllRules /\ n.used = {} /\ n.tmo = {}
        /\ n.maxBigPriority = -1 /\ n.reward = 0
    BY AllRulesIs, NewNodeIs
  <1> HIDE DEF N, n
  <1>3. DOMAIN N = {<<>>} /\ N[<<>>] = n
    BY <1>1
  <1>4. \A p \in DOMAIN N : p = <<>> /\ N[p] = n
    BY <1>3
  <1>5. LeadTo(N, <<>>) = Rules
    BY LeadsRoot DEF LeadTo
  <1>6. Rules # {} => LeadTo(N, <<>>) # {}
    BY <1>5
  <1>7. <<>> \in Seq(Int) /\ Len(<<>>) = 0 /\ DOMAIN <<>> = {}
    OBVIOUS
  <1>8. IsFiniteSet({}) /\ Cardinality({}) = 0
    BY FS_EmptySet
  <1>9. Typed(N)
    <2>1. N = [p \in DOMAIN N |-> N[p]]
      BY <1>1
    <2> QED BY <1>2, <1>3, <1>4, <1>7, <1>8, <2>1 DEF Typed
  <1>10. Branches(N)
    BY <1>4, <1>7 DEF Branches
  <1>11. Hashes(N)
    BY <1>2, <1>4 DEF Hashes
  <1>12. Leaves(N)
    BY <1>2, <1>4 DEF Leaves
  <1>13. Elements(AllRules) = Rules /\ BestFirst(AllRules)
    BY AllRulesIs
  <1>14. \A p \in DOMAIN N : Exact(N, p)
    BY <1>2, <1>4, <1>5, <1>13 DEF Exact
  <1>15. RulesKept(N)
    BY <1>14 DEF RulesKept, Exact
  <1>16. Rewards(N)
    <2>1. \A p : Merged(N, p) = {}
      BY <1>2, <1>4 DEF Merged
    <2>2. \A p : -Cardinality(Merged(N, p)) = 0
      BY <1>8, <2>1
    <2> QED BY <1>2, <1>4, <2>2 DEF Rewards
  <1>17. Nothing(N) /\ Stores(N, Rules)
    BY <1>2, <1>4 DEF Nothing, Stores
  <1>18. {p \in DOMAIN N : N[p].fun = "none"} = {<<>>}
    BY <1>2, <1>3, <1>4
  <1> QED BY <1>3, <1>9, <1>10, <1>11, <1>12, <1>14, <1>15, <1>16, <1>17, <1>18
          DEF Shape, New, N

----------------------------------------------------------------------------
(***************************************************************************)
(* Leaves are built.                                                       *)
(***************************************************************************)

\* A node becomes a leaf, and no node loses a rule.
LEMMA LeafBuilt ==
  ASSUME NEW N, NEW M, Shape(N), RulesKept(N), Typed(M), SameWays(N, M),
         NEW p \in DOMAIN N, N[p].fun = "none", M[p].fun \in {"linear", "TM"},
         \A q \in DOMAIN N : M[q].rules = N[q].rules /\ (q # p => M[q].fun = N[q].fun)
  PROVE  /\ Shape(M) /\ RulesKept(M) /\ \A q \in DOMAIN N : LeadTo(M, q) = LeadTo(N, q)
         /\ \A S : New(N, S) => New(M, S)
         /\ {q \in DOMAIN M : M[q].fun = "none"} = {q \in DOMAIN N : N[q].fun = "none"} \ {p}
PROOF
  <1>1. DOMAIN M = DOMAIN N
    BY DEF SameWays
  <1>2. Shape(M) /\ \A q \in DOMAIN N : LeadTo(M, q) = LeadTo(N, q)
    BY ShapeSame
  <1>3. \A q \in DOMAIN N : Exact(M, q) <=> Exact(N, q)
    BY <1>2 DEF Exact
  <1>4. RulesKept(M)
    <2> SUFFICES ASSUME NEW q \in DOMAIN N
                 PROVE  /\ M[q].fun # "linear" => Exact(M, q)
                        /\ Elements(M[q].rules) \subseteq LeadTo(M, q)
      BY <1>1 DEF RulesKept
    <2>1. /\ N[q].fun # "linear" => Exact(N, q)
          /\ Elements(N[q].rules) \subseteq LeadTo(N, q)
      BY DEF RulesKept
    <2>2. M[q].fun # "linear" => N[q].fun # "linear"
      OBVIOUS
    <2> QED BY <1>2, <1>3, <2>1, <2>2
  <1>5. \A S : New(N, S) => New(M, S)
    BY <1>1, <1>3 DEF New
  <1>6. {q \in DOMAIN M : M[q].fun = "none"} = {q \in DOMAIN N : N[q].fun = "none"} \ {p}
    BY <1>1
  <1> QED BY <1>2, <1>4, <1>5, <1>6

\* What TupleMerge leaves there are, and what rules they have, says what Merged is.
LEMMA MergedSame ==
  ASSUME NEW N, NEW M, DOMAIN M = DOMAIN N,
         \A q \in DOMAIN N : /\ M[q].fun = "TM" <=> N[q].fun = "TM"
                             /\ N[q].fun = "TM" => Elements(M[q].rules) = Elements(N[q].rules),
         NEW p
  PROVE  Merged(M, p) = Merged(N, p)
PROOF
  <1> QED BY DEF Merged

\* case linear of ConstructClassifier keeps the invariant.
LEMMA LinearBuilt ==
  ASSUME TreeInv, NEW p \in que, BuildLinear(p), UNCHANGED <<mode, binth, id, stored>>
  PROVE  TreeInv' /\ New(node', stored')
PROOF
  <1> DEFINE N == node
             M == node'
  <1>1. p \in DOMAIN N /\ N[p].fun = "none"
    BY DEF TreeInv
  <1>2. M = [N EXCEPT ![p].fun = "linear"] /\ que' = que \ {p}
    BY DEF BuildLinear
  <1>3. Shape(N) /\ Typed(N) /\ RulesKept(N) /\ Rewards(N)
    BY DEF TreeInv, Shape
  <1>4. \A q \in DOMAIN N : N[q] \in Nodes
    BY <1>3 DEF Typed
  <1>5. DOMAIN M = DOMAIN N /\ M = [q \in DOMAIN M |-> M[q]]
    BY <1>2
  <1>6. \A q \in DOMAIN N :
          /\ M[q].dim = N[q].dim /\ M[q].bit = N[q].bit /\ M[q].maxBigPriority = N[q].maxBigPriority
          /\ M[q].rules = N[q].rules /\ M[q].used = N[q].used /\ M[q].tmo = N[q].tmo
          /\ M[q].reward = N[q].reward /\ M[q] \in Nodes
          /\ M[q].fun = IF q = p THEN "linear" ELSE N[q].fun
    <2> SUFFICES ASSUME NEW q \in DOMAIN N
                 PROVE  /\ M[q].dim = N[q].dim /\ M[q].bit = N[q].bit
                        /\ M[q].maxBigPriority = N[q].maxBigPriority
                        /\ M[q].rules = N[q].rules /\ M[q].used = N[q].used /\ M[q].tmo = N[q].tmo
                        /\ M[q].reward = N[q].reward /\ M[q] \in Nodes
                        /\ M[q].fun = IF q = p THEN "linear" ELSE N[q].fun
      OBVIOUS
    <2>1. M[q] = IF q = p THEN [N[q] EXCEPT !.fun = "linear"] ELSE N[q]
      BY <1>2
    <2>2. N[q] \in Nodes
      BY <1>4
    <2> HIDE DEF N, M
    <2> QED BY <2>1, <2>2 DEF Nodes
  <1> HIDE DEF N, M
  <1>7. Typed(M)
    BY <1>3, <1>5, <1>6 DEF Typed
  <1>8. SameWays(N, M)
    BY <1>1, <1>5, <1>6 DEF SameWays
  <1>9. /\ Shape(M) /\ RulesKept(M) /\ \A q \in DOMAIN N : LeadTo(M, q) = LeadTo(N, q)
        /\ \A S : New(N, S) => New(M, S)
        /\ {q \in DOMAIN M : M[q].fun = "none"} = {q \in DOMAIN N : N[q].fun = "none"} \ {p}
    BY <1>1, <1>3, <1>6, <1>7, <1>8, LeafBuilt
  <1>10. \A q : Merged(M, q) = Merged(N, q)
    BY <1>1, <1>5, <1>6, MergedSame
  <1>11. Rewards(M)
    BY <1>3, <1>5, <1>6, <1>10 DEF Rewards
  <1>12. ASSUME NEW S, Stores(N, S) PROVE Stores(M, S)
    <2> SUFFICES ASSUME NEW q \in DOMAIN N
                 PROVE  M[q].tmo = IF M[q].fun = "TM" THEN LeadTo(M, q) \cap S ELSE {}
      BY <1>5 DEF Stores
    <2>1. N[q].tmo = IF N[q].fun = "TM" THEN LeadTo(N, q) \cap S ELSE {}
      BY <1>12 DEF Stores
    <2> QED BY <1>1, <1>6, <1>9, <2>1
  <1>13. Nothing(N) => Nothing(M)
    BY <1>5, <1>6 DEF Nothing
  <1>30. New(N, stored)
    BY DEF TreeInv, N
  <1>31. New(M, stored')
    BY <1>9, <1>30
  <1> QED BY <1>2, <1>9, <1>11, <1>12, <1>13, <1>31 DEF TreeInv, N, M

\* addReward changes the reward and nothing else.
LEMMA RewardedIs ==
  ASSUME NEW n \in Nodes, NEW x \in Int
  PROVE  LET m == addReward(n, x) IN
         /\ m \in Nodes /\ m.reward = n.reward + x
         /\ m.dim = n.dim /\ m.bit = n.bit /\ m.maxBigPriority = n.maxBigPriority
         /\ m.rules = n.rules /\ m.used = n.used /\ m.tmo = n.tmo /\ m.fun = n.fun
PROOF
  <1> DEFINE m == addReward(n, x)
             y == n.reward + x
  <1>1. m = [n EXCEPT !.reward = y]
    BY DEF addReward
  <1>2. y \in Int
    BY DEF Nodes
  <1> HIDE DEF m, y
  <1>3. /\ m \in Nodes /\ m.reward = y
        /\ m.dim = n.dim /\ m.bit = n.bit /\ m.maxBigPriority = n.maxBigPriority
        /\ m.rules = n.rules /\ m.used = n.used /\ m.tmo = n.tmo /\ m.fun = n.fun
    BY <1>1, <1>2 DEF Nodes
  <1> QED BY <1>3 DEF m, y

\* A TupleMerge leaf takes its rules from the reward of the nodes above it.
LEMMA TMBuilt ==
  ASSUME TreeInv, NEW p \in que, BuildTM(p), UNCHANGED <<mode, binth, id, stored>>
  PROVE  TreeInv' /\ New(node', stored')
PROOF
  <1> DEFINE N == node
             M == node'
             s == N[p].rules
             E == Elements(s)
             less(q) == IF q \in Above(p) THEN Len(s) ELSE 0
             T == IF mode = "build" THEN E ELSE {}
             B == [N EXCEPT ![p].fun = "TM", ![p].tmo = T]
  <1>1. p \in DOMAIN N /\ N[p].fun = "none"
    BY DEF TreeInv
  <1>2. /\ M = [q \in DOMAIN N |-> IF q \in Above(p) THEN addReward(B[q], -Len(s)) ELSE B[q]]
        /\ que' = que \ {p}
    BY DEF BuildTM
  <1>3. Shape(N) /\ Typed(N) /\ RulesKept(N) /\ Rewards(N) /\ Branches(N)
    BY DEF TreeInv, Shape
  <1>4. \A q \in DOMAIN N : N[q] \in Nodes
    BY <1>3 DEF Typed
  <1>6. E = LeadTo(N, p) /\ Len(s) = Cardinality(E) /\ Len(s) \in Nat /\ s \in Seq(Rules)
        /\ E \subseteq Rules
    <2>1. s \in Seq(Rules)
      BY <1>1, <1>4 DEF Nodes
    <2>2. E = LeadTo(N, p) /\ BestFirst(s)
      BY <1>1, <1>3 DEF RulesKept, Exact
    <2>3. Len(s) = Cardinality(E)
      BY <2>1, <2>2, BestFirstCount
    <2>4. Len(s) \in Nat
      BY <2>1
    <2>5. LeadTo(N, p) \subseteq Rules
      BY DEF LeadTo
    <2> QED BY <2>1, <2>2, <2>3, <2>4, <2>5
  <1>7. T \subseteq Rules
    BY <1>6
  <1>20. mode = "build" => stored = Rules
    BY DEF TreeInv, New
  <1>21. mode \in {"train", "build"}
    BY DEF TreeInv
  <1> HIDE DEF E
  <1>22. mode = "build" => T = E
    OBVIOUS
  <1>23. mode = "train" => T = {}
    OBVIOUS
  <1> HIDE DEF T
  <1> DEFINE c == [N[p] EXCEPT !.fun = "TM"]
  <1>24. /\ B[p] = [c EXCEPT !.tmo = T]
         /\ \A q \in DOMAIN N \ {p} : B[q] = N[q]
    BY <1>1
  <1>25. \A q \in DOMAIN N :
          /\ B[q].dim = N[q].dim /\ B[q].bit = N[q].bit /\ B[q].maxBigPriority = N[q].maxBigPriority
          /\ B[q].rules = N[q].rules /\ B[q].used = N[q].used
          /\ B[q].tmo = IF q = p THEN T ELSE N[q].tmo
          /\ B[q].reward = N[q].reward /\ B[q] \in Nodes
          /\ B[q].fun = IF q = p THEN "TM" ELSE N[q].fun
    <2> SUFFICES ASSUME NEW q \in DOMAIN N
                 PROVE  /\ B[q].dim = N[q].dim /\ B[q].bit = N[q].bit
                        /\ B[q].maxBigPriority = N[q].maxBigPriority
                        /\ B[q].rules = N[q].rules /\ B[q].used = N[q].used
                        /\ B[q].tmo = IF q = p THEN T ELSE N[q].tmo
                        /\ B[q].reward = N[q].reward /\ B[q] \in Nodes
                        /\ B[q].fun = IF q = p THEN "TM" ELSE N[q].fun
      OBVIOUS
    <2> HIDE DEF N, B
    <2>1. CASE q # p
      BY <1>4, <1>24, <2>1
    <2>2. CASE q = p
      <3>1. N[q] \in Nodes /\ c = [N[q] EXCEPT !.fun = "TM"]
        BY <1>4, <2>2
      <3> HIDE DEF c
      <3>2. B[q] = [c EXCEPT !.tmo = T]
        BY <1>24, <2>2
      <3>3. c \in Nodes /\ c.fun = "TM" /\ c.dim = N[q].dim /\ c.bit = N[q].bit
            /\ c.maxBigPriority = N[q].maxBigPriority /\ c.rules = N[q].rules
            /\ c.used = N[q].used /\ c.reward = N[q].reward
        BY <3>1 DEF Nodes
      <3> QED BY <1>7, <2>2, <3>2, <3>3 DEF Nodes
    <2> QED BY <2>1, <2>2
  <1> HIDE DEF B
  <1>5. DOMAIN M = DOMAIN N /\ M = [q \in DOMAIN M |-> M[q]]
    BY <1>2
  <1>26. \A q \in DOMAIN N : M[q] = IF q \in Above(p) THEN addReward(B[q], -Len(s)) ELSE B[q]
    BY <1>2
  <1>8. \A q \in DOMAIN N :
          /\ M[q].dim = N[q].dim /\ M[q].bit = N[q].bit /\ M[q].maxBigPriority = N[q].maxBigPriority
          /\ M[q].rules = N[q].rules /\ M[q].used = N[q].used
          /\ M[q].tmo = IF q = p THEN T ELSE N[q].tmo
          /\ M[q].reward = N[q].reward - less(q) /\ M[q] \in Nodes
          /\ M[q].fun = IF q = p THEN "TM" ELSE N[q].fun
    <2> DEFINE L == Len(s)
    <2>0. L \in Nat
      BY <1>6
    <2> HIDE DEF N, M, L
    <2>1. ASSUME NEW b \in Nodes, NEW d, d = addReward(b, -L)
          PROVE  /\ d \in Nodes /\ d.reward = b.reward - L
                 /\ d.dim = b.dim /\ d.bit = b.bit /\ d.maxBigPriority = b.maxBigPriority
                 /\ d.rules = b.rules /\ d.used = b.used /\ d.tmo = b.tmo /\ d.fun = b.fun
      <3>1. -L \in Int /\ b.reward \in Int /\ b.reward + (-L) = b.reward - L
        BY <2>0 DEF Nodes
      <3> DEFINE x == -L
      <3> HIDE DEF x
      <3>2. /\ d \in Nodes /\ d.reward = b.reward + x
            /\ d.dim = b.dim /\ d.bit = b.bit /\ d.maxBigPriority = b.maxBigPriority
            /\ d.rules = b.rules /\ d.used = b.used /\ d.tmo = b.tmo /\ d.fun = b.fun
        BY <2>1, <3>1, RewardedIs DEF x
      <3> QED BY <3>1, <3>2 DEF x
    <2> SUFFICES ASSUME NEW q \in DOMAIN N
                 PROVE  /\ M[q].dim = N[q].dim /\ M[q].bit = N[q].bit
                        /\ M[q].maxBigPriority = N[q].maxBigPriority
                        /\ M[q].rules = N[q].rules /\ M[q].used = N[q].used
                        /\ M[q].tmo = IF q = p THEN T ELSE N[q].tmo
                        /\ M[q].reward = N[q].reward - less(q) /\ M[q] \in Nodes
                        /\ M[q].fun = IF q = p THEN "TM" ELSE N[q].fun
      OBVIOUS
    <2>2. CASE q \in Above(p)
      <3>1. M[q] = addReward(B[q], -L) /\ less(q) = L /\ B[q] \in Nodes
        BY <1>25, <1>26, <2>2 DEF L
      <3> HIDE DEF less
      <3> QED BY <1>25, <2>1, <3>1
    <2>3. CASE q \notin Above(p)
      <3>1. M[q] = B[q] /\ less(q) = 0
        BY <1>26, <2>3
      <3>2. N[q].reward \in Int
        BY <1>4 DEF Nodes
      <3>3. N[q].reward = N[q].reward - less(q)
        BY <3>1, <3>2
      <3> HIDE DEF less
      <3> QED BY <1>25, <3>1, <3>3
    <2> QED BY <2>2, <2>3
  <1>9. \A q \in DOMAIN N : less(q) = IF q \in Above(p) THEN Len(s) ELSE 0
    OBVIOUS
  <1> HIDE DEF N, M, less, s
  <1>10. Typed(M)
    BY <1>3, <1>5, <1>8 DEF Typed
  <1>11. SameWays(N, M)
    BY <1>1, <1>5, <1>8 DEF SameWays
  <1>12. /\ Shape(M) /\ RulesKept(M) /\ \A q \in DOMAIN N : LeadTo(M, q) = LeadTo(N, q)
         /\ \A S : New(N, S) => New(M, S)
         /\ {q \in DOMAIN M : M[q].fun = "none"} = {q \in DOMAIN N : N[q].fun = "none"} \ {p}
    BY <1>1, <1>3, <1>8, <1>10, <1>11, LeafBuilt
  <1>13. Rewards(M)
    <2> SUFFICES ASSUME NEW q \in DOMAIN N PROVE M[q].reward = -Cardinality(Merged(M, q))
      BY <1>5 DEF Rewards
    <2>1. N[q].reward = -Cardinality(Merged(N, q)) /\ M[q].reward = N[q].reward - less(q)
      BY <1>3, <1>8 DEF Rewards
    <2>2. Merged(N, q) \in SUBSET Rules /\ E \in SUBSET Rules
      BY <1>6 DEF Merged
    <2>3. Merged(M, q) = Merged(N, q) \cup (IF q \in Above(p) THEN E ELSE {})
      <3>1. \A r \in Rules : r \in Merged(M, q) <=>
              \E l \in DOMAIN M : q \in Above(l) /\ M[l].fun = "TM" /\ r \in Elements(M[l].rules)
        BY DEF Merged
      <3>2. \A r \in Rules : r \in Merged(N, q) <=>
              \E l \in DOMAIN N : q \in Above(l) /\ N[l].fun = "TM" /\ r \in Elements(N[l].rules)
        BY DEF Merged
      <3>3. \A r \in Rules : r \in Merged(M, q) <=>
              r \in Merged(N, q) \/ (q \in Above(p) /\ r \in E)
        BY <1>1, <1>5, <1>8, <3>1, <3>2 DEF E, s
      <3>4. Merged(M, q) \subseteq Rules
        BY DEF Merged
      <3> QED BY <2>2, <3>3, <3>4
    <2>4. Merged(N, q) \cap E = {}
      <3> SUFFICES ASSUME NEW r \in Merged(N, q), r \in E PROVE FALSE
        OBVIOUS
      <3>1. PICK l \in DOMAIN N : N[l].fun = "TM" /\ r \in Elements(N[l].rules)
        BY DEF Merged
      <3>2. Leads(N, l, r) /\ Leads(N, p, r)
        BY <1>3, <1>6, <3>1 DEF RulesKept, LeadTo
      <3>3. l = p
        BY <1>1, <1>3, <3>1, <3>2, LeafOnce
      <3> QED BY <1>1, <3>1, <3>3
    <2> HIDE DEF E
    <2>5. /\ Cardinality(Merged(N, q)) \in Nat /\ Cardinality(E) \in Nat
          /\ Cardinality(Merged(N, q) \cup E) = Cardinality(Merged(N, q)) + Cardinality(E)
      <3>1. IsFiniteSet(Merged(N, q)) /\ IsFiniteSet(E)
            /\ Cardinality(Merged(N, q)) \in Nat /\ Cardinality(E) \in Nat
        BY <2>2, PrioIs
      <3>2. Cardinality(Merged(N, q) \cup E)
              = Cardinality(Merged(N, q)) + Cardinality(E) - Cardinality(Merged(N, q) \cap E)
        BY <3>1, FS_Union
      <3>3. Cardinality(Merged(N, q) \cap E) = 0
        BY <2>4, FS_EmptySet
      <3> QED BY <3>1, <3>2, <3>3
    <2>6. CASE q \in Above(p)
      <3>1. less(q) = Cardinality(E) /\ Merged(M, q) = Merged(N, q) \cup E
        BY <1>6, <1>9, <2>3, <2>6
      <3> QED BY <2>1, <2>5, <3>1
    <2>7. CASE q \notin Above(p)
      <3>1. less(q) = 0 /\ Merged(M, q) = Merged(N, q)
        BY <1>9, <2>3, <2>7
      <3> QED BY <2>1, <2>5, <3>1
    <2> QED BY <2>6, <2>7
  <1>14. ASSUME mode = "build", Stores(N, stored) PROVE Stores(M, stored)
    <2> SUFFICES ASSUME NEW q \in DOMAIN N
                 PROVE  M[q].tmo = IF M[q].fun = "TM" THEN LeadTo(M, q) \cap stored ELSE {}
      BY <1>5 DEF Stores
    <2>1. N[q].tmo = IF N[q].fun = "TM" THEN LeadTo(N, q) \cap stored ELSE {}
      BY <1>14 DEF Stores
    <2>2. T = LeadTo(N, p) \cap stored
      BY <1>6, <1>14, <1>20, <1>22
    <2> QED BY <1>8, <1>12, <2>1, <2>2
  <1>15. ASSUME mode = "train", Nothing(N) PROVE Nothing(M)
    BY <1>5, <1>8, <1>15, <1>23 DEF Nothing
  <1>16. que' = {q \in DOMAIN M : M[q].fun = "none"}
    BY <1>2, <1>12 DEF TreeInv, N
  <1> HIDE DEF less
  <1>30. New(N, stored)
    BY DEF TreeInv, N
  <1>31. New(M, stored')
    BY <1>12, <1>30
  <1> QED BY <1>2, <1>12, <1>13, <1>14, <1>15, <1>31 DEF TreeInv, N, M

----------------------------------------------------------------------------
(***************************************************************************)
(* A node that hashes, and its children.                                   *)
(***************************************************************************)

\* A node that does not hash has no children.
LEMMA ChildrenNew ==
  ASSUME NEW N, Typed(N), Branches(N), NEW p \in DOMAIN N, N[p].fun # "Hash", NEW k \in Int
  PROVE  Append(p, k) \notin DOMAIN N
PROOF
  <1> SUFFICES ASSUME Append(p, k) \in DOMAIN N PROVE FALSE
    OBVIOUS
  <1> DEFINE c == Append(p, k)
  <1>1. p \in Seq(Int) /\ Len(p) \in Nat
    BY DEF Typed
  <1>2. /\ Len(c) = Len(p) + 1 /\ DOMAIN c = 1 .. Len(p) + 1
        /\ SubSeq(c, 1, Len(c) - 1) = p
    BY <1>1, AppendPath
  <1> HIDE DEF c
  <1>3. Len(c) \in DOMAIN c
    BY <1>1, <1>2
  <1>4. N[SubSeq(c, 1, Len(c) - 1)].fun = "Hash"
    BY <1>3 DEF Branches, c
  <1> QED BY <1>2, <1>4

\* The nodes above a node are in the tree.
LEMMA AboveIn ==
  ASSUME NEW N, Typed(N), Branches(N), NEW p \in DOMAIN N
  PROVE  Above(p) \subseteq DOMAIN N
PROOF
  <1>1. p \in Seq(Int)
    BY DEF Typed
  <1>2. Len(p) \in Nat /\ DOMAIN p = 1 .. Len(p) /\ SubSeq(p, 1, Len(p)) = p
    BY <1>1, PathEnd
  <1>3. ASSUME NEW i \in 0 .. Len(p) PROVE SubSeq(p, 1, i) \in DOMAIN N
    <2>1. CASE i = Len(p)
      BY <1>2, <2>1
    <2>2. CASE i # Len(p)
      <3>1. i \in Int /\ i >= 0 /\ i <= Len(p) /\ Len(p) \in Nat
        BY <1>2
      <3> DEFINE j == i + 1
      <3>2. j \in DOMAIN p /\ j - 1 = i
        <4>1. j \in 1 .. Len(p) /\ j - 1 = i
          BY <2>2, <3>1
        <4> HIDE DEF j
        <4> QED BY <1>2, <4>1
      <3> HIDE DEF j
      <3>3. SubSeq(p, 1, j - 1) \in DOMAIN N
        BY <3>2 DEF Branches
      <3> QED BY <3>2, <3>3
    <2> QED BY <2>1, <2>2
  <1> QED BY <1>3 DEF Above

\* the rules that lead to p and are sent on with k, by b bits of field d
Sent(N, p, d, b, k) == {r \in LeadTo(N, p) : Way(d, b, r) = k}
Children(N, p, d, b) == {Append(p, Way(d, b, r)) : r \in LeadTo(N, p)}

\* a node just made for the rules of S
Fresh(n, S, used) ==
  /\ n \in Nodes /\ n.fun = "none" /\ n.used = used /\ n.tmo = {}
  /\ n.maxBigPriority = -1 /\ n.reward = 0
  /\ Elements(n.rules) = S /\ BestFirst(n.rules)

\* what hashing makes of the node p of N
Hashed(N, M, p, d, b) ==
  /\ M = [q \in DOMAIN M |-> M[q]] /\ DOMAIN M = DOMAIN N \cup Children(N, p, d, b)
  /\ \A q \in DOMAIN N \ {p} : M[q] = N[q]
  /\ M[p] \in Nodes /\ M[p].fun = "Hash" /\ M[p].dim = d /\ M[p].bit = b
  /\ M[p].rules = N[p].rules /\ M[p].used = N[p].used /\ M[p].tmo = N[p].tmo
  /\ M[p].reward = N[p].reward /\ M[p].maxBigPriority = Top(Sent(N, p, d, b, BIG))
  /\ \A k \in Int : Append(p, k) \in Children(N, p, d, b) =>
       Fresh(M[Append(p, k)], Sent(N, p, d, b, k), N[p].used \cup {d})

\* The old nodes have the rules they had, the children those that are sent there.
LEMMA HashedWays ==
  ASSUME NEW N, NEW M, Typed(N), Branches(N), NEW p \in DOMAIN N, N[p].fun = "none",
         NEW d \in Dims, NEW b \in Bits[d], Hashed(N, M, p, d, b)
  PROVE  /\ \A q \in DOMAIN N : LeadTo(M, q) = LeadTo(N, q)
         /\ \A r : Step(M[p], r) = Way(d, b, r)
         /\ \A k \in Int : LeadTo(M, Append(p, k)) = Sent(N, p, d, b, k)
PROOF
  <1>1. ASSUME NEW q \in DOMAIN N PROVE LeadTo(M, q) = LeadTo(N, q)
    <2>1. \A i \in DOMAIN q : SubSeq(q, 1, i - 1) \in DOMAIN N \ {p}
      BY DEF Branches
    <2>2. \A i \in DOMAIN q : M[SubSeq(q, 1, i - 1)] = N[SubSeq(q, 1, i - 1)]
      BY <2>1 DEF Hashed
    <2> QED BY <2>2, LeadsSame
  <1>2. \A r : Step(M[p], r) = Way(d, b, r)
    BY StepIs DEF Hashed
  <1>3. ASSUME NEW k \in Int PROVE LeadTo(M, Append(p, k)) = Sent(N, p, d, b, k)
    <2>1. p \in Seq(Int)
      BY DEF Typed
    <2>2. \A r : Leads(M, Append(p, k), r) <=> Leads(M, p, r) /\ k = Step(M[p], r)
      BY <2>1, LeadsOn
    <2>3. \A r \in Rules : Leads(M, p, r) <=> r \in LeadTo(N, p)
      BY <1>1 DEF LeadTo
    <2>4. \A r \in Rules : r \in LeadTo(M, Append(p, k)) <=> r \in LeadTo(N, p) /\ Way(d, b, r) = k
      BY <1>2, <2>2, <2>3 DEF LeadTo
    <2>5. LeadTo(N, p) \subseteq Rules /\ LeadTo(M, Append(p, k)) \subseteq Rules
      BY DEF LeadTo
    <2> QED BY <2>4, <2>5 DEF Sent
  <1> QED BY <1>1, <1>2, <1>3

\* Every child is there for some rule.
LEMMA ChildIs ==
  ASSUME NEW N, NEW p \in Seq(Int), NEW d \in Dims, NEW b \in Bits[d],
         NEW c \in Children(N, p, d, b)
  PROVE  \E k \in Int : c = Append(p, k) /\ Sent(N, p, d, b, k) # {}
PROOF
  <1>1. PICK r \in LeadTo(N, p) : c = Append(p, Way(d, b, r))
    BY DEF Children
  <1>2. r \in Rules
    BY DEF LeadTo
  <1>3. Way(d, b, r) \in Int
    BY <1>2, StepIs
  <1>4. r \in Sent(N, p, d, b, Way(d, b, r))
    BY DEF Sent
  <1> QED BY <1>1, <1>3, <1>4

\* The children that case Hash adds have their types, and hang below hash nodes.
LEMMA HashedTyped ==
  ASSUME NEW N, NEW M, Typed(N), Branches(N), NEW p \in DOMAIN N, N[p].fun = "none",
         NEW d \in Dims \ N[p].used, NEW b \in Bits[d], Hashed(N, M, p, d, b)
  PROVE  Typed(M) /\ Branches(M)
PROOF
  <1>1. p \in Seq(Int) /\ Len(p) \in Nat /\ DOMAIN p = 1 .. Len(p)
    BY DEF Typed
  <1>2. IsFiniteSet(N[p].used \cup {d}) /\ Cardinality(N[p].used \cup {d}) = Len(p) + 1
    <2>1. IsFiniteSet(N[p].used) /\ Cardinality(N[p].used) = Len(p) /\ d \notin N[p].used
      BY DEF Typed
    <2> QED BY <2>1, FS_AddElement
  <1>3. ASSUME NEW q \in DOMAIN M
        PROVE  q \in DOMAIN N \ {p} \/ q = p \/ q \in Children(N, p, d, b)
    BY DEF Hashed
  <1>4. ASSUME NEW q \in Children(N, p, d, b)
        PROVE  \E k \in Int : q = Append(p, k)
    <2>1. d \in Dims
      OBVIOUS
    <2>2. p \in Seq(Int)
      BY <1>1
    <2>3. \E k \in Int : q = Append(p, k) /\ Sent(N, p, d, b, k) # {}
      BY <2>1, <2>2, ChildIs
    <2> QED BY <2>3
  <1>5. \A q \in DOMAIN M : /\ q \in Seq(Int) /\ M[q] \in Nodes
                            /\ IsFiniteSet(M[q].used) /\ Cardinality(M[q].used) = Len(q)
    <2> SUFFICES ASSUME NEW q \in DOMAIN M
                 PROVE  /\ q \in Seq(Int) /\ M[q] \in Nodes
                        /\ IsFiniteSet(M[q].used) /\ Cardinality(M[q].used) = Len(q)
      OBVIOUS
    <2>1. CASE q \in DOMAIN N \ {p}
      BY <2>1 DEF Hashed, Typed
    <2>2. CASE q = p
      BY <2>2 DEF Hashed, Typed
    <2>3. CASE q \in Children(N, p, d, b)
      <3>1. PICK k \in Int : q = Append(p, k)
        BY <1>4, <2>3
      <3>2. M[q] \in Nodes /\ M[q].used = N[p].used \cup {d}
        BY <2>3, <3>1 DEF Hashed, Fresh
      <3>3. q \in Seq(Int) /\ Len(q) = Len(p) + 1
        BY <1>1, <3>1, AppendPath
      <3> QED BY <1>2, <3>2, <3>3
    <2> QED BY <1>3, <2>1, <2>2, <2>3
  <1>6. Typed(M)
    BY <1>5 DEF Typed, Hashed
  <1>7. ASSUME NEW q \in DOMAIN N, NEW i \in DOMAIN q
        PROVE  SubSeq(q, 1, i - 1) \in DOMAIN M /\ M[SubSeq(q, 1, i - 1)].fun = "Hash"
    <2>1. SubSeq(q, 1, i - 1) \in DOMAIN N /\ N[SubSeq(q, 1, i - 1)].fun = "Hash"
      BY DEF Branches
    <2> QED BY <2>1 DEF Hashed
  <1>8. ASSUME NEW q \in Children(N, p, d, b), NEW i \in DOMAIN q
        PROVE  SubSeq(q, 1, i - 1) \in DOMAIN M /\ M[SubSeq(q, 1, i - 1)].fun = "Hash"
    <2>1. PICK k \in Int : q = Append(p, k)
      BY <1>4
    <2>2. /\ Len(q) = Len(p) + 1 /\ DOMAIN q = 1 .. Len(p) + 1
          /\ \A j \in DOMAIN p : SubSeq(q, 1, j - 1) = SubSeq(p, 1, j - 1)
          /\ SubSeq(q, 1, Len(q) - 1) = p
      BY <1>1, <2>1, AppendPath
    <2>3. i \in DOMAIN p \/ i = Len(q)
      BY <1>1, <2>2
    <2>4. CASE i \in DOMAIN p
      <3>1. SubSeq(q, 1, i - 1) = SubSeq(p, 1, i - 1)
        BY <2>2, <2>4
      <3>2. SubSeq(p, 1, i - 1) \in DOMAIN M /\ M[SubSeq(p, 1, i - 1)].fun = "Hash"
        BY <1>7, <2>4
      <3> QED BY <3>1, <3>2
    <2>5. CASE i = Len(q)
      <3>1. SubSeq(q, 1, i - 1) = p
        BY <2>2, <2>5
      <3> QED BY <3>1 DEF Hashed
    <2> QED BY <2>3, <2>4, <2>5
  <1>9. Branches(M)
    BY <1>3, <1>7, <1>8 DEF Branches
  <1> QED BY <1>6, <1>9

\* Case Hash keeps the shape of the tree.
LEMMA HashedShape ==
  ASSUME NEW N, NEW M, Shape(N), NEW p \in DOMAIN N, N[p].fun = "none",
         NEW d \in Dims \ N[p].used, NEW b \in Bits[d], Hashed(N, M, p, d, b)
  PROVE  Shape(M)
PROOF
  <1>1. Typed(N) /\ Branches(N) /\ Hashes(N) /\ Leaves(N) /\ p \in Seq(Int)
    BY DEF Shape, Typed
  <1>2. /\ \A q \in DOMAIN N : LeadTo(M, q) = LeadTo(N, q)
        /\ \A r : Step(M[p], r) = Way(d, b, r)
        /\ \A k \in Int : LeadTo(M, Append(p, k)) = Sent(N, p, d, b, k)
    BY <1>1, HashedWays
  <1>3. Typed(M) /\ Branches(M)
    BY <1>1, HashedTyped
  <1>4. /\ DOMAIN M = DOMAIN N \cup Children(N, p, d, b)
        /\ \A q \in DOMAIN N \ {p} : M[q] = N[q]
        /\ M[p].fun = "Hash" /\ M[p].dim = d /\ M[p].bit = b
        /\ M[p].maxBigPriority = Top(Sent(N, p, d, b, BIG))
    BY DEF Hashed
  <1>5. ASSUME NEW q \in Children(N, p, d, b)
        PROVE  LeadTo(M, q) # {} /\ M[q].fun = "none" /\ M[q].maxBigPriority = -1
    <2>1. PICK k \in Int : q = Append(p, k) /\ Sent(N, p, d, b, k) # {}
      BY <1>1, ChildIs
    <2>2. M[q].fun = "none" /\ M[q].maxBigPriority = -1
      BY <2>1 DEF Hashed, Fresh
    <2> QED BY <1>2, <2>1, <2>2
  <1>6. BigAt(M, p) = Sent(N, p, d, b, BIG)
    BY <1>2 DEF BigAt, Sent
  <1>7. \A r \in LeadTo(M, p) : Append(p, Step(M[p], r)) \in DOMAIN M
    BY <1>2, <1>4 DEF Children
  <1>8. Hashes(M)
    <2> SUFFICES ASSUME NEW q \in DOMAIN M, M[q].fun = "Hash"
                 PROVE  /\ M[q].dim \in Dims /\ M[q].bit \in Bits[M[q].dim]
                        /\ \A r \in LeadTo(M, q) : Append(q, Step(M[q], r)) \in DOMAIN M
                        /\ M[q].maxBigPriority = Top(BigAt(M, q))
      BY DEF Hashes
    <2>1. CASE q = p
      BY <1>4, <1>6, <1>7, <2>1
    <2>2. CASE q \in DOMAIN N \ {p}
      <3>1. M[q] = N[q] /\ LeadTo(M, q) = LeadTo(N, q) /\ N[q].fun = "Hash"
        BY <1>2, <1>4, <2>2
      <3>2. /\ N[q].dim \in Dims /\ N[q].bit \in Bits[N[q].dim]
            /\ \A r \in LeadTo(N, q) : Append(q, Step(N[q], r)) \in DOMAIN N
            /\ N[q].maxBigPriority = Top(BigAt(N, q))
        BY <1>1, <2>2, <3>1 DEF Hashes
      <3>3. BigAt(M, q) = BigAt(N, q)
        BY <3>1 DEF BigAt
      <3> QED BY <1>4, <3>1, <3>2, <3>3
    <2> QED BY <1>4, <1>5, <2>1, <2>2
  <1>9. Leaves(M)
    <2> SUFFICES ASSUME NEW q \in DOMAIN M
                 PROVE  /\ M[q].fun # "Hash" => M[q].maxBigPriority = -1
                        /\ q # <<>> => LeadTo(M, q) # {}
      BY DEF Leaves
    <2>1. CASE q \in DOMAIN N
      BY <1>1, <1>2, <1>4, <2>1 DEF Leaves
    <2>2. CASE q \in Children(N, p, d, b)
      BY <1>5, <2>2
    <2> QED BY <1>4, <2>1, <2>2
  <1> QED BY <1>3, <1>8, <1>9 DEF Shape

\* The rules of a hashed node are shared out, and nothing is lost.
LEMMA HashedKeeps ==
  ASSUME NEW N, NEW M, Shape(N), NEW p \in DOMAIN N, N[p].fun = "none", RulesKept(N),
         NEW d \in Dims \ N[p].used, NEW b \in Bits[d], Hashed(N, M, p, d, b)
  PROVE  /\ RulesKept(M) /\ \A S : New(N, S) => New(M, S)
         /\ \A S : Stores(N, S) => Stores(M, S)
         /\ Nothing(N) => Nothing(M)
         /\ {q \in DOMAIN M : M[q].fun = "none"}
              = ({q \in DOMAIN N : N[q].fun = "none"} \ {p}) \cup Children(N, p, d, b)
PROOF
  <1> DEFINE C == Children(N, p, d, b)
  <1>1. Typed(N) /\ Branches(N) /\ p \in Seq(Int) /\ d \in Dims
    BY DEF Shape, Typed
  <1>2. /\ \A q \in DOMAIN N : LeadTo(M, q) = LeadTo(N, q)
        /\ \A r : Step(M[p], r) = Way(d, b, r)
        /\ \A k \in Int : LeadTo(M, Append(p, k)) = Sent(N, p, d, b, k)
    BY <1>1, HashedWays
  <1>3. DOMAIN M = DOMAIN N \cup C /\ \A q \in DOMAIN N \ {p} : M[q] = N[q]
    BY DEF Hashed
  <1>4. M[p].fun = "Hash" /\ M[p].rules = N[p].rules /\ M[p].tmo = N[p].tmo
    BY DEF Hashed
  <1>5. \A q \in C : M[q].fun = "none" /\ M[q].tmo = {} /\ Exact(M, q)
    <2> SUFFICES ASSUME NEW q \in C PROVE M[q].fun = "none" /\ M[q].tmo = {} /\ Exact(M, q)
      OBVIOUS
    <2>1. \E k \in Int : q = Append(p, k) /\ Sent(N, p, d, b, k) # {}
      BY <1>1, ChildIs
    <2>2. PICK k \in Int : q = Append(p, k)
      BY <2>1
    <2>3. Fresh(M[q], Sent(N, p, d, b, k), N[p].used \cup {d})
      BY <2>2 DEF Hashed
    <2> QED BY <1>2, <2>2, <2>3 DEF Fresh, Exact
  <1>6. \A q \in C : q \notin DOMAIN N
    <2> SUFFICES ASSUME NEW q \in C PROVE q \notin DOMAIN N
      OBVIOUS
    <2>1. \E k \in Int : q = Append(p, k) /\ Sent(N, p, d, b, k) # {}
      BY <1>1, ChildIs
    <2>2. PICK k \in Int : q = Append(p, k)
      BY <2>1
    <2> QED BY <1>1, <2>2, ChildrenNew
  <1> HIDE DEF C
  <1>7. ASSUME NEW q \in DOMAIN N
        PROVE  /\ M[q].rules = N[q].rules /\ M[q].tmo = N[q].tmo
               /\ M[q].fun = IF q = p THEN "Hash" ELSE N[q].fun
               /\ Exact(M, q) <=> Exact(N, q)
    BY <1>2, <1>3, <1>4 DEF Exact
  <1>8. RulesKept(M)
    <2> SUFFICES ASSUME NEW q \in DOMAIN M
                 PROVE  /\ M[q].fun # "linear" => Exact(M, q)
                        /\ Elements(M[q].rules) \subseteq LeadTo(M, q)
      BY DEF RulesKept
    <2>1. CASE q \in DOMAIN N
      BY <1>2, <1>7, <2>1 DEF RulesKept
    <2>2. CASE q \in C
      BY <1>5, <2>2 DEF Exact
    <2> QED BY <1>3, <2>1, <2>2
  <1>9. \A S : New(N, S) => New(M, S)
    BY <1>3, <1>5, <1>7 DEF New
  <1>10. ASSUME NEW S, Stores(N, S) PROVE Stores(M, S)
    <2> SUFFICES ASSUME NEW q \in DOMAIN M
                 PROVE  M[q].tmo = IF M[q].fun = "TM" THEN LeadTo(M, q) \cap S ELSE {}
      BY DEF Stores
    <2>1. CASE q \in DOMAIN N
      <3>1. N[q].tmo = IF N[q].fun = "TM" THEN LeadTo(N, q) \cap S ELSE {}
        BY <1>10, <2>1 DEF Stores
      <3> QED BY <1>2, <1>7, <2>1, <3>1
    <2>2. CASE q \in C
      BY <1>5, <2>2
    <2> QED BY <1>3, <2>1, <2>2
  <1>11. Nothing(N) => Nothing(M)
    BY <1>3, <1>5, <1>7 DEF Nothing
  <1>12. {q \in DOMAIN M : M[q].fun = "none"} = ({q \in DOMAIN N : N[q].fun = "none"} \ {p}) \cup C
    BY <1>3, <1>5, <1>7
  <1> QED BY <1>8, <1>9, <1>10, <1>11, <1>12 DEF C

\* No rule is merged yet at the children.
LEMMA HashedRewards ==
  ASSUME NEW N, NEW M, Shape(N), NEW p \in DOMAIN N, N[p].fun = "none", Rewards(N),
         NEW d \in Dims \ N[p].used, NEW b \in Bits[d], Hashed(N, M, p, d, b)
  PROVE  Rewards(M)
PROOF
  <1> DEFINE C == Children(N, p, d, b)
  <1>1. Typed(N) /\ Branches(N) /\ p \in Seq(Int) /\ d \in Dims
    BY DEF Shape, Typed
  <1>2. DOMAIN M = DOMAIN N \cup C /\ \A q \in DOMAIN N \ {p} : M[q] = N[q]
    BY DEF Hashed
  <1>3. M[p].fun = "Hash" /\ M[p].reward = N[p].reward
    BY DEF Hashed
  <1>4. ASSUME NEW q \in C PROVE M[q].fun = "none" /\ M[q].reward = 0 /\ q \notin DOMAIN N
    <2>1. \E k \in Int : q = Append(p, k) /\ Sent(N, p, d, b, k) # {}
      BY <1>1, ChildIs
    <2>2. PICK k \in Int : q = Append(p, k)
      BY <2>1
    <2>3. Fresh(M[q], Sent(N, p, d, b, k), N[p].used \cup {d})
      BY <2>2 DEF Hashed
    <2>4. q \notin DOMAIN N
      BY <1>1, <2>2, ChildrenNew
    <2> QED BY <2>3, <2>4 DEF Fresh
  <1> HIDE DEF C
  <1>5. ASSUME NEW q PROVE Merged(M, q) = Merged(N, q)
    <2>1. \A l : l \in DOMAIN M /\ M[l].fun = "TM" <=> l \in DOMAIN N /\ N[l].fun = "TM"
      BY <1>2, <1>3, <1>4
    <2>2. \A l \in DOMAIN N : N[l].fun = "TM" => M[l].rules = N[l].rules
      BY <1>2
    <2> QED BY <2>1, <2>2 DEF Merged
  <1>6. ASSUME NEW q \in C PROVE Merged(N, q) = {}
    <2> SUFFICES ASSUME NEW l \in DOMAIN N, q \in Above(l) PROVE FALSE
      BY DEF Merged
    <2>1. q \in DOMAIN N
      BY <1>1, AboveIn
    <2> QED BY <1>4, <2>1
  <1>7. -Cardinality({}) = 0
    <2>1. Cardinality({}) = 0
      BY FS_EmptySet
    <2> QED BY <2>1
  <1> SUFFICES ASSUME NEW q \in DOMAIN M PROVE M[q].reward = -Cardinality(Merged(M, q))
    BY DEF Rewards
  <1>8. CASE q \in DOMAIN N
    <2>1. M[q].reward = N[q].reward
      BY <1>2, <1>3, <1>8
    <2> QED BY <1>5, <1>8, <2>1 DEF Rewards
  <1>9. CASE q \in C
    BY <1>4, <1>5, <1>6, <1>7, <1>9
  <1> QED BY <1>2, <1>8, <1>9

\* The node that case Hash hashes keeps its rules, and takes the dimension and the bits.
LEMMA HashingIs ==
  ASSUME NEW n \in Nodes, NEW a, a[1] \in Int, a[2] \in Int
  PROVE  LET m == Hashing(n, a) IN
         /\ m \in Nodes /\ m.fun = "Hash" /\ m.dim = a[1] /\ m.bit = a[2]
         /\ m.rules = n.rules /\ m.used = n.used /\ m.tmo = n.tmo /\ m.reward = n.reward
PROOF
  <1> DEFINE d == a[1]
             b == a[2]
             m0 == [n EXCEPT !.fun = "Hash"]
             m1 == [m0 EXCEPT !.dim = d]
             m2 == [m1 EXCEPT !.bit = b]
  <1>1. Hashing(n, a) = m2
    BY Zenon DEF Hashing
  <1>2. d \in Int /\ b \in Int
    OBVIOUS
  <1>3. /\ m0 \in Nodes /\ m0.fun = "Hash"
        /\ m0.rules = n.rules /\ m0.used = n.used /\ m0.tmo = n.tmo /\ m0.reward = n.reward
    BY DEF Nodes
  <1> HIDE DEF m0, d, b
  <1>4. /\ m1 \in Nodes /\ m1.fun = "Hash" /\ m1.dim = d
        /\ m1.rules = n.rules /\ m1.used = n.used /\ m1.tmo = n.tmo /\ m1.reward = n.reward
    BY <1>2, <1>3 DEF Nodes
  <1> HIDE DEF m1
  <1>5. /\ m2 \in Nodes /\ m2.fun = "Hash" /\ m2.dim = d /\ m2.bit = b
        /\ m2.rules = n.rules /\ m2.used = n.used /\ m2.tmo = n.tmo /\ m2.reward = n.reward
    BY <1>2, <1>4 DEF Nodes
  <1> HIDE DEF m2
  <1>6. /\ Hashing(n, a) \in Nodes /\ Hashing(n, a).fun = "Hash"
        /\ Hashing(n, a).dim = a[1] /\ Hashing(n, a).bit = a[2]
        /\ Hashing(n, a).rules = n.rules /\ Hashing(n, a).used = n.used
        /\ Hashing(n, a).tmo = n.tmo /\ Hashing(n, a).reward = n.reward
    BY <1>1, <1>5 DEF d, b
  <1> QED BY <1>6

\* Case Hash of ConstructClassifier keeps the invariant.
LEMMA HashBuilt ==
  ASSUME TreeInv, NEW p \in que, BuildHash(p), UNCHANGED <<mode, binth, id, stored>>
  PROVE  TreeInv' /\ New(node', stored')
PROOF
  <1> DEFINE N == node
             M == node'
             n(a) == Hashing(N[p], a)
             sub(a, k) == Sublist(n(a).rules, {r \in Rules : Step(n(a), r) = k})
             children(a) == {Append(p, Step(n(a), r)) : r \in Elements(n(a).rules)}
             After(a) ==
               [q \in DOMAIN N \cup children(a) |->
                  IF q = p THEN [n(a) EXCEPT !.maxBigPriority = MaxBig(sub(a, BIG))]
                  ELSE IF q \in children(a)
                       THEN NewNode(sub(a, q[Len(q)]), n(a).used \cup {n(a).dim})
                       ELSE N[q]]
  <1>1. p \in DOMAIN N /\ N[p].fun = "none"
    BY DEF TreeInv
  <1>2. PICK a \in HashActions(N[p]) : M = After(a) /\ que' = (que \ {p}) \cup children(a)
    BY DEF BuildHash
  <1>3. PICK d \in Dims \ N[p].used : a[1] = d /\ a[2] \in Bits[d]
    BY DEF HashActions, Actions
  <1> DEFINE b == a[2]
             s == N[p].rules
             S(k) == Sublist(s, {r \in Rules : Way(d, b, r) = k})
             C == Children(N, p, d, b)
  <1>4. Shape(N) /\ Typed(N) /\ Branches(N) /\ RulesKept(N) /\ Rewards(N)
    BY DEF TreeInv, Shape
  <1>5. p \in Seq(Int) /\ N[p] \in Nodes /\ d \in Dims /\ b \in Bits[d] /\ b \in Int /\ d \in Int
    <2>1. d \in Fields /\ b \in 0 .. Width[d]
      BY <1>3, TreeAssumption
    <2>2. d \in Int
      BY <2>1, PrefixAssumption
    <2> QED BY <1>1, <1>3, <1>4, <2>1, <2>2 DEF Typed
  <1> DEFINE m == n(a)
  <1>6. /\ m \in Nodes /\ m.fun = "Hash" /\ m.dim = d /\ m.bit = b
        /\ m.rules = s /\ m.used = N[p].used /\ m.tmo = N[p].tmo /\ m.reward = N[p].reward
    BY <1>3, <1>5, HashingIs
  <1>7. s \in Seq(Rules) /\ Elements(s) = LeadTo(N, p) /\ BestFirst(s)
    <2>1. s \in Seq(Rules)
      BY <1>5 DEF Nodes
    <2>2. Elements(s) = LeadTo(N, p) /\ BestFirst(s)
      BY <1>1, <1>4 DEF RulesKept, Exact
    <2> QED BY <2>1, <2>2
  <1>8. \A k : S(k) \in Seq(Rules) /\ BestFirst(S(k)) /\ Elements(S(k)) = Sent(N, p, d, b, k)
    <2> SUFFICES ASSUME NEW k
                 PROVE  S(k) \in Seq(Rules) /\ BestFirst(S(k)) /\ Elements(S(k)) = Sent(N, p, d, b, k)
      OBVIOUS
    <2> DEFINE R == {r \in Rules : Way(d, b, r) = k}
    <2> HIDE DEF s, R
    <2>1. Sublist(s, R) \in Seq(Rules) /\ Elements(Sublist(s, R)) = Elements(s) \cap R
      BY <1>7, SublistIs
    <2>2. BestFirst(Sublist(s, R))
      BY <1>7, SublistBestFirst
    <2>3. Elements(s) \cap R = Sent(N, p, d, b, k)
      <3>1. LeadTo(N, p) \subseteq Rules
        BY DEF LeadTo
      <3> QED BY <1>7, <3>1 DEF Sent, R
    <2> QED BY <2>1, <2>2, <2>3 DEF R
  <1>9. \A r : Step(m, r) = Way(d, b, r)
    BY <1>6, StepIs
  <1>10. \A k : sub(a, k) = S(k)
    BY <1>6, <1>9
  <1>11. children(a) = C
    BY <1>6, <1>7, <1>9 DEF Children
  <1>12. DOMAIN M = DOMAIN N \cup C /\ M = [q \in DOMAIN M |-> M[q]]
    BY <1>2, <1>11
  <1>13. ASSUME NEW k \in Int PROVE Append(p, k) \notin DOMAIN N
    BY <1>1, <1>4, <1>13, ChildrenNew
  <1>14. \A q \in C : q \notin DOMAIN N
    <2> SUFFICES ASSUME NEW q \in C PROVE q \notin DOMAIN N
      OBVIOUS
    <2>1. \E k \in Int : q = Append(p, k) /\ Sent(N, p, d, b, k) # {}
      BY <1>5, ChildIs
    <2> QED BY <1>13, <2>1
  <1>15. M[p] = [m EXCEPT !.maxBigPriority = MaxBig(S(BIG))]
    BY <1>1, <1>2, <1>10
  <1>16. \A q \in DOMAIN N \ {p} : M[q] = N[q]
    BY <1>2, <1>11, <1>14
  <1>17. \A q \in C : M[q] = NewNode(S(q[Len(q)]), N[p].used \cup {d})
    <2> SUFFICES ASSUME NEW q \in C PROVE M[q] = NewNode(S(q[Len(q)]), N[p].used \cup {d})
      OBVIOUS
    <2>1. q # p /\ q \in children(a)
      BY <1>1, <1>11, <1>14
    <2>2. M[q] = NewNode(sub(a, q[Len(q)]), n(a).used \cup {n(a).dim})
      BY <1>2, <2>1
    <2> QED BY <1>6, <1>10, <2>2
  <1>18. que' = (que \ {p}) \cup C
    BY <1>2, <1>11
  <1> HIDE DEF N, M, n, b, s, S, C, sub, children, After, m
  <1>19. /\ M[p] \in Nodes /\ M[p].fun = "Hash" /\ M[p].dim = d /\ M[p].bit = b
         /\ M[p].rules = N[p].rules /\ M[p].used = N[p].used /\ M[p].tmo = N[p].tmo
         /\ M[p].reward = N[p].reward /\ M[p].maxBigPriority = Top(Sent(N, p, d, b, BIG))
    <2> DEFINE x == MaxBig(S(BIG))
    <2>1. x = Top(Sent(N, p, d, b, BIG))
      BY <1>8 DEF MaxBig
    <2>2. Sent(N, p, d, b, BIG) \in SUBSET Rules
      BY DEF Sent, LeadTo
    <2>3. x \in Nat \cup {-1}
      BY <2>1, <2>2, TopIs
    <2> HIDE DEF x
    <2>4. M[p] = [m EXCEPT !.maxBigPriority = x]
      BY <1>15 DEF x
    <2>5. s = N[p].rules
      BY DEF s
    <2> QED BY <1>6, <2>1, <2>3, <2>4, <2>5 DEF Nodes
  <1>20. ASSUME NEW k \in Int, Append(p, k) \in C
         PROVE  Fresh(M[Append(p, k)], Sent(N, p, d, b, k), N[p].used \cup {d})
    <2> DEFINE q == Append(p, k)
               U == N[p].used \cup {d}
    <2>1. q[Len(q)] = k
      BY <1>5, AppendPath
    <2>2. M[q] = NewNode(S(k), U)
      BY <1>17, <1>20, <2>1
    <2>3. S(k) \in Seq(Rules) /\ BestFirst(S(k)) /\ Elements(S(k)) = Sent(N, p, d, b, k)
      BY <1>8
    <2>4. U \in SUBSET Dims
      BY <1>5 DEF Nodes
    <2> HIDE DEF q, U
    <2>5. LET x == NewNode(S(k), U) IN
          /\ x \in Nodes /\ x.fun = "none" /\ x.rules = S(k) /\ x.used = U /\ x.tmo = {}
          /\ x.maxBigPriority = -1 /\ x.reward = 0
      BY <2>3, <2>4, NewNodeIs
    <2> QED BY <2>2, <2>3, <2>5 DEF Fresh, q, U
  <1>21. Hashed(N, M, p, d, b)
    BY <1>12, <1>16, <1>19, <1>20 DEF Hashed, C
  <1>22. Shape(M)
    BY <1>1, <1>4, <1>5, <1>21, HashedShape
  <1>23. Rewards(M)
    BY <1>1, <1>4, <1>5, <1>21, HashedRewards
  <1>24. /\ RulesKept(M) /\ \A R : New(N, R) => New(M, R)
         /\ \A R : Stores(N, R) => Stores(M, R)
         /\ Nothing(N) => Nothing(M)
         /\ {q \in DOMAIN M : M[q].fun = "none"}
              = ({q \in DOMAIN N : N[q].fun = "none"} \ {p}) \cup Children(N, p, d, b)
    <2>1. b \in Bits[d] /\ d \in Dims \ N[p].used /\ p \in DOMAIN N
      BY <1>1, <1>5
    <2>2. RulesKept(M)
      BY <1>1, <1>4, <1>21, <2>1, HashedKeeps
    <2>3. \A R : New(N, R) => New(M, R)
      BY <1>1, <1>4, <1>21, <2>1, HashedKeeps
    <2>4. \A R : Stores(N, R) => Stores(M, R)
      BY <1>1, <1>4, <1>21, <2>1, HashedKeeps
    <2>5. Nothing(N) => Nothing(M)
      BY <1>1, <1>4, <1>21, <2>1, HashedKeeps
    <2>6. {q \in DOMAIN M : M[q].fun = "none"}
              = ({q \in DOMAIN N : N[q].fun = "none"} \ {p}) \cup Children(N, p, d, b)
      BY <1>1, <1>4, <1>21, <2>1, HashedKeeps
    <2> QED BY <2>2, <2>3, <2>4, <2>5, <2>6
  <1>25. que' = {q \in DOMAIN M : M[q].fun = "none"}
    BY <1>18, <1>24 DEF TreeInv, N, C
  <1>30. New(N, stored)
    BY DEF TreeInv, N
  <1>31. New(M, stored')
    BY <1>24, <1>30
  <1> QED BY <1>22, <1>23, <1>24, <1>25, <1>31 DEF TreeInv, N, M

----------------------------------------------------------------------------
(***************************************************************************)
(* Updates.                                                                *)
(***************************************************************************)

\* what an update does to the leaf p
Updated(N, M, p) ==
  /\ DOMAIN M = DOMAIN N /\ M = [q \in DOMAIN M |-> M[q]]
  /\ \A q \in DOMAIN N \ {p} : M[q] = N[q]
  /\ M[p] \in Nodes /\ M[p].fun = N[p].fun /\ M[p].used = N[p].used
  /\ M[p].dim = N[p].dim /\ M[p].bit = N[p].bit
  /\ M[p].maxBigPriority = N[p].maxBigPriority /\ M[p].reward = N[p].reward
  /\ N[p].fun = "linear" => Elements(M[p].rules) \subseteq LeadTo(N, p)
  /\ N[p].fun # "linear" => M[p].rules = N[p].rules

\* An update of the rules of one leaf keeps the shape of the tree, the lists and the rewards.
LEMMA UpdatedKeeps ==
  ASSUME NEW N, NEW M, Shape(N), RulesKept(N), Rewards(N), NEW p \in DOMAIN N, Updated(N, M, p)
  PROVE  /\ Shape(M) /\ RulesKept(M) /\ Rewards(M)
         /\ \A q \in DOMAIN N : LeadTo(M, q) = LeadTo(N, q)
         /\ {q \in DOMAIN M : M[q].fun = "none"} = {q \in DOMAIN N : N[q].fun = "none"}
PROOF
  <1>1. /\ DOMAIN M = DOMAIN N /\ M = [q \in DOMAIN M |-> M[q]]
        /\ \A q \in DOMAIN N : /\ M[q].fun = N[q].fun /\ M[q].used = N[q].used
                               /\ M[q].dim = N[q].dim /\ M[q].bit = N[q].bit
                               /\ M[q].maxBigPriority = N[q].maxBigPriority
                               /\ M[q].reward = N[q].reward
                               /\ N[q].fun # "linear" => M[q].rules = N[q].rules
                               /\ N[q].fun = "linear" =>
                                    q = p \/ M[q].rules = N[q].rules
    BY DEF Updated
  <1>2. \A q \in DOMAIN N : M[q] \in Nodes
    BY DEF Updated, Shape, Typed
  <1>3. Typed(M)
    BY <1>1, <1>2 DEF Shape, Typed
  <1>4. SameWays(N, M)
    BY <1>1 DEF SameWays
  <1>5. Shape(M) /\ \A q \in DOMAIN N : LeadTo(M, q) = LeadTo(N, q)
    BY <1>3, <1>4, ShapeSame
  <1>6. RulesKept(M)
    <2> SUFFICES ASSUME NEW q \in DOMAIN N
                 PROVE  /\ M[q].fun # "linear" => Exact(M, q)
                        /\ Elements(M[q].rules) \subseteq LeadTo(M, q)
      BY <1>1 DEF RulesKept
    <2>1. /\ N[q].fun # "linear" => Exact(N, q)
          /\ Elements(N[q].rules) \subseteq LeadTo(N, q)
      BY DEF RulesKept
    <2>2. CASE M[q].rules = N[q].rules
      BY <1>1, <1>5, <2>1, <2>2 DEF Exact
    <2>3. CASE M[q].rules # N[q].rules
      <3>1. q = p /\ N[p].fun = "linear"
        BY <1>1, <2>3
      <3> QED BY <1>1, <1>5, <3>1 DEF Updated
    <2> QED BY <2>2, <2>3
  <1>7. \A q : Merged(M, q) = Merged(N, q)
    <2>1. \A q \in DOMAIN N : /\ M[q].fun = "TM" <=> N[q].fun = "TM"
                              /\ N[q].fun = "TM" => Elements(M[q].rules) = Elements(N[q].rules)
      BY <1>1
    <2> QED BY <1>1, <2>1, MergedSame
  <1>8. Rewards(M)
    BY <1>1, <1>7 DEF Rewards
  <1>9. {q \in DOMAIN M : M[q].fun = "none"} = {q \in DOMAIN N : N[q].fun = "none"}
    BY <1>1
  <1> QED BY <1>5, <1>6, <1>8, <1>9

\* No other TupleMerge leaf has the rules of a leaf.
LEMMA OtherLeaves ==
  ASSUME NEW N, Shape(N), NEW p \in DOMAIN N, N[p].fun # "Hash", NEW r, Leads(N, p, r),
         NEW q \in DOMAIN N, q # p, N[q].fun = "TM"
  PROVE  r \notin LeadTo(N, q)
PROOF
  <1> SUFFICES ASSUME Leads(N, q, r) PROVE FALSE
    BY DEF LeadTo
  <1>1. Typed(N) /\ Branches(N)
    BY DEF Shape
  <1>2. N[q].fun # "Hash"
    OBVIOUS
  <1> QED BY <1>1, <1>2, LeafOnce

\* What an update of r makes of the leaves, when what it makes of r's leaf is right.
LEMMA UpdatedStores ==
  ASSUME NEW N, NEW M, Shape(N), RulesKept(N), Rewards(N), NEW p \in DOMAIN N, Updated(N, M, p),
         NEW r, Leads(N, p, r), N[p].fun # "Hash", NEW S, NEW T, Stores(N, S),
         \A x : x # r => (x \in S <=> x \in T),
         M[p].tmo = IF N[p].fun = "TM" THEN LeadTo(N, p) \cap T ELSE {}
  PROVE  Stores(M, T)
PROOF
  <1>1. /\ \A q \in DOMAIN N : LeadTo(M, q) = LeadTo(N, q)
        /\ Shape(M)
    BY UpdatedKeeps
  <1> SUFFICES ASSUME NEW q \in DOMAIN N
               PROVE  M[q].tmo = IF M[q].fun = "TM" THEN LeadTo(M, q) \cap T ELSE {}
    BY DEF Stores, Updated
  <1>2. CASE q = p
    BY <1>1, <1>2 DEF Updated
  <1>3. CASE q # p
    <2>1. M[q] = N[q] /\ N[q].tmo = IF N[q].fun = "TM" THEN LeadTo(N, q) \cap S ELSE {}
      BY <1>3 DEF Updated, Stores
    <2>2. N[q].fun = "TM" => LeadTo(N, q) \cap S = LeadTo(N, q) \cap T
      <3> SUFFICES ASSUME N[q].fun = "TM" PROVE LeadTo(N, q) \cap S = LeadTo(N, q) \cap T
        OBVIOUS
      <3>1. r \notin LeadTo(N, q)
        BY <1>3, OtherLeaves
      <3> QED BY <3>1
    <2> QED BY <1>1, <2>1, <2>2
  <1> QED BY <1>2, <1>3

\* the rules of the list at p become t, those of the TupleMerge classifier S
SetList(N, p, t) == [N EXCEPT ![p].rules = t]
SetTM(N, p, S) == [N EXCEPT ![p].tmo = S]

\* An update of a vector is an update of the leaf that has it.
LEMMA ListUpdated ==
  ASSUME NEW N, NEW M, Typed(N), NEW p \in DOMAIN N, N[p].fun = "linear",
         NEW t \in Seq(Rules), Elements(t) \subseteq LeadTo(N, p),
         M = SetList(N, p, t)
  PROVE  Updated(N, M, p) /\ M[p].tmo = N[p].tmo
PROOF
  <1>1. N[p] \in Nodes
    BY DEF Typed
  <1>2. /\ M[p] = [N[p] EXCEPT !.rules = t] /\ DOMAIN M = DOMAIN N
        /\ M = [q \in DOMAIN M |-> M[q]] /\ \A q \in DOMAIN N \ {p} : M[q] = N[q]
    BY DEF SetList
  <1>3. /\ M[p] \in Nodes /\ M[p].rules = t /\ M[p].fun = N[p].fun /\ M[p].used = N[p].used
        /\ M[p].dim = N[p].dim /\ M[p].bit = N[p].bit
        /\ M[p].maxBigPriority = N[p].maxBigPriority /\ M[p].reward = N[p].reward
        /\ M[p].tmo = N[p].tmo
    <2> DEFINE n == N[p]
               m == M[p]
    <2>1. n \in Nodes /\ m = [n EXCEPT !.rules = t]
      BY <1>1, <1>2
    <2> HIDE DEF n, m
    <2>2. /\ m \in Nodes /\ m.rules = t /\ m.fun = n.fun /\ m.used = n.used
          /\ m.dim = n.dim /\ m.bit = n.bit
          /\ m.maxBigPriority = n.maxBigPriority /\ m.reward = n.reward /\ m.tmo = n.tmo
      BY <2>1 DEF Nodes
    <2> QED BY <2>2 DEF n, m
  <1> QED BY <1>2, <1>3 DEF Updated

\* An update of the TupleMerge tables is an update of the leaf that has them.
LEMMA TMUpdated ==
  ASSUME NEW N, NEW M, Typed(N), NEW p \in DOMAIN N, N[p].fun = "TM", NEW S \in SUBSET Rules,
         M = SetTM(N, p, S)
  PROVE  Updated(N, M, p) /\ M[p].tmo = S
PROOF
  <1>1. N[p] \in Nodes
    BY DEF Typed
  <1>2. /\ M[p] = [N[p] EXCEPT !.tmo = S] /\ DOMAIN M = DOMAIN N
        /\ M = [q \in DOMAIN M |-> M[q]] /\ \A q \in DOMAIN N \ {p} : M[q] = N[q]
    BY DEF SetTM
  <1>3. /\ M[p] \in Nodes /\ M[p].rules = N[p].rules /\ M[p].fun = N[p].fun
        /\ M[p].used = N[p].used /\ M[p].dim = N[p].dim /\ M[p].bit = N[p].bit
        /\ M[p].maxBigPriority = N[p].maxBigPriority /\ M[p].reward = N[p].reward
        /\ M[p].tmo = S
    <2> DEFINE n == N[p]
               m == M[p]
    <2>1. n \in Nodes /\ m = [n EXCEPT !.tmo = S]
      BY <1>1, <1>2
    <2> HIDE DEF n, m
    <2>2. /\ m \in Nodes /\ m.rules = n.rules /\ m.fun = n.fun /\ m.used = n.used
          /\ m.dim = n.dim /\ m.bit = n.bit
          /\ m.maxBigPriority = n.maxBigPriority /\ m.reward = n.reward /\ m.tmo = S
      BY <2>1 DEF Nodes
    <2> QED BY <2>2 DEF n, m
  <1> QED BY <1>2, <1>3 DEF Updated

\* InsertRule and DeleteRule keep the invariant: r goes to, or leaves, the one leaf it leads to.
LEMMA UpdateKeeps ==
  ASSUME TreeInv, mode = "build", que = {}, NEW r \in Rules, NEW p, p = LeafOf(r),
         Updated(node, node', p), UNCHANGED <<mode, que, binth, id>>,
         stored' \subseteq Rules, \A x : x # r => (x \in stored <=> x \in stored'),
         (node')[p].tmo = IF node[p].fun = "TM" THEN LeadTo(node, p) \cap stored' ELSE {}
  PROVE  TreeInv'
PROOF
  <1> DEFINE N == node
             M == node'
             T == stored'
  <1>1. Shape(N) /\ RulesKept(N) /\ Rewards(N) /\ Stores(N, stored)
    BY DEF TreeInv
  <1>2. p \in DOMAIN N /\ N[p].fun # "Hash" /\ Leads(N, p, r)
    BY <1>1, LeafOfIs
  <1>3. /\ Updated(N, M, p) /\ \A x : x # r => (x \in stored <=> x \in T)
        /\ M[p].tmo = IF N[p].fun = "TM" THEN LeadTo(N, p) \cap T ELSE {}
    OBVIOUS
  <1>4. mode' = mode /\ que' = que /\ binth' = binth /\ T \subseteq Rules
    OBVIOUS
  <1> HIDE DEF N, M, T
  <1>5. /\ Shape(M) /\ RulesKept(M) /\ Rewards(M)
        /\ \A q \in DOMAIN N : LeadTo(M, q) = LeadTo(N, q)
        /\ {q \in DOMAIN M : M[q].fun = "none"} = {q \in DOMAIN N : N[q].fun = "none"}
    BY <1>1, <1>2, <1>3, UpdatedKeeps
  <1>6. Stores(M, T)
    BY <1>1, <1>2, <1>3, UpdatedStores
  <1> QED BY <1>4, <1>5, <1>6 DEF TreeInv, N, M, T

\* DeleteRule keeps the invariant, whichever of the two kinds of leaf it ends in.
LEMMA DeleteKeeps ==
  ASSUME TreeInv, NEW r \in Rules, DeleteRule(r)
  PROVE  TreeInv'
PROOF
  <1>1. PICK p : p = LeafOf(r)
    OBVIOUS
  <1>2. /\ mode = "build" /\ que = {} /\ r \in stored
        /\ DeleteLinear(p, r) \/ DeleteTM(p, r)
        /\ stored' = stored \ {r} /\ UNCHANGED <<mode, que, binth, id>>
    BY <1>1 DEF DeleteRule
  <1>3. Shape(node) /\ Typed(node) /\ RulesKept(node) /\ Stores(node, stored) /\ stored \subseteq Rules
    BY <1>2 DEF TreeInv, Shape
  <1>4. p \in DOMAIN node /\ node[p].fun # "Hash" /\ Leads(node, p, r)
    BY <1>1, <1>3, LeafOfIs
  <1>5. node[p].tmo = IF node[p].fun = "TM" THEN LeadTo(node, p) \cap stored ELSE {}
    BY <1>3, <1>4 DEF Stores
  <1>6. CASE DeleteLinear(p, r)
    <2> DEFINE s == node[p].rules
               i == LowerBound(s, r)
               t == IF i = Len(s) + 1 THEN s ELSE SubSeq(s, 1, i - 1) \o SubSeq(s, i + 1, Len(s))
    <2>1. node[p].fun = "linear" /\ node' = SetList(node, p, t)
      BY <1>6 DEF DeleteLinear, SetList
    <2>2. s \in Seq(Rules) /\ Elements(s) \subseteq LeadTo(node, p)
      BY <1>3, <1>4 DEF Typed, Nodes, RulesKept
    <2>3. i \in 1 .. Len(s) + 1
      BY <2>2, LowerBoundIs
    <2>4. Len(s) \in Nat
      BY <2>2
    <2> HIDE DEF i, s
    <2>5. t \in Seq(Rules) /\ Elements(t) \subseteq Elements(s)
      <3>1. CASE i = Len(s) + 1
        BY <2>2, <3>1
      <3>2. CASE i # Len(s) + 1
        <4>1. i \in 1 .. Len(s)
          BY <2>3, <2>4, <3>2
        <4> DEFINE u == SubSeq(s, 1, i - 1) \o SubSeq(s, i + 1, Len(s))
        <4>2. u \in Seq(Rules) /\ Elements(u) \subseteq Elements(s)
          BY <2>2, <4>1, ErasedIs
        <4> QED BY <3>2, <4>2
      <3> QED BY <3>1, <3>2
    <2> HIDE DEF t
    <2>6. Updated(node, node', p) /\ (node')[p].tmo = node[p].tmo
      BY <1>3, <1>4, <2>1, <2>2, <2>5, ListUpdated
    <2>7. (node')[p].tmo = IF node[p].fun = "TM" THEN LeadTo(node, p) \cap stored' ELSE {}
      BY <1>5, <2>1, <2>6
    <2>8. stored' \subseteq Rules /\ \A x : x # r => (x \in stored <=> x \in stored')
      BY <1>2, <1>3
    <2> QED BY <1>1, <1>2, <2>6, <2>7, <2>8, UpdateKeeps
  <1>7. CASE DeleteTM(p, r)
    <2> DEFINE S == node[p].tmo \ {r}
    <2>1. node[p].fun = "TM" /\ node' = SetTM(node, p, S)
      BY <1>7 DEF DeleteTM, SetTM
    <2>2. S = LeadTo(node, p) \cap stored' /\ S \in SUBSET Rules
      BY <1>2, <1>5, <2>1 DEF LeadTo
    <2> HIDE DEF S
    <2>3. Updated(node, node', p) /\ (node')[p].tmo = S
      BY <1>3, <1>4, <2>1, <2>2, TMUpdated
    <2>4. (node')[p].tmo = IF node[p].fun = "TM" THEN LeadTo(node, p) \cap stored' ELSE {}
      BY <2>1, <2>2, <2>3
    <2>5. stored' \subseteq Rules /\ \A x : x # r => (x \in stored <=> x \in stored')
      BY <1>2, <1>3
    <2> QED BY <1>1, <1>2, <2>3, <2>4, <2>5, UpdateKeeps
  <1> QED BY <1>2, <1>6, <1>7

\* InsertRule keeps the invariant, whichever of the two kinds of leaf it ends in.
LEMMA InsertKeeps ==
  ASSUME TreeInv, NEW r \in Rules, InsertRule(r)
  PROVE  TreeInv'
PROOF
  <1>1. PICK p : p = LeafOf(r)
    OBVIOUS
  <1>2. /\ mode = "build" /\ que = {} /\ r \notin stored
        /\ InsertLinear(p, r) \/ InsertTM(p, r)
        /\ stored' = stored \cup {r} /\ UNCHANGED <<mode, que, binth, id>>
    BY <1>1 DEF InsertRule
  <1>3. Shape(node) /\ Typed(node) /\ RulesKept(node) /\ Stores(node, stored) /\ stored \subseteq Rules
    BY <1>2 DEF TreeInv, Shape
  <1>4. p \in DOMAIN node /\ node[p].fun # "Hash" /\ Leads(node, p, r) /\ r \in LeadTo(node, p)
    BY <1>1, <1>3, LeafOfIs DEF LeadTo
  <1>5. node[p].tmo = IF node[p].fun = "TM" THEN LeadTo(node, p) \cap stored ELSE {}
    BY <1>3, <1>4 DEF Stores
  <1>8. stored' \subseteq Rules /\ \A x : x # r => (x \in stored <=> x \in stored')
    BY <1>2, <1>3
  <1>6. CASE InsertLinear(p, r)
    <2> DEFINE s == node[p].rules
               i == LowerBound(s, r)
               t == SubSeq(s, 1, i - 1) \o <<r>> \o SubSeq(s, i, Len(s))
    <2>1. node[p].fun = "linear" /\ node' = SetList(node, p, t)
      BY <1>6 DEF InsertLinear, SetList
    <2>2. s \in Seq(Rules) /\ Elements(s) \subseteq LeadTo(node, p)
      BY <1>3, <1>4 DEF Typed, Nodes, RulesKept
    <2>3. i \in 1 .. Len(s) + 1
      BY <2>2, LowerBoundIs
    <2> HIDE DEF i, s
    <2>4. t \in Seq(Rules) /\ Elements(t) \subseteq Elements(s) \cup {r}
      BY <2>2, <2>3, InsertedIs
    <2> HIDE DEF t
    <2>5. Elements(t) \subseteq LeadTo(node, p)
      BY <1>4, <2>2, <2>4
    <2>6. Updated(node, node', p) /\ (node')[p].tmo = node[p].tmo
      BY <1>3, <1>4, <2>1, <2>4, <2>5, ListUpdated
    <2>7. (node')[p].tmo = IF node[p].fun = "TM" THEN LeadTo(node, p) \cap stored' ELSE {}
      BY <1>5, <2>1, <2>6
    <2> QED BY <1>1, <1>2, <1>8, <2>6, <2>7, UpdateKeeps
  <1>7. CASE InsertTM(p, r)
    <2> DEFINE S == node[p].tmo \cup {r}
    <2>1. node[p].fun = "TM" /\ node' = SetTM(node, p, S)
      BY <1>7 DEF InsertTM, SetTM
    <2>2. S = LeadTo(node, p) \cap stored' /\ S \in SUBSET Rules
      BY <1>2, <1>4, <1>5, <2>1 DEF LeadTo
    <2> HIDE DEF S
    <2>3. Updated(node, node', p) /\ (node')[p].tmo = S
      BY <1>3, <1>4, <2>1, <2>2, TMUpdated
    <2>4. (node')[p].tmo = IF node[p].fun = "TM" THEN LeadTo(node, p) \cap stored' ELSE {}
      BY <2>1, <2>2, <2>3
    <2> QED BY <1>1, <1>2, <1>8, <2>3, <2>4, UpdateKeeps
  <1> QED BY <1>2, <1>6, <1>7

----------------------------------------------------------------------------
(***************************************************************************)
(* The invariant.                                                          *)
(***************************************************************************)

\* The invariant holds before the first training episode.
LEMMA TreeInitInv == TreeInit => TreeInv
PROOF
  <1> SUFFICES ASSUME TreeInit PROVE TreeInv
    OBVIOUS
  <1>1. mode = "train" /\ node = NewTree /\ que = {<<>>} /\ binth \in Binths /\ stored = Rules
    BY DEF TreeInit
  <1>2. /\ {p \in DOMAIN NewTree : NewTree[p].fun = "none"} = {<<>>}
        /\ Shape(NewTree) /\ RulesKept(NewTree) /\ Rewards(NewTree)
        /\ Nothing(NewTree) /\ New(NewTree, Rules)
    BY NewTreeIs
  <1> QED BY <1>1, <1>2 DEF TreeInv

\* The next episode starts from a root alone.
LEMMA TrainedKeeps ==
  ASSUME TreeInv, Trained
  PROVE  TreeInv'
PROOF
  <1>1. /\ mode = "train" /\ mode' \in {"train", "build"} /\ node' = NewTree /\ que' = {<<>>}
        /\ binth' = binth /\ stored' = stored
    BY DEF Trained
  <1>2. stored = Rules /\ binth \in Binths
    BY <1>1 DEF TreeInv, New
  <1>3. /\ {p \in DOMAIN NewTree : NewTree[p].fun = "none"} = {<<>>}
        /\ Shape(NewTree) /\ RulesKept(NewTree) /\ Rewards(NewTree)
        /\ Nothing(NewTree) /\ Stores(NewTree, Rules) /\ New(NewTree, Rules)
    BY NewTreeIs
  <1> QED BY <1>1, <1>2, <1>3 DEF TreeInv

\* Every step keeps the invariant.
LEMMA TreeStepInv ==
  ASSUME TreeInv, [TreeNext]_treeVars
  PROVE  TreeInv'
PROOF
  <1>1. ASSUME NEW p \in que, Build(p) PROVE TreeInv'
    <2>1. UNCHANGED <<mode, binth, id, stored>> /\ (BuildLinear(p) \/ BuildTM(p) \/ BuildHash(p))
      BY <1>1 DEF Build
    <2> QED BY <2>1, LinearBuilt, TMBuilt, HashBuilt
  <1>2. CASE Trained
    BY <1>2, TrainedKeeps
  <1>3. ASSUME NEW r \in Rules, DeleteRule(r) \/ InsertRule(r) PROVE TreeInv'
    BY <1>3, DeleteKeeps, InsertKeeps
  <1>4. CASE UNCHANGED treeVars
    BY <1>4 DEF treeVars, TreeInv
  <1> QED BY <1>1, <1>2, <1>3, <1>4 DEF TreeNext

\* In every reachable state the tree branches on a field at most once on a path, each hash
\* node has the children and the maxBigPriority its rules need, and a TupleMerge leaf holds
\* the stored rules that lead to it.
THEOREM TreeInvariance == TreeSpec => []TreeInv
PROOF
  <1>1. TreeInit => TreeInv
    BY TreeInitInv
  <1>2. TreeInv /\ [TreeNext]_treeVars => TreeInv'
    BY TreeStepInv
  <1> QED BY <1>1, <1>2, PTL DEF TreeSpec

----------------------------------------------------------------------------
(***************************************************************************)
(* What a node keeps about the nodes below it.                             *)
(***************************************************************************)

\* What leads to a node leads to the nodes above it.
LEMMA LeadsAbove ==
  ASSUME NEW N, NEW p \in Seq(Int), NEW q \in Seq(Int), Len(p) <= Len(q),
         SubSeq(q, 1, Len(p)) = p, NEW r, Leads(N, q, r)
  PROVE  Leads(N, p, r)
PROOF
  <1>1. /\ Len(p) \in Nat /\ DOMAIN p = 1 .. Len(p) /\ Len(q) \in Nat /\ DOMAIN q = 1 .. Len(q)
        /\ \A i \in DOMAIN p : i - 1 \in Nat /\ i - 1 < Len(p)
    BY PathEnd
  <1>2. \A i \in 1 .. Len(p) : SubSeq(q, 1, Len(p))[i] = q[i]
    <2> DEFINE l == Len(p)
    <2>1. l \in Nat /\ l <= Len(q)
      BY <1>1
    <2> HIDE DEF l
    <2>2. \A i \in 1 .. l : SubSeq(q, 1, l)[i] = q[i]
      BY <2>1
    <2> QED BY <2>2 DEF l
  <1>3. \A i \in DOMAIN p : p[i] = q[i] /\ i \in DOMAIN q
    <2>1. \A i \in 1 .. Len(p) : p[i] = q[i]
      BY <1>2
    <2>2. \A i \in 1 .. Len(p) : i \in 1 .. Len(q)
      BY <1>1
    <2> QED BY <1>1, <2>1, <2>2
  <1>4. ASSUME NEW i \in DOMAIN p PROVE SubSeq(p, 1, i - 1) = SubSeq(q, 1, i - 1)
    <2> DEFINE n == i - 1
    <2>1. n \in Nat /\ n <= Len(p) /\ n <= Len(q)
      BY <1>1
    <2>2. \A j \in 1 .. n : j \in DOMAIN p
      BY <1>1, <2>1
    <2>3. \A j \in 1 .. n : p[j] = q[j]
      BY <1>3, <2>2
    <2> HIDE DEF n
    <2>4. SubSeq(p, 1, n) = SubSeq(q, 1, n)
      BY <2>1, <2>3, PrefixSame
    <2> QED BY <2>4 DEF n
  <1> QED BY <1>3, <1>4 DEF Leads

\* What a node holds for lookups leads to it.
LEMMA HeldLeads ==
  ASSUME TreeInv, NEW p \in DOMAIN node
  PROVE  Held(node[p]) \subseteq LeadTo(node, p)
PROOF
  <1>1. Elements(node[p].rules) \subseteq LeadTo(node, p)
    BY DEF TreeInv, RulesKept
  <1>2. Stores(node, stored) \/ Nothing(node)
    BY DEF TreeInv
  <1>3. node[p].tmo \subseteq LeadTo(node, p)
    BY <1>2 DEF Stores, Nothing
  <1> QED BY <1>1, <1>3 DEF Held

\* maxBigPriority is at least the priority of every rule held below the bigClassifier.
LEMMA TreeCovers == TreeInv => MaxBigCovers
PROOF
  <1> SUFFICES ASSUME TreeInv, NEW p \in DOMAIN node, NEW q \in DOMAIN node,
                      Len(p) < Len(q), SubSeq(q, 1, Len(p)) = p, q[Len(p) + 1] = BIG,
                      NEW r \in Held(node[q])
               PROVE  Prio[r] <= node[p].maxBigPriority
    BY DEF MaxBigCovers
  <1>1. Typed(node) /\ Branches(node) /\ Hashes(node)
    BY DEF TreeInv, Shape
  <1>2. p \in Seq(Int) /\ q \in Seq(Int)
    BY <1>1 DEF Typed
  <1>3. r \in Rules /\ Leads(node, q, r)
    BY HeldLeads DEF LeadTo
  <1>4. Len(p) \in Nat /\ Len(q) \in Nat /\ DOMAIN q = 1 .. Len(q)
    BY <1>2, PathEnd
  <1> DEFINE i == Len(p) + 1
  <1>5. i \in DOMAIN q /\ i - 1 = Len(p)
    BY <1>4
  <1>6. q[i] = BIG
    OBVIOUS
  <1> HIDE DEF i
  <1>7. SubSeq(q, 1, i - 1) = p
    BY <1>5
  <1>8. Step(node[p], r) = BIG
    BY <1>3, <1>5, <1>6, <1>7 DEF Leads
  <1>9. node[p].fun = "Hash"
    BY <1>1, <1>5, <1>7 DEF Branches
  <1>10. Leads(node, p, r)
    BY <1>2, <1>3, <1>4, LeadsAbove
  <1>11. r \in BigAt(node, p) /\ BigAt(node, p) \in SUBSET Rules
    BY <1>3, <1>8, <1>10 DEF BigAt, LeadTo
  <1>12. node[p].maxBigPriority = Top(BigAt(node, p))
    BY <1>1, <1>9 DEF Hashes
  <1> QED BY <1>11, <1>12, TopIs DEF IsTop

\* The invariant has the types of the members.
LEMMA TreeTypes == TreeInv => TypeOK
PROOF
  <1> SUFFICES ASSUME TreeInv PROVE TypeOK
    OBVIOUS
  <1>1. \A p \in DOMAIN node : node[p] \in Nodes /\ Cardinality(node[p].used) = Len(p)
    BY DEF TreeInv, Shape, Typed
  <1>2. \A p \in DOMAIN node :
          /\ node[p].fun \in {"none", "linear", "TM", "Hash"}
          /\ node[p].rules \in Seq(Rules)
          /\ node[p].used \subseteq Dims /\ Cardinality(node[p].used) = Len(p)
          /\ node[p].tmo \subseteq Rules
          /\ node[p].maxBigPriority \in Nat \cup {-1} /\ node[p].reward \in Int
    BY <1>1 DEF Nodes
  <1> QED BY <1>2 DEF TypeOK, TreeInv

\* The invariant has the rewards of the nodes.
LEMMA TreeRewards == TreeInv => RewardExact
PROOF
  <1> QED BY DEF TreeInv, Rewards, Merged, RewardExact

\* In every reachable state the members have their types, maxBigPriority covers the rules
\* below bigClassifier, and rewards count the rules that end up in TupleMerge leaves.
THEOREM TreeCachesSound == TreeSpec => []CachesSound
PROOF
  <1>1. TreeInv => CachesSound
    BY TreeTypes, TreeCovers, TreeRewards DEF CachesSound
  <1> QED BY <1>1, TreeInvariance, PTL

----------------------------------------------------------------------------
(***************************************************************************)
(* Lookups.                                                                *)
(***************************************************************************)

\* the stored rules below q that match packet x
Hits(N, S, x, q) == {r \in LeadTo(N, q) \cap S : Matches(r, x)}
\* v is the answer when the matching rules are H
Good(v, H) == IF H = {} THEN v \in {-1, 0} ELSE v = Top(H)

\* a tree whose leaves are right
Ready(N, S) ==
  /\ Shape(N) /\ S \subseteq Rules
  /\ \A q \in DOMAIN N :
       /\ N[q].fun \in {"linear", "TM", "Hash"}
       /\ N[q].fun = "linear" => Exact(N, q) /\ S = Rules
       /\ N[q].fun = "TM" => N[q].tmo = LeadTo(N, q) \cap S

\* one step of the recursion
Own(N, x, f, q) ==
  LET n == N[q]
      child == Append(q, getKey(n, x))
  IN  IF n.fun = "linear" THEN MatchLinear(n.rules, x)
      ELSE IF n.fun = "TM" THEN MatchTM(n.tmo, x)
      ELSE IF child \in DOMAIN N THEN f[child] ELSE -1
Answer(N, x, f, q) ==
  LET own == Own(N, x, f, q)
  IN  IF own < N[q].maxBigPriority
      THEN LET big == f[Append(q, BIG)] IN IF big > own THEN big ELSE own
      ELSE own

\* The first match of a vector with the best rules first is the best match.
LEMMA MatchLinearIs ==
  ASSUME NEW s \in Seq(Rules), BestFirst(s), NEW x
  PROVE  Good(MatchLinear(s, x), {r \in Elements(s) : Matches(r, x)})
PROOF
  <1> DEFINE hits == {i \in DOMAIN s : Matches(s[i], x)}
             H == {r \in Elements(s) : Matches(r, x)}
             i == CHOOSE i \in hits : \A j \in hits : i <= j
  <1>1. Len(s) \in Nat /\ DOMAIN s = 1 .. Len(s) /\ \A j \in DOMAIN s : s[j] \in Rules
    OBVIOUS
  <1>2. \A r : r \in H <=> \E j \in hits : r = s[j]
    BY DEF Elements
  <1>3. MatchLinear(s, x) = IF hits = {} THEN -1 ELSE Prio[s[i]]
    BY DEF MatchLinear
  <1>4. hits \in SUBSET (1 .. Len(s)) /\ \A j \in hits : j \in DOMAIN s
    BY <1>1
  <1>5. H \in SUBSET Rules
    BY <1>1 DEF Elements
  <1> HIDE DEF hits, H
  <1>6. CASE hits = {}
    <2>1. H = {}
      BY <1>2, <1>6
    <2> QED BY <1>3, <1>6, <2>1 DEF Good, H
  <1>7. CASE hits # {}
    <2>1. i \in hits /\ \A j \in hits : i <= j
      <3>1. \E k \in hits : \A j \in hits : k <= j
        BY <1>1, <1>4, <1>7, LeastIndex
      <3> QED BY <3>1
    <2> HIDE DEF i
    <2>2. s[i] \in H
      BY <1>2, <2>1
    <2>3. ASSUME NEW r \in H PROVE Prio[r] <= Prio[s[i]]
      <3>1. PICK j \in hits : r = s[j]
        BY <1>2
      <3>2. i \in DOMAIN s /\ j \in DOMAIN s /\ i <= j /\ i \in Int /\ j \in Int
        BY <1>1, <1>4, <2>1
      <3>3. Prio[s[i]] \in Nat /\ Prio[s[j]] \in Nat
        BY <1>1, <3>2, PrioIs
      <3>4. i = j \/ Prio[s[i]] > Prio[s[j]]
        BY <3>2 DEF BestFirst
      <3> QED BY <3>1, <3>3, <3>4
    <2>4. IsTop(Prio[s[i]], H)
      BY <2>2, <2>3 DEF IsTop
    <2>5. Prio[s[i]] = Top(H)
      BY <1>5, <2>4, TopOnly
    <2> QED BY <1>3, <1>7, <2>2, <2>5 DEF Good, H
  <1> QED BY <1>6, <1>7

\* TupleMerge answers with the best match of its rules.
LEMMA MatchTMIs ==
  ASSUME NEW S, NEW x
  PROVE  Good(MatchTM(S, x), {r \in S : Matches(r, x)})
PROOF
  <1> QED BY DEF Good, MatchTM

\* An answer is at least -1.
LEMMA GoodIs ==
  ASSUME NEW v, NEW H \in SUBSET Rules, Good(v, H)
  PROVE  /\ v \in Nat \cup {-1}
         /\ H = {} => v <= 0
         /\ H # {} => v > 0 /\ \E r \in H : v = Prio[r]
         /\ \A r \in H : Prio[r] <= v
PROOF
  <1>1. /\ IsTop(Top(H), H) /\ Top(H) \in Nat \cup {-1}
        /\ H # {} => \E r \in H : Top(H) = Prio[r] /\ Top(H) > 0
    BY TopIs
  <1> QED BY <1>1 DEF Good, IsTop

\* The answer of a hash node from those of two children, when the second is consulted, ...
LEMMA GoodBoth ==
  ASSUME NEW H \in SUBSET Rules, NEW B \in SUBSET Rules, NEW own, NEW big,
         Good(own, H), Good(big, B)
  PROVE  Good(IF big > own THEN big ELSE own, H \cup B)
PROOF
  <1> DEFINE m == IF big > own THEN big ELSE own
  <1>1. /\ own \in Nat \cup {-1} /\ (H = {} => own <= 0)
        /\ H # {} => own > 0 /\ \E r \in H : own = Prio[r]
        /\ \A r \in H : Prio[r] <= own
    BY GoodIs
  <1>2. /\ big \in Nat \cup {-1} /\ (B = {} => big <= 0)
        /\ B # {} => big > 0 /\ \E r \in B : big = Prio[r]
        /\ \A r \in B : Prio[r] <= big
    BY GoodIs
  <1>3. \A r \in Rules : Prio[r] \in Nat
    BY PrioIs
  <1>4. CASE H \cup B = {}
    BY <1>1, <1>2, <1>4 DEF Good
  <1>5. CASE H \cup B # {}
    <2>1. m \in Int /\ own \in Int /\ big \in Int /\ own <= m /\ big <= m /\ (m = own \/ m = big)
      BY <1>1, <1>2
    <2> HIDE DEF m
    <2>2. \A r \in H \cup B : Prio[r] <= m
      BY <1>1, <1>2, <1>3, <2>1
    <2>3. m > 0
      BY <1>1, <1>2, <1>5, <2>1
    <2>4. \E r \in H \cup B : m = Prio[r]
      BY <1>1, <1>2, <2>1, <2>3
    <2>5. IsTop(m, H \cup B)
      BY <2>2, <2>4 DEF IsTop
    <2>6. m = Top(H \cup B)
      BY <2>5, TopOnly
    <2> QED BY <1>5, <2>6 DEF Good, m
  <1> QED BY <1>4, <1>5

\* ... and when it is skipped.
LEMMA GoodSkip ==
  ASSUME NEW H \in SUBSET Rules, NEW B \in SUBSET Rules, NEW own, Good(own, H),
         \A r \in B : Prio[r] <= own
  PROVE  Good(own, H \cup B)
PROOF
  <1>1. /\ own \in Nat \cup {-1} /\ (H = {} => own <= 0)
        /\ H # {} => own > 0 /\ \E r \in H : own = Prio[r]
        /\ \A r \in H : Prio[r] <= own
    BY GoodIs
  <1>2. \A r \in Rules : Prio[r] \in Nat /\ Prio[r] > 0
    BY PrioIs
  <1>3. H = {} => B = {}
    BY <1>1, <1>2
  <1>4. CASE H = {}
    BY <1>3, <1>4 DEF Good
  <1>5. CASE H # {}
    <2>1. IsTop(own, H \cup B)
      BY <1>1, <1>5 DEF IsTop
    <2>2. own = Top(H \cup B)
      BY <2>1, TopOnly
    <2> QED BY <1>5, <2>2 DEF Good
  <1> QED BY <1>4, <1>5

\* A rule that matches a packet is big at a hash node or has the packet's key.
LEMMA MatchStep ==
  ASSUME NEW d \in Dims, NEW b \in Bits[d], NEW r \in Rules, NEW x \in Packets, Matches(r, x)
  PROVE  /\ Way(d, b, r) \in {BIG, Key(Shr(x[d], Width[d] - b))}
         /\ Key(Shr(x[d], Width[d] - b)) \in Int
PROOF
  <1>1. d \in Fields /\ b \in 0 .. Width[d] /\ Key(Shr(x[d], Width[d] - b)) \in Nat
    BY TreeAssumption
  <1>2. PrefixLen[r][d] \in Nat
    BY <1>1, PrefixAssumption
  <1>3. b <= PrefixLen[r][d] => Shr(x[d], Width[d] - b) = Shr(Lo[r][d], Width[d] - b)
    <2> SUFFICES ASSUME b <= PrefixLen[r][d]
                 PROVE  Shr(x[d], Width[d] - b) = Shr(Lo[r][d], Width[d] - b)
      OBVIOUS
    <2>1. b \in 0 .. PrefixLen[r][d]
      <3>1. b \in Int /\ b >= 0
        <4>1. Width[d] \in Nat
          BY <1>1, PrefixAssumption
        <4> QED BY <1>1, <4>1
      <3> QED BY <1>2, <3>1
    <2>2. Lo[r][d] <= x[d] /\ x[d] <= Hi[r][d]
      BY <1>1 DEF Matches
    <2> QED BY <1>1, <2>1, <2>2, PrefixAssumption
  <1>4. CASE PrefixLen[r][d] < b
    BY <1>1, <1>4 DEF Way
  <1>5. CASE ~(PrefixLen[r][d] < b)
    <2>1. b <= PrefixLen[r][d]
      <3>1. b \in Int
        <4>1. Width[d] \in Nat
          BY <1>1, PrefixAssumption
        <4> QED BY <1>1, <4>1
      <3> QED BY <1>2, <1>5, <3>1
    <2> QED BY <1>1, <1>3, <1>5, <2>1 DEF Way
  <1> QED BY <1>4, <1>5

\* The matching rules of a child are those that are sent to it.
LEMMA ChildHits ==
  ASSUME NEW N, NEW S, NEW x, NEW q \in Seq(Int), NEW k \in Int
  PROVE  Hits(N, S, x, Append(q, k)) = {r \in Hits(N, S, x, q) : Step(N[q], r) = k}
PROOF
  <1>1. \A r : Leads(N, Append(q, k), r) <=> Leads(N, q, r) /\ k = Step(N[q], r)
    BY LeadsOn
  <1>2. \A r : r \in LeadTo(N, Append(q, k)) <=> r \in LeadTo(N, q) /\ k = Step(N[q], r)
    BY <1>1 DEF LeadTo
  <1>3. \A r : r \in Hits(N, S, x, Append(q, k)) <=> r \in Hits(N, S, x, q) /\ k = Step(N[q], r)
    BY <1>2 DEF Hits
  <1> QED BY <1>3

\* what is known of the answers for the children of q
KidsGood(N, S, x, f, q) ==
  \A k \in Int : Append(q, k) \in DOMAIN N =>
    Good(f[Append(q, k)], Hits(N, S, x, Append(q, k)))

\* The key's child answers for its rules, and bigClassifier is there when it is consulted.
LEMMA OwnHash ==
  ASSUME NEW N, NEW S, Ready(N, S), NEW x \in Packets, NEW f, NEW q \in DOMAIN N,
         N[q].fun = "Hash", KidsGood(N, S, x, f, q)
  PROVE  /\ Good(Own(N, x, f, q), {r \in Hits(N, S, x, q) : Step(N[q], r) = getKey(N[q], x)})
         /\ Own(N, x, f, q) < N[q].maxBigPriority => Append(q, BIG) \in DOMAIN N
PROOF
  <1> DEFINE key == getKey(N[q], x)
             c == Append(q, key)
             H == {r \in Hits(N, S, x, q) : Step(N[q], r) = key}
             own == Own(N, x, f, q)
  <1>1. q \in Seq(Int) /\ Shape(N)
    BY DEF Ready, Shape, Typed
  <1>2. /\ N[q].dim \in Dims /\ N[q].bit \in Bits[N[q].dim]
        /\ \A r \in LeadTo(N, q) : Append(q, Step(N[q], r)) \in DOMAIN N
        /\ N[q].maxBigPriority = Top(BigAt(N, q))
    BY <1>1 DEF Shape, Hashes
  <1>3. key \in Int
    <2>1. Key(Shr(x[N[q].dim], Width[N[q].dim] - N[q].bit)) \in Nat
      BY <1>2, TreeAssumption
    <2> QED BY <2>1 DEF getKey
  <1>4. own = IF c \in DOMAIN N THEN f[c] ELSE -1
    BY DEF Own
  <1> HIDE DEF key
  <1>5. Hits(N, S, x, c) = H
    BY <1>1, <1>3, ChildHits
  <1>6. H \in SUBSET Rules
    BY DEF Hits, LeadTo
  <1>7. Good(own, H)
    <2>1. CASE c \in DOMAIN N
      BY <1>3, <1>4, <1>5, <2>1 DEF KidsGood
    <2>2. CASE c \notin DOMAIN N
      <3>1. H = {}
        BY <1>2, <2>2 DEF Hits
      <3> QED BY <1>4, <2>2, <3>1 DEF Good
    <2> QED BY <2>1, <2>2
  <1> HIDE DEF own, H
  <1>8. own \in Nat \cup {-1}
    BY <1>6, <1>7, GoodIs
  <1>9. ASSUME own < N[q].maxBigPriority PROVE Append(q, BIG) \in DOMAIN N
    <2>1. BigAt(N, q) \in SUBSET Rules
      BY DEF BigAt, LeadTo
    <2>2. BigAt(N, q) # {}
      BY <1>2, <1>8, <1>9, <2>1, TopIs
    <2>3. PICK r \in LeadTo(N, q) : Step(N[q], r) = BIG
      BY <2>2 DEF BigAt
    <2> QED BY <1>2, <2>3
  <1> QED BY <1>7, <1>9 DEF own, H, key

\* A leaf answers with the best match of the stored rules that lead to it.
LEMMA OwnLeaf ==
  ASSUME NEW N, NEW S, Ready(N, S), NEW x, NEW f, NEW q \in DOMAIN N, N[q].fun # "Hash"
  PROVE  /\ Good(Own(N, x, f, q), Hits(N, S, x, q))
         /\ ~(Own(N, x, f, q) < N[q].maxBigPriority)
PROOF
  <1>1. Shape(N) /\ N[q] \in Nodes /\ N[q].maxBigPriority = -1
    BY DEF Ready, Shape, Typed, Leaves
  <1>2. ASSUME N[q].fun = "linear" PROVE Good(Own(N, x, f, q), Hits(N, S, x, q))
    <2>1. N[q].rules \in Seq(Rules) /\ Elements(N[q].rules) = LeadTo(N, q) /\ BestFirst(N[q].rules)
      BY <1>1, <1>2 DEF Ready, Exact, Nodes
    <2>2. Good(MatchLinear(N[q].rules, x), {r \in Elements(N[q].rules) : Matches(r, x)})
      BY <2>1, MatchLinearIs
    <2>3. S = Rules /\ LeadTo(N, q) \subseteq Rules
      BY <1>2 DEF Ready, LeadTo
    <2>4. Hits(N, S, x, q) = {r \in Elements(N[q].rules) : Matches(r, x)}
      BY <2>1, <2>3 DEF Hits
    <2> QED BY <1>2, <2>2, <2>4 DEF Own
  <1>3. ASSUME N[q].fun = "TM" PROVE Good(Own(N, x, f, q), Hits(N, S, x, q))
    <2>1. Good(MatchTM(N[q].tmo, x), {r \in N[q].tmo : Matches(r, x)})
      BY MatchTMIs
    <2>2. Hits(N, S, x, q) = {r \in N[q].tmo : Matches(r, x)}
      BY <1>3 DEF Ready, Hits
    <2> QED BY <1>3, <2>1, <2>2 DEF Own
  <1>4. Good(Own(N, x, f, q), Hits(N, S, x, q))
    BY <1>2, <1>3 DEF Ready
  <1>5. Hits(N, S, x, q) \in SUBSET Rules
    BY DEF Hits, LeadTo
  <1>6. Own(N, x, f, q) \in Nat \cup {-1}
    BY <1>4, <1>5, GoodIs
  <1> QED BY <1>1, <1>4, <1>6

\* Right answers of its children make a node's answer right.
LEMMA AnswerGood ==
  ASSUME NEW N, NEW S, Ready(N, S), NEW x \in Packets, NEW f, NEW q \in DOMAIN N,
         KidsGood(N, S, x, f, q)
  PROVE  Good(Answer(N, x, f, q), Hits(N, S, x, q))
PROOF
  <1>1. CASE N[q].fun # "Hash"
    BY <1>1, OwnLeaf DEF Answer
  <1>2. CASE N[q].fun = "Hash"
    <2> DEFINE key == getKey(N[q], x)
               own == Own(N, x, f, q)
               big == f[Append(q, BIG)]
               H == {r \in Hits(N, S, x, q) : Step(N[q], r) = key}
               B == {r \in Hits(N, S, x, q) : Step(N[q], r) = BIG}
    <2>1. Good(own, H) /\ (own < N[q].maxBigPriority => Append(q, BIG) \in DOMAIN N)
      BY <1>2, OwnHash
    <2>2. q \in Seq(Int) /\ BIG \in Int
      BY DEF Ready, Shape, Typed, BIG
    <2>3. /\ N[q].dim \in Dims /\ N[q].bit \in Bits[N[q].dim]
          /\ N[q].maxBigPriority = Top(BigAt(N, q))
      BY <1>2 DEF Ready, Shape, Hashes
    <2>4. Hits(N, S, x, q) = H \cup B
      <3> SUFFICES ASSUME NEW r \in Hits(N, S, x, q) PROVE Step(N[q], r) \in {key, BIG}
        OBVIOUS
      <3>1. r \in Rules /\ Matches(r, x)
        BY DEF Hits, LeadTo
      <3>2. Step(N[q], r) = Way(N[q].dim, N[q].bit, r)
        BY StepIs
      <3>3. Way(N[q].dim, N[q].bit, r) \in {BIG, Key(Shr(x[N[q].dim], Width[N[q].dim] - N[q].bit))}
        BY <2>3, <3>1, MatchStep
      <3> QED BY <3>2, <3>3 DEF getKey
    <2>5. H \in SUBSET Rules /\ B \in SUBSET Rules
      BY DEF Hits, LeadTo
    <2>6. Answer(N, x, f, q) = IF own < N[q].maxBigPriority
                               THEN IF big > own THEN big ELSE own ELSE own
      BY DEF Answer
    <2>7. CASE own < N[q].maxBigPriority
      <3>1. Hits(N, S, x, Append(q, BIG)) = B
        BY <2>2, ChildHits
      <3>2. Good(big, B)
        BY <2>1, <2>2, <2>7, <3>1 DEF KidsGood
      <3> HIDE DEF own, big, H, B
      <3>3. Good(IF big > own THEN big ELSE own, H \cup B)
        BY <2>1, <2>5, <3>2, GoodBoth
      <3> QED BY <2>4, <2>6, <2>7, <3>3
    <2>8. CASE ~(own < N[q].maxBigPriority)
      <3>1. B \subseteq BigAt(N, q) /\ BigAt(N, q) \in SUBSET Rules
        BY DEF Hits, BigAt, LeadTo
      <3> HIDE DEF own, big, H, B
      <3>2. own \in Nat \cup {-1}
        BY <2>1, <2>5, GoodIs
      <3>3. N[q].maxBigPriority \in Nat \cup {-1}
            /\ \A r \in BigAt(N, q) : Prio[r] <= N[q].maxBigPriority
        BY <2>3, <3>1, TopIs DEF IsTop
      <3>4. \A r \in B : Prio[r] <= own
        <4> SUFFICES ASSUME NEW r \in B PROVE Prio[r] <= own
          OBVIOUS
        <4>1. Prio[r] \in Nat /\ Prio[r] <= N[q].maxBigPriority
          BY <2>5, <3>1, <3>3, PrioIs
        <4> QED BY <2>8, <3>2, <3>3, <4>1
      <3>5. Good(own, H \cup B)
        BY <2>1, <2>5, <3>4, GoodSkip
      <3> QED BY <2>4, <2>6, <2>8, <3>5
    <2> QED BY <2>7, <2>8
  <1> QED BY <1>1, <1>2

\* A node's answer depends on its children's alone.
LEMMA AnswerSame ==
  ASSUME NEW N, NEW S, Ready(N, S), NEW x \in Packets, NEW f, NEW g, NEW q \in DOMAIN N,
         KidsGood(N, S, x, f, q),
         \A k \in Int : Append(q, k) \in DOMAIN N => g[Append(q, k)] = f[Append(q, k)]
  PROVE  Answer(N, x, g, q) = Answer(N, x, f, q)
PROOF
  <1>1. CASE N[q].fun # "Hash"
    <2>1. N[q].fun \in {"linear", "TM"}
      BY <1>1 DEF Ready
    <2>2. Own(N, x, g, q) = Own(N, x, f, q)
      BY <2>1 DEF Own
    <2>3. ~(Own(N, x, f, q) < N[q].maxBigPriority)
      BY <1>1, OwnLeaf
    <2> QED BY <2>2, <2>3 DEF Answer
  <1>2. CASE N[q].fun = "Hash"
    <2>1. N[q].dim \in Dims /\ N[q].bit \in Bits[N[q].dim]
      BY <1>2 DEF Ready, Shape, Hashes
    <2>2. getKey(N[q], x) \in Int
      <3>1. Key(Shr(x[N[q].dim], Width[N[q].dim] - N[q].bit)) \in Nat
        BY <2>1, TreeAssumption
      <3> QED BY <3>1 DEF getKey
    <2>3. Own(N, x, g, q) = Own(N, x, f, q)
      BY <1>2, <2>2 DEF Own
    <2>4. Own(N, x, f, q) < N[q].maxBigPriority => Append(q, BIG) \in DOMAIN N
      BY <1>2, OwnHash
    <2>5. BIG \in Int
      BY DEF BIG
    <2> QED BY <2>3, <2>4, <2>5 DEF Answer
  <1> QED BY <1>1, <1>2

\* The equation of a lookup, on the nodes that are at most n deep from the deepest, ...
Deep(N, n) == {q \in DOMAIN N : Cardinality(Dims) - Len(q) <= n}
Solves(N, x, f, n) == f = [q \in Deep(N, n) |-> Answer(N, x, f, q)]

\* ... has a solution, which is right.
LEMMA AnswerExists ==
  ASSUME NEW N, NEW S, Ready(N, S), NEW x \in Packets
  PROVE  \E f : f = [q \in DOMAIN N |-> Answer(N, x, f, q)]
PROOF
  <1> DEFINE K == Cardinality(Dims)
             Right2(f, n) == \A q \in Deep(N, n) : Good(f[q], Hits(N, S, x, q))
             Done(f, n) == Solves(N, x, f, n) /\ Right2(f, n)
             Bad == {n \in 0 .. K : ~\E f : Done(f, n)}
  <1>1. \A q \in DOMAIN N : q \in Seq(Int) /\ Len(q) \in Nat /\ K \in Nat /\ Len(q) <= K
    BY DepthIs DEF Ready, Shape
  <1>2. <<>> \in DOMAIN N /\ K \in Nat
    BY <1>1 DEF Ready, Shape, Typed
  <1> HIDE DEF K
  <1>3. \A n : Deep(N, n) = {q \in DOMAIN N : K - Len(q) <= n}
    BY DEF Deep, K
  <1>4. Deep(N, K) = DOMAIN N
    <2>1. \A q \in DOMAIN N : K - Len(q) <= K
      BY <1>1
    <2>2. Deep(N, K) = {q \in DOMAIN N : K - Len(q) <= K}
      BY <1>3
    <2> QED BY <2>1, <2>2
  <1>5. ASSUME NEW q \in DOMAIN N, NEW k \in Int, Append(q, k) \in DOMAIN N,
               NEW n \in Nat, K - Len(q) <= n
        PROVE  n # 0 /\ Append(q, k) \in Deep(N, n - 1)
    <2> DEFINE c == Append(q, k)
    <2>1. Len(c) = Len(q) + 1
      BY <1>1, AppendPath
    <2>2. Len(c) \in Nat /\ Len(c) <= K /\ Len(q) \in Nat
      BY <1>1, <1>5
    <2> HIDE DEF c
    <2>3. n # 0 /\ K - Len(c) <= n - 1
      BY <1>2, <1>5, <2>1, <2>2
    <2> QED BY <1>3, <1>5, <2>3 DEF c
  <1>6. SUFFICES ASSUME Bad # {} PROVE FALSE
    <2>1. K \in 0 .. K
      BY <1>2
    <2>2. \E f : Done(f, K)
      BY <1>6, <2>1
    <2>3. PICK f : Solves(N, x, f, K)
      BY <2>2
    <2> QED BY <1>4, <2>3 DEF Solves
  <1>7. Bad \in SUBSET Nat
    BY <1>2
  <1> HIDE DEF Bad
  <1>8. PICK n \in Bad : \A m \in Bad : n <= m
    BY <1>6, <1>7, LeastNumber
  <1>9. n \in 0 .. K /\ n \in Nat /\ ~\E f : Done(f, n)
    BY <1>7, <1>8 DEF Bad
  <1>10. \E f : n # 0 => Done(f, n - 1)
    <2>1. CASE n = 0
      BY <2>1
    <2>2. CASE n # 0
      <3>1. n - 1 \in 0 .. K
        BY <1>2, <1>9, <2>2
      <3>2. n - 1 \notin Bad
        BY <1>8, <1>9, <2>2
      <3> HIDE DEF Done
      <3>3. \E f : Done(f, n - 1)
        BY <3>1, <3>2 DEF Bad
      <3> QED BY <3>3
    <2> QED BY <2>1, <2>2
  <1>11. PICK f : n # 0 => Done(f, n - 1)
    BY <1>10
  <1>12. ASSUME NEW q \in Deep(N, n) PROVE KidsGood(N, S, x, f, q)
    <2> SUFFICES ASSUME NEW k \in Int, Append(q, k) \in DOMAIN N
                 PROVE  Good(f[Append(q, k)], Hits(N, S, x, Append(q, k)))
      BY DEF KidsGood
    <2>1. q \in DOMAIN N /\ K - Len(q) <= n
      BY <1>3
    <2>2. n # 0 /\ Append(q, k) \in Deep(N, n - 1)
      BY <1>5, <1>9, <2>1
    <2> QED BY <1>11, <2>2
  <1> DEFINE g == [q \in Deep(N, n) |-> Answer(N, x, f, q)]
  <1>13. \A q \in Deep(N, n) : g[q] = Answer(N, x, f, q) /\ q \in DOMAIN N
    BY <1>3
  <1>14. Right2(g, n)
    <2> SUFFICES ASSUME NEW q \in Deep(N, n) PROVE Good(g[q], Hits(N, S, x, q))
      OBVIOUS
    <2> HIDE DEF g
    <2>1. Good(Answer(N, x, f, q), Hits(N, S, x, q))
      BY <1>12, <1>13, AnswerGood
    <2> QED BY <1>13, <2>1
  <1>15. ASSUME NEW c \in Deep(N, n - 1), n # 0 PROVE c \in Deep(N, n) /\ g[c] = f[c]
    <2>1. c \in DOMAIN N /\ K - Len(c) <= n - 1
      BY <1>3
    <2>2. c \in Deep(N, n)
      BY <1>1, <1>2, <1>3, <1>9, <2>1
    <2>3. f = [q \in Deep(N, n - 1) |-> Answer(N, x, f, q)]
      BY <1>11, <1>15 DEF Solves
    <2>4. f[c] = Answer(N, x, f, c)
      BY <2>3
    <2> HIDE DEF g
    <2> QED BY <1>13, <2>2, <2>4
  <1> HIDE DEF g
  <1>16. ASSUME NEW q \in Deep(N, n) PROVE Answer(N, x, g, q) = Answer(N, x, f, q)
    <2>1. q \in DOMAIN N /\ K - Len(q) <= n
      BY <1>3
    <2>2. ASSUME NEW k \in Int, Append(q, k) \in DOMAIN N PROVE g[Append(q, k)] = f[Append(q, k)]
      <3>1. n # 0 /\ Append(q, k) \in Deep(N, n - 1)
        BY <1>5, <1>9, <2>1, <2>2
      <3> QED BY <1>15, <3>1
    <2> QED BY <1>12, <2>1, <2>2, AnswerSame
  <1>17. Solves(N, x, g, n)
    <2>1. g = [q \in Deep(N, n) |-> g[q]]
      BY DEF g
    <2>2. \A q \in Deep(N, n) : g[q] = Answer(N, x, g, q)
      BY <1>13, <1>16
    <2> QED BY <2>1, <2>2 DEF Solves
  <1> QED BY <1>9, <1>14, <1>17

\* Every solution is right everywhere: no node is the deepest where it is not.
LEMMA AnswerRight ==
  ASSUME NEW N, NEW S, Ready(N, S), NEW x \in Packets, NEW f,
         f = [q \in DOMAIN N |-> Answer(N, x, f, q)]
  PROVE  \A q \in DOMAIN N : Good(f[q], Hits(N, S, x, q))
PROOF
  <1> DEFINE K == Cardinality(Dims)
             Wrong == {q \in DOMAIN N : ~Good(f[q], Hits(N, S, x, q))}
             Bad == {n \in Nat : \E q \in Wrong : n = K - Len(q)}
  <1>1. \A q \in DOMAIN N : q \in Seq(Int) /\ Len(q) \in Nat /\ K \in Nat /\ Len(q) <= K
    BY DepthIs DEF Ready, Shape
  <1> HIDE DEF K
  <1>2. SUFFICES ASSUME Wrong # {} PROVE FALSE
    OBVIOUS
  <1>3. \A q \in Wrong : q \in DOMAIN N
    OBVIOUS
  <1>4. \A q \in DOMAIN N : q \notin Wrong => Good(f[q], Hits(N, S, x, q))
    OBVIOUS
  <1>5. \A q \in Wrong : ~Good(f[q], Hits(N, S, x, q))
    OBVIOUS
  <1> HIDE DEF Wrong
  <1>6. \A q \in Wrong : K - Len(q) \in Bad
    BY <1>1, <1>3
  <1>7. Bad \in SUBSET Nat /\ Bad # {}
    BY <1>2, <1>6
  <1> HIDE DEF Bad
  <1>8. PICK n \in Bad : \A m \in Bad : n <= m
    BY <1>7, LeastNumber
  <1>9. PICK q \in Wrong : n = K - Len(q)
    BY <1>8 DEF Bad
  <1>10. q \in DOMAIN N /\ f[q] = Answer(N, x, f, q)
    BY <1>3
  <1>11. KidsGood(N, S, x, f, q)
    <2> SUFFICES ASSUME NEW k \in Int, Append(q, k) \in DOMAIN N
                 PROVE  Good(f[Append(q, k)], Hits(N, S, x, Append(q, k)))
      BY DEF KidsGood
    <2> DEFINE c == Append(q, k)
    <2>1. Len(c) = Len(q) + 1
      BY <1>1, <1>10, AppendPath
    <2>2. Len(c) \in Nat /\ K \in Nat /\ Len(q) \in Nat
      BY <1>1, <1>10
    <2> HIDE DEF c
    <2>3. c \notin Wrong
      BY <1>6, <1>8, <1>9, <2>1, <2>2
    <2> QED BY <1>4, <2>3 DEF c
  <1>12. Good(Answer(N, x, f, q), Hits(N, S, x, q))
    BY <1>10, <1>11, AnswerGood
  <1> QED BY <1>5, <1>10, <1>12

\* A tree whose leaves are right answers every packet with its best stored match.
LEMMA ReadyAnswers ==
  ASSUME Ready(node, stored)
  PROVE  AnswersRight
PROOF
  <1> SUFFICES ASSUME NEW x \in Packets
               PROVE  LET hits == {r \in stored : Matches(r, x)}
                          found == ClassifyAPacket(x)
                      IN  IF hits = {} THEN found <= 0 ELSE found = Top(hits)
    BY DEF AnswersRight
  <1> DEFINE H == {r \in stored : Matches(r, x)}
             f == CHOOSE g : g = [q \in DOMAIN node |-> Answer(node, x, g, q)]
  <1>1. f = [q \in DOMAIN node |-> Answer(node, x, f, q)]
    BY AnswerExists
  <1>2. ClassifyAPacket(x) = f[<<>>]
    BY DEF ClassifyAPacket, Answer, Own
  <1> HIDE DEF f
  <1>3. \A q \in DOMAIN node : Good(f[q], Hits(node, stored, x, q))
    BY <1>1, AnswerRight
  <1>4. <<>> \in DOMAIN node /\ stored \subseteq Rules
    BY DEF Ready, Shape, Typed
  <1>5. LeadTo(node, <<>>) = Rules
    BY LeadsRoot DEF LeadTo
  <1>6. Hits(node, stored, x, <<>>) = H
    BY <1>4, <1>5 DEF Hits
  <1>7. Good(ClassifyAPacket(x), H)
    BY <1>2, <1>3, <1>4, <1>6
  <1> QED BY <1>7 DEF Good

\* the tree is built, and has no lists or no updates yet
Settled ==
  /\ mode = "build" /\ que = {}
  /\ (\A q \in DOMAIN node : node[q].fun # "linear") \/ New(node, stored)

\* A tree that is built, and has no vector that was updated, is ready for lookups.
LEMMA BuiltReady == TreeInv /\ Settled => Ready(node, stored)
PROOF
  <1> SUFFICES ASSUME TreeInv, mode = "build", que = {},
                      (\A q \in DOMAIN node : node[q].fun # "linear") \/ New(node, stored)
               PROVE  Ready(node, stored)
    BY DEF Settled
  <1>1. Shape(node) /\ stored \subseteq Rules /\ Stores(node, stored)
    BY DEF TreeInv
  <1>2. \A q \in DOMAIN node : node[q].fun \in {"none", "linear", "TM", "Hash"}
    BY <1>1 DEF Shape, Typed, Nodes
  <1>3. \A q \in DOMAIN node : node[q].fun # "none"
    BY DEF TreeInv
  <1>4. \A q \in DOMAIN node : node[q].fun = "linear" => Exact(node, q) /\ stored = Rules
    BY DEF New
  <1>5. \A q \in DOMAIN node : node[q].fun = "TM" => node[q].tmo = LeadTo(node, q) \cap stored
    BY <1>1 DEF Stores
  <1> QED BY <1>1, <1>2, <1>3, <1>4, <1>5 DEF Ready

\* In every reachable state where the tree to be used is built and no leaf is a list, every
\* lookup finds the best stored match, whatever was deleted and inserted again.
THEOREM TreeClassifiesRight == TreeSpec => []ClassifiesRight
PROOF
  <1>1. TreeInv => ClassifiesRight
    BY BuiltReady, ReadyAnswers DEF ClassifiesRight, Settled
  <1> QED BY <1>1, TreeInvariance, PTL

\* The step that ends the construction leaves a tree without updates.
LEMMA LastBuilt ==
  TreeInv /\ [TreeNext]_treeVars => (mode = "build" /\ que # {} /\ que' = {} => Settled')
PROOF
  <1> SUFFICES ASSUME TreeInv, [TreeNext]_treeVars, mode = "build", que # {}, que' = {}
               PROVE  New(node', stored') /\ mode' = mode
    BY DEF Settled
  <1>1. ASSUME NEW p \in que, Build(p) PROVE New(node', stored') /\ mode' = mode
    <2>1. UNCHANGED <<mode, binth, id, stored>> /\ (BuildLinear(p) \/ BuildTM(p) \/ BuildHash(p))
      BY <1>1 DEF Build
    <2> QED BY <2>1, LinearBuilt, TMBuilt, HashBuilt
  <1>2. ~Trained
    BY DEF Trained
  <1>3. \A r \in Rules : ~DeleteRule(r) /\ ~InsertRule(r)
    BY DEF DeleteRule, InsertRule
  <1>4. ~UNCHANGED treeVars
    BY DEF treeVars
  <1> QED BY <1>1, <1>2, <1>3, <1>4 DEF TreeNext

\* The step that ends the construction leaves a tree that answers every packet with its
\* best match, lists included.
THEOREM TreeBuildRight == TreeSpec => BuildRight
PROOF
  <1>1. TreeInv /\ Settled => AnswersRight
    BY BuiltReady, ReadyAnswers
  <1>2. TreeInv /\ [TreeNext]_treeVars => TreeInv'
    BY TreeStepInv
  <1>3. TreeInv /\ [TreeNext]_treeVars => (mode = "build" /\ que # {} /\ que' = {} => Settled')
    BY LastBuilt
  <1> QED BY <1>1, <1>2, <1>3, TreeInvariance, PTL DEF BuildRight, TreeSpec

----------------------------------------------------------------------------
(***************************************************************************)
(* The driver.                                                             *)
(***************************************************************************)

\* the classifiers as their theorems speak of them, each with the rules it is tried with
SP == INSTANCE PSTSS_proofs WITH Rules <- Loaded["PSTSS"]
SM == INSTANCE TupleMerge_proofs WITH Rules <- Loaded["TupleMerge"]
SS == INSTANCE PartitionSort_proofs WITH Rules <- Loaded["PartitionSort"]

----------------------------------------------------------------------------
(***************************************************************************)
(* The assumptions hold of the rules a method is tried with.               *)
(***************************************************************************)
LEMMA SpaceAssumptions == SP!PrefixAssumption /\ SP!TableAssumption
PROOF
  <1>1. Loaded["PSTSS"] \subseteq Rules
    BY ComparisonAssumption DEF Methods
  <1>2. SP!PrefixAssumption
    BY <1>1, PrefixAssumption DEF SP!PrefixAssumption, SP!Shr, Shr
  <1>3. IsFiniteSet(Loaded["PSTSS"])
    BY <1>1, TableAssumption, FS_Subset
  <1>4. SP!TableAssumption
    <2>1. SP!Indexed = Indexed
      BY DEF SP!Indexed, Indexed
    <2>2. SP!Indexed \subseteq Fields /\ \A f \in SP!Indexed : Width[f] < 2 ^ 6
      BY <2>1, TableAssumption
    <2>3. \A r \in Loaded["PSTSS"], f \in SP!Indexed :
            PrefixLen[r][f] <= Width[f] /\ Lo[r][f] % 2 ^ (Width[f] - PrefixLen[r][f]) = 0
      BY <1>1, <2>1, TableAssumption
    <2>4. /\ \A r \in Loaded["PSTSS"] : Prio[r] \in Nat \ {0}
          /\ \A r, q \in Loaded["PSTSS"] : Prio[r] = Prio[q] => r = q
      BY <1>1, TableAssumption
    <2> QED BY <1>3, <2>2, <2>3, <2>4 DEF SP!TableAssumption, SP!IsFiniteSet, IsFiniteSet
  <1> QED BY <1>2, <1>4

\* TupleMerge's rules and limits are as its theorems assume.
LEMMA MergeAssumptions == SM!PrefixAssumption /\ SM!TableAssumption /\ SM!MergeAssumption
PROOF
  <1>1. Loaded["TupleMerge"] \subseteq Rules
    BY ComparisonAssumption DEF Methods
  <1>2. SM!PrefixAssumption
    BY <1>1, PrefixAssumption DEF SM!PrefixAssumption, SM!Shr, Shr
  <1>3. IsFiniteSet(Loaded["TupleMerge"])
    BY <1>1, TableAssumption, FS_Subset
  <1>4. SM!TableAssumption
    <2>1. SM!Indexed = Indexed
      BY DEF SM!Indexed, Indexed
    <2>2. SM!Indexed \subseteq Fields /\ \A f \in SM!Indexed : Width[f] < 2 ^ 6
      BY <2>1, TableAssumption
    <2>3. \A r \in Loaded["TupleMerge"], f \in SM!Indexed :
            PrefixLen[r][f] <= Width[f] /\ Lo[r][f] % 2 ^ (Width[f] - PrefixLen[r][f]) = 0
      BY <1>1, <2>1, TableAssumption
    <2>4. /\ \A r \in Loaded["TupleMerge"] : Prio[r] \in Nat \ {0}
          /\ \A r, q \in Loaded["TupleMerge"] : Prio[r] = Prio[q] => r = q
      BY <1>1, TableAssumption
    <2> QED BY <1>3, <2>2, <2>3, <2>4 DEF SM!TableAssumption, SM!IsFiniteSet, IsFiniteSet
  <1>5. SM!MergeAssumption
    BY ComparisonAssumption DEF SM!MergeAssumption, Merge!MergeAssumption
  <1> QED BY <1>2, <1>4, <1>5

\* So are PartitionSort's rules.
LEMMA SortAssumptions == SS!PrefixAssumption /\ SS!SortAssumption
PROOF
  <1>1. Loaded["PartitionSort"] \subseteq Rules
    BY ComparisonAssumption DEF Methods
  <1>2. SS!PrefixAssumption
    BY <1>1, PrefixAssumption DEF SS!PrefixAssumption, SS!Shr, Shr
  <1>3. SS!CutHarmless <=> Sort!CutHarmless
    BY DEF SS!CutHarmless, Sort!CutHarmless, SS!IsIntersect, Sort!IsIntersect,
           SS!IsIdentical, Sort!IsIdentical, SS!Unsigned, Sort!Unsigned
  <1>4. Sort!SortAssumption
    BY ComparisonAssumption
  <1>5. SS!SortAssumption
    BY <1>3, <1>4 DEF SS!SortAssumption, Sort!SortAssumption, SS!IsFiniteSet, Sort!IsFiniteSet
  <1> QED BY <1>2, <1>5

----------------------------------------------------------------------------
(***************************************************************************)
(* The driver's instance of each classifier and the one the theorems are   *)
(* about have the same definitions.                                        *)
(***************************************************************************)

\* The driver's PSTSS is the one of PSTSS_proofs.
LEMMA SpaceSame ==
  /\ SP!vars = Space!vars
  /\ SP!Init <=> Space!Init
  /\ SP!Next <=> Space!Next
  /\ SP!TypeOK <=> Space!TypeOK
  /\ SP!VectorExact <=> Space!VectorExact
  /\ SP!VectorSorted <=> Space!VectorSorted
  /\ SP!TuplesExact <=> Space!TuplesExact
  /\ SP!ScanExact <=> Space!ScanExact
PROOF
  <1> USE DEF SP!Indexed, Space!Indexed, SP!Lengths, Space!Lengths,
              SP!Table, Space!Table, SP!NewTable, Space!NewTable,
              SP!LengthsOf, Space!LengthsOf, SP!Top, Space!Top, SP!Shr,
              Space!Shr, SP!Masked, Space!Masked, SP!HashPacket,
              Space!HashPacket, SP!HashRule, Space!HashRule, SP!Chain,
              Space!Chain, SP!Insertion, Space!Insertion, SP!Deletion,
              Space!Deletion, SP!DeletionChanges, Space!DeletionChanges,
              SP!Matches, Space!Matches, SP!FindMatchPacket,
              Space!FindMatchPacket, SP!Elements, Space!Elements,
              SP!Descends, Space!Descends, SP!Permuted, Space!Permuted,
              SP!Sorted, Space!Sorted, SP!NoScan, Space!NoScan, SP!Stored,
              Space!Stored
  <1>1. SP!vars = Space!vars
    BY DEF SP!vars, Space!vars
  <1>2. SP!Init <=> Space!Init
    BY DEF SP!Init, Space!Init
  <1>3. SP!Next <=> Space!Next
    BY DEF SP!Next, Space!Next, SP!InsertRule, Space!InsertRule,
           SP!InsertOld, Space!InsertOld, SP!InsertNew, Space!InsertNew,
           SP!DeleteRule, Space!DeleteRule, SP!DeleteOne, Space!DeleteOne,
           SP!DeleteLast, Space!DeleteLast, SP!KeyRulePrefix,
           Space!KeyRulePrefix, SP!Resort, Space!Resort, SP!store,
           Space!store, SP!ClassifyStart, Space!ClassifyStart,
           SP!ClassifyProbe, Space!ClassifyProbe, SP!ClassifyEnd,
           Space!ClassifyEnd, SP!NextTuple, Space!NextTuple, SP!ScanOver,
           Space!ScanOver
  <1>4. SP!TypeOK <=> Space!TypeOK
    BY DEF SP!TypeOK, Space!TypeOK
  <1>5. SP!VectorExact <=> Space!VectorExact
    BY DEF SP!VectorExact, Space!VectorExact, SP!Cardinality,
           Space!Cardinality
  <1>6. SP!VectorSorted <=> Space!VectorSorted
    BY DEF SP!VectorSorted, Space!VectorSorted
  <1>7. SP!TuplesExact <=> Space!TuplesExact
    BY DEF SP!TuplesExact, Space!TuplesExact
  <1>8. SP!ScanExact <=> Space!ScanExact
    BY DEF SP!ScanExact, Space!ScanExact, SP!Probed, Space!Probed,
           SP!ScanOver, Space!ScanOver, SP!NextTuple, Space!NextTuple
  <1> QED BY <1>1, <1>2, <1>3, <1>4, <1>5, <1>6, <1>7, <1>8

\* The splits are the hardest: a move is compared for any tables first.
LEMMA MoveSame ==
  ASSUME NEW r, NEW t, NEW T, NEW new, NEW to, NEW target
  PROVE  SM!Move(r, t, T, new, to, target) <=> Merge!Move(r, t, T, new, to, target)
  BY DEF SM!Move, Merge!Move, SM!Moved, Merge!Moved, SM!Parted,
         Merge!Parted, SM!Lighten, Merge!Lighten, SM!Take, Merge!Take,
         SM!CanInsert, Merge!CanInsert, SM!Reassign, Merge!Reassign, SM!Top,
         Merge!Top, SM!Indexed, Merge!Indexed, SM!Resort, Merge!Resort,
         SM!Sorted, Merge!Sorted, SM!Permuted, Merge!Permuted, SM!Elements,
         Merge!Elements, SM!Descends, Merge!Descends

\* A split whose target is there is the same action in both.
LEMMA SplitOldSame ==
  ASSUME NEW r, NEW t
  PROVE  SM!InsertSplit(r, t) <=> Merge!InsertSplit(r, t)
  BY MoveSame, ZenonT(60) DEF SM!InsertSplit, Merge!InsertSplit, SM!Insertion, Merge!Insertion,
         SM!Collisions, Merge!Collisions, SM!Chain, Merge!Chain,
         SM!HashRule, Merge!HashRule, SM!Masked, Merge!Masked, SM!Indexed,
         Merge!Indexed, SM!Shr, Merge!Shr, SM!SplitLengths,
         Merge!SplitLengths, SM!BestField, Merge!BestField, SM!Delta,
         Merge!Delta, SM!Greatest, Merge!Greatest, SM!Least, Merge!Least,
         SM!Cardinality, Merge!Cardinality, SM!Assign, Merge!Assign,
         SM!Resort, Merge!Resort, SM!Sorted, Merge!Sorted, SM!Permuted,
         Merge!Permuted, SM!Elements, Merge!Elements, SM!Descends,
         Merge!Descends

\* So is a split whose target is new.
LEMMA SplitNewSame ==
  ASSUME NEW r, NEW t
  PROVE  SM!InsertSplitNew(r, t) <=> Merge!InsertSplitNew(r, t)
  BY MoveSame, ZenonT(60) DEF SM!InsertSplitNew, Merge!InsertSplitNew, SM!Address, Merge!Address,
         SM!NewTable, Merge!NewTable, SM!Insertion, Merge!Insertion,
         SM!Collisions, Merge!Collisions, SM!Chain, Merge!Chain,
         SM!HashRule, Merge!HashRule, SM!Masked, Merge!Masked, SM!Indexed,
         Merge!Indexed, SM!Shr, Merge!Shr, SM!SplitLengths,
         Merge!SplitLengths, SM!BestField, Merge!BestField, SM!Delta,
         Merge!Delta, SM!Greatest, Merge!Greatest, SM!Least, Merge!Least,
         SM!Cardinality, Merge!Cardinality

\* The driver's TupleMerge is the one of TupleMerge_proofs.
LEMMA MergeSame ==
  /\ SM!vars = Merge!vars
  /\ SM!Init <=> Merge!Init
  /\ \A r, t : SM!InsertPlain(r, t) <=> Merge!InsertPlain(r, t)
  /\ \A r : SM!InsertNewTable(r) <=> Merge!InsertNewTable(r)
  /\ \A r : SM!InsertRule(r) <=> Merge!InsertRule(r)
  /\ \A r : SM!DeleteRule(r) <=> Merge!DeleteRule(r)
  /\ \A p : SM!ClassifyStart(p) <=> Merge!ClassifyStart(p)
  /\ SM!ClassifyProbe <=> Merge!ClassifyProbe
  /\ SM!ClassifyEnd <=> Merge!ClassifyEnd
  /\ SM!TypeOK <=> Merge!TypeOK
  /\ SM!TablesSorted <=> Merge!TablesSorted
  /\ SM!TablesExact <=> Merge!TablesExact
  /\ SM!TablesDistinct <=> Merge!TablesDistinct
  /\ SM!AssignmentExact <=> Merge!AssignmentExact
  /\ SM!ScanExact <=> Merge!ScanExact
  /\ SM!Next <=> Merge!Next
PROOF
  <1> USE DEF SM!Indexed, Merge!Indexed, SM!Lengths, Merge!Lengths,
              SM!Table, Merge!Table, SM!NewTable, Merge!NewTable,
              SM!LengthsOf, Merge!LengthsOf, SM!Top, Merge!Top, SM!Shr,
              Merge!Shr, SM!Masked, Merge!Masked, SM!HashPacket,
              Merge!HashPacket, SM!HashRule, Merge!HashRule, SM!Chain,
              Merge!Chain, SM!Insertion, Merge!Insertion, SM!Deletion,
              Merge!Deletion, SM!DeletionChanges, Merge!DeletionChanges,
              SM!Matches, Merge!Matches, SM!FindMatchPacket,
              Merge!FindMatchPacket, SM!Elements, Merge!Elements,
              SM!Descends, Merge!Descends, SM!Permuted, Merge!Permuted,
              SM!Sorted, Merge!Sorted, SM!NoScan, Merge!NoScan, SM!Stored,
              Merge!Stored
  <1>1. SM!vars = Merge!vars
    BY DEF SM!vars, Merge!vars
  <1>2. SM!Init <=> Merge!Init
    BY DEF SM!Init, Merge!Init
  <1>3. \A r, t : SM!InsertPlain(r, t) <=> Merge!InsertPlain(r, t)
    BY DEF SM!InsertPlain, Merge!InsertPlain, SM!Collisions,
           Merge!Collisions, SM!Assign, Merge!Assign, SM!Resort,
           Merge!Resort, SM!Cardinality, Merge!Cardinality
  <1>4. \A r : SM!InsertNewTable(r) <=> Merge!InsertNewTable(r)
    BY SMTT(30) DEF SM!InsertNewTable, Merge!InsertNewTable, SM!Assign, Merge!Assign,
           SM!Resort, Merge!Resort, SM!Relax, Merge!Relax, SM!Shorten,
           Merge!Shorten, SM!Address, Merge!Address, SM!Cardinality,
           Merge!Cardinality
  <1>5. \A r : SM!InsertRule(r) <=> Merge!InsertRule(r)
    BY <1>3, <1>4, SplitOldSame, SplitNewSame DEF SM!InsertRule, Merge!InsertRule, SM!FirstTable, Merge!FirstTable,
           SM!CanInsert, Merge!CanInsert
  <1>6. \A r : SM!DeleteRule(r) <=> Merge!DeleteRule(r)
    BY DEF SM!DeleteRule, Merge!DeleteRule, SM!Erased, Merge!Erased,
           SM!Resort, Merge!Resort
  <1>7. \A p : SM!ClassifyStart(p) <=> Merge!ClassifyStart(p)
    BY DEF SM!ClassifyStart, Merge!ClassifyStart, SM!store, Merge!store
  <1>8. SM!ClassifyProbe <=> Merge!ClassifyProbe
    BY DEF SM!ClassifyProbe, Merge!ClassifyProbe, SM!store, Merge!store,
           SM!NextTable, Merge!NextTable, SM!ScanOver, Merge!ScanOver
  <1>9. SM!ClassifyEnd <=> Merge!ClassifyEnd
    BY DEF SM!ClassifyEnd, Merge!ClassifyEnd, SM!store, Merge!store,
           SM!NextTable, Merge!NextTable, SM!ScanOver, Merge!ScanOver
  <1>10. SM!TypeOK <=> Merge!TypeOK
    BY DEF SM!TypeOK, Merge!TypeOK, SM!Cardinality, Merge!Cardinality
  <1>11. SM!TablesSorted <=> Merge!TablesSorted
    BY DEF SM!TablesSorted, Merge!TablesSorted
  <1>12. SM!TablesExact <=> Merge!TablesExact
    BY DEF SM!TablesExact, Merge!TablesExact
  <1>13. SM!TablesDistinct <=> Merge!TablesDistinct
    BY DEF SM!TablesDistinct, Merge!TablesDistinct
  <1>14. SM!AssignmentExact <=> Merge!AssignmentExact
    BY DEF SM!AssignmentExact, Merge!AssignmentExact
  <1>15. SM!ScanExact <=> Merge!ScanExact
    BY DEF SM!ScanExact, Merge!ScanExact, SM!Best, Merge!Best, SM!Probed,
           Merge!Probed, SM!ScanOver, Merge!ScanOver, SM!NextTable,
           Merge!NextTable
  <1>16. SM!Next <=> Merge!Next
    BY <1>5, <1>6, <1>7, <1>8, <1>9 DEF SM!Next, Merge!Next
  <1> QED BY <1>1, <1>2, <1>3, <1>4, <1>5, <1>6, <1>7, <1>8, <1>9, <1>10, <1>11, <1>12,
             <1>13, <1>14, <1>15, <1>16

\* May a rule go into a tree?
LEMMA CanInsertSame ==
  ASSUME NEW T, NEW r
  PROVE  SS!CanInsertRule(T, r) <=> Sort!CanInsertRule(T, r)
  BY ZenonT(60) DEF SS!CanInsertRule, Sort!CanInsertRule, SS!KeyOf, Sort!KeyOf,
         SS!RBTreeCanInsert, Sort!RBTreeCanInsert, SS!FirstOther,
         Sort!FirstOther, SS!Boxes, Sort!Boxes, SS!IsIdentical,
         Sort!IsIdentical, SS!IsIntersect, Sort!IsIntersect, SS!Unsigned,
         Sort!Unsigned, SS!Depth, Sort!Depth, SS!Upto, Sort!Upto, SS!Rest,
         Sort!Rest, SS!OnWay, Sort!OnWay

\* The chain of a single rule is unzipped alike.
LEMMA UnzipSame ==
  ASSUME NEW t, NEW key, NEW p, NEW l
  PROVE  SS!Unzip(t, key, p, l) = Sort!Unzip(t, key, p, l)
  BY ZenonT(60) DEF SS!Unzip, Sort!Unzip, SS!GetMaxPriority,
         Sort!GetMaxPriority, SS!Upto, Sort!Upto, SS!Rest, Sort!Rest, SS!OnWay,
         Sort!OnWay, SS!Tree, Sort!Tree, SS!Agreement, Sort!Agreement

\* An insert into a tree.
LEMMA InsertSame ==
  ASSUME NEW t, NEW key, NEW p
  PROVE  SS!RBTreeInsert(t, key, p) = Sort!RBTreeInsert(t, key, p)
PROOF
  <1> DEFINE l == SS!Depth(t, key, 1)  at == SS!Upto(key, l)
  <1>1. SS!Depth(t, key, 1) = Sort!Depth(t, key, 1)
    BY DEF SS!Depth, Sort!Depth, SS!Upto, Sort!Upto
  <1>2. SS!Upto(key, l) = Sort!Upto(key, l) /\ SS!Rest(key, l) = Sort!Rest(key, l)
    BY DEF SS!Upto, Sort!Upto, SS!Rest, Sort!Rest
  <1>3. \A m : SS!Passed(t, key, m, 1) = Sort!Passed(t, key, m, 1)
    BY DEF SS!Passed, Sort!Passed, SS!OnWay, Sort!OnWay, SS!Upto, Sort!Upto
  <1>4. \A u : SS!AddNode(u, key, p, l) = Sort!AddNode(u, key, p, l)
    BY DEF SS!AddNode, Sort!AddNode, SS!Upto, Sort!Upto, SS!Rest, Sort!Rest, SS!Tree, Sort!Tree
  <1>5. \A n, c, d : SS!Tree(n, c, d) = Sort!Tree(n, c, d)
    BY DEF SS!Tree, Sort!Tree
  <1> HIDE DEF l
  <1>6. \A u : SS!Unzip(u, key, p, l) = Sort!Unzip(u, key, p, l)
    BY UnzipSame
  <1>7. l = Sort!Depth(t, key, 1)
    BY <1>1 DEF l
  <1> QED BY <1>2, <1>3, <1>4, <1>5, <1>6, <1>7 DEF SS!RBTreeInsert, Sort!RBTreeInsert, l

\* A rule is put into a tree alike.
LEMMA TreeInsertionSame ==
  ASSUME NEW T, NEW r
  PROVE  SS!TreeInsertion(T, r) = Sort!TreeInsertion(T, r)
PROOF
  <1>1. SS!KeyOf(r, T.fieldOrder) = Sort!KeyOf(r, T.fieldOrder)
    BY DEF SS!KeyOf, Sort!KeyOf
  <1>2. SS!RBTreeInsert(T.root, SS!KeyOf(r, T.fieldOrder), Prio[r])
          = Sort!RBTreeInsert(T.root, Sort!KeyOf(r, T.fieldOrder), Prio[r])
    BY <1>1, InsertSame
  <1> QED BY <1>2 DEF SS!TreeInsertion, Sort!TreeInsertion

\* The updates of PartitionSort.
LEMMA InsertIntoSame ==
  ASSUME NEW r
  PROVE  SS!InsertInto(r) <=> Sort!InsertInto(r)
PROOF
  <1> DEFINE t == mitrees[CHOOSE i \in Sort!Takers(r) : \A j \in Sort!Takers(r) : i <= j]
             h == [mitree EXCEPT ![t] = Sort!TreeInsertion(@, r)]
             g == [mitree EXCEPT ![t] = SS!TreeInsertion(@, r)]
  <1>1. SS!Takers(r) = Sort!Takers(r)
    BY CanInsertSame DEF SS!Takers, Sort!Takers
  <1>2. g = h
    BY TreeInsertionSame
  <1>3. \A u : SS!Remember(r, u) <=> Sort!Remember(r, u)
    BY DEF SS!Remember, Sort!Remember
  <1>4. \A f, arr : SS!Sorted(f, arr) = Sort!Sorted(f, arr)
    BY DEF SS!Sorted, Sort!Sorted, SS!Descends, Sort!Descends
  <1>5. SS!InsertInto(r) <=>
          /\ Sort!Takers(r) # {}
          /\ mitree' = g
          /\ mitrees' \in IF Prio[r] > mitree[t].maxPriority THEN SS!Sorted(g, mitrees) ELSE {mitrees}
          /\ SS!Remember(r, t)
    BY <1>1 DEF SS!InsertInto
  <1>6. Sort!InsertInto(r) <=>
          /\ Sort!Takers(r) # {}
          /\ mitree' = h
          /\ mitrees' \in IF Prio[r] > mitree[t].maxPriority THEN Sort!Sorted(h, mitrees) ELSE {mitrees}
          /\ Sort!Remember(r, t)
    BY DEF Sort!InsertInto
  <1> HIDE DEF t, g, h
  <1> QED BY <1>2, <1>3, <1>4, <1>5, <1>6

\* A rule that no tree takes gets the same tree of its own.
LEMMA InsertNewTreeSame ==
  ASSUME NEW r
  PROVE  SS!InsertNewTree(r) <=> Sort!InsertNewTree(r)
PROOF
  <1> DEFINE g(order) == [t \in DOMAIN mitree \cup {Sort!Address} |->
                            IF t = Sort!Address THEN SS!TreeInsertion(SS!NewTree(order), r) ELSE mitree[t]]
             h(order) == [t \in DOMAIN mitree \cup {Sort!Address} |->
                            IF t = Sort!Address THEN Sort!TreeInsertion(Sort!NewTree(order), r) ELSE mitree[t]]
  <1>1. SS!Takers(r) = Sort!Takers(r)
    BY CanInsertSame DEF SS!Takers, Sort!Takers
  <1>2. SS!Address = Sort!Address
    BY DEF SS!Address, Sort!Address, SS!Cardinality, Sort!Cardinality
  <1>3. SS!FieldOrders(r) = Sort!FieldOrders(r)
    BY DEF SS!FieldOrders, Sort!FieldOrders, SS!Rank, Sort!Rank, SS!Cardinality, Sort!Cardinality
  <1>4. \A order : g(order) = h(order)
    <2> TAKE order
    <2>1. SS!NewTree(order) = Sort!NewTree(order)
      BY DEF SS!NewTree, Sort!NewTree, SS!RBTreeCreate, Sort!RBTreeCreate, SS!Tree, Sort!Tree
    <2>2. SS!TreeInsertion(SS!NewTree(order), r) = Sort!TreeInsertion(Sort!NewTree(order), r)
      BY <2>1, TreeInsertionSame
    <2> QED BY <2>2
  <1>5. \A u : SS!Remember(r, u) <=> Sort!Remember(r, u)
    BY DEF SS!Remember, Sort!Remember
  <1>6. \A f, arr : SS!Sorted(f, arr) = Sort!Sorted(f, arr)
    BY DEF SS!Sorted, Sort!Sorted, SS!Descends, Sort!Descends
  <1>7. SS!InsertNewTree(r) <=>
          /\ Sort!Takers(r) = {}
          /\ \E order \in Sort!FieldOrders(r) :
               mitree' = g(order) /\ mitrees' \in SS!Sorted(g(order), Append(mitrees, Sort!Address))
          /\ SS!Remember(r, Sort!Address)
    BY <1>1, <1>2, <1>3 DEF SS!InsertNewTree
  <1>8. Sort!InsertNewTree(r) <=>
          /\ Sort!Takers(r) = {}
          /\ \E order \in Sort!FieldOrders(r) :
               mitree' = h(order) /\ mitrees' \in Sort!Sorted(h(order), Append(mitrees, Sort!Address))
          /\ Sort!Remember(r, Sort!Address)
    BY DEF Sort!InsertNewTree
  <1> HIDE DEF g, h
  <1> QED BY <1>4, <1>5, <1>6, <1>7, <1>8

\* A rule is taken out of a tree alike.
LEMMA TreeDeletionSame ==
  ASSUME NEW T, NEW r
  PROVE  SS!TreeDeletion(T, r) = Sort!TreeDeletion(T, r)
  BY ZenonT(60) DEF SS!TreeDeletion, Sort!TreeDeletion, SS!Top, Sort!Top, SS!KeyOf, Sort!KeyOf,
                SS!RBTreeDelete, Sort!RBTreeDelete, SS!RBTreeCreate,
                Sort!RBTreeCreate, SS!Collapse, Sort!Collapse, SS!Ends,
                Sort!Ends, SS!Below, Sort!Below, SS!Without, Sort!Without,
                SS!Depth, Sort!Depth, SS!Passed, Sort!Passed, SS!Upto,
                Sort!Upto, SS!Rest, Sort!Rest, SS!OnWay, Sort!OnWay, SS!Tree,
                Sort!Tree

\* A delete is the same action in both.
LEMMA DeleteSame ==
  ASSUME NEW r
  PROVE  SS!DeleteRule(r) <=> Sort!DeleteRule(r)
PROOF
  <1> DEFINE t == rule_tree_map[r]
             T == SS!TreeDeletion(mitree[t], r)
             U == Sort!TreeDeletion(mitree[t], r)
             h == [mitree EXCEPT ![t] = T]
             k == [mitree EXCEPT ![t] = U]
             Outcome(x, g, list) ==
               IF x.priorityContainer = {}
               THEN /\ mitree' = [u \in DOMAIN mitree \ {t} |-> mitree[u]]
                    /\ mitrees' = SubSeq(list, 1, Len(list) - 1)
               ELSE mitree' = g /\ mitrees' = list
             Sorts(x) == Prio[r] = mitree[t].maxPriority \/ x.priorityContainer = {}
             Last == answer' = <<>> /\ UNCHANGED <<rule_tree_map, scan>>
  <1>1. T = U /\ h = k
    BY TreeDeletionSame, Zenon
  <1>2. SS!Stored = Sort!Stored /\ SS!NoScan = Sort!NoScan
    BY DEF SS!Stored, Sort!Stored, SS!RulesOf, Sort!RulesOf, SS!NoScan, Sort!NoScan
  <1>3. \A g, list : SS!Sorted(g, list) = Sort!Sorted(g, list)
    BY DEF SS!Sorted, Sort!Sorted, SS!Descends, Sort!Descends
  <1>4. SS!DeleteRule(r) <=>
          /\ scan = SS!NoScan /\ r \in SS!Stored
          /\ \E list \in IF Sorts(T) THEN SS!Sorted(h, mitrees) ELSE {mitrees} : Outcome(T, h, list)
          /\ Last
    BY DEF SS!DeleteRule
  <1>5. Sort!DeleteRule(r) <=>
          /\ scan = Sort!NoScan /\ r \in Sort!Stored
          /\ \E list \in IF Sorts(U) THEN Sort!Sorted(k, mitrees) ELSE {mitrees} : Outcome(U, k, list)
          /\ Last
    BY DEF Sort!DeleteRule
  <1> HIDE DEF T, U, h, k, Outcome, Sorts, Last
  <1> QED BY <1>1, <1>2, <1>3, <1>4, <1>5

\* The driver's PartitionSort is the one of PartitionSort_proofs.
LEMMA SortSame ==
  /\ SS!vars = Sort!vars
  /\ SS!Stored = Sort!Stored
  /\ SS!Init <=> Sort!Init
  /\ SS!Next <=> Sort!Next
  /\ SS!TypeOK <=> Sort!TypeOK
  /\ SS!TreesSound <=> Sort!TreesSound
PROOF
  <1>1. SS!vars = Sort!vars
    BY DEF SS!vars, Sort!vars
  <1>2. SS!Stored = Sort!Stored
    BY DEF SS!Stored, Sort!Stored, SS!RulesOf, Sort!RulesOf
  <1>3. SS!Init <=> Sort!Init
    BY DEF SS!Init, Sort!Init, SS!NewTree, Sort!NewTree, SS!RBTreeCreate,
           Sort!RBTreeCreate, SS!Tree, Sort!Tree, SS!NoScan, Sort!NoScan
  <1>4. \A r : SS!InsertRule(r) <=> Sort!InsertRule(r)
    BY <1>2, InsertIntoSame, InsertNewTreeSame DEF SS!InsertRule,
                  Sort!InsertRule, SS!NoScan, Sort!NoScan
  <1>5. \A p : SS!ClassifyStart(p) <=> Sort!ClassifyStart(p)
    BY DEF SS!ClassifyStart, Sort!ClassifyStart, SS!NoScan, Sort!NoScan,
           SS!store, Sort!store
  <1>6. SS!ScanOver <=> Sort!ScanOver
    BY DEF SS!ScanOver, Sort!ScanOver, SS!NextTree, Sort!NextTree
  <1>7. SS!ClassifyProbe <=> Sort!ClassifyProbe
    BY DEF SS!ClassifyProbe, Sort!ClassifyProbe, SS!NoScan, Sort!NoScan,
           SS!ScanOver, Sort!ScanOver, SS!NextTree, Sort!NextTree, SS!Points,
           Sort!Points, SS!store, Sort!store, SS!RBExactQuery,
           Sort!RBExactQuery, SS!InBox, Sort!InBox, SS!GetMaxPriority,
           Sort!GetMaxPriority
  <1>8. SS!ClassifyEnd <=> Sort!ClassifyEnd
    BY <1>6 DEF SS!ClassifyEnd, Sort!ClassifyEnd, SS!NoScan, Sort!NoScan,
                  SS!store, Sort!store
  <1>9. SS!Next <=> Sort!Next
    BY <1>4, <1>5, <1>7, <1>8, DeleteSame DEF SS!Next, Sort!Next
  <1>10. SS!TypeOK <=> Sort!TypeOK
    BY DEF SS!TypeOK, Sort!TypeOK, SS!NoScan, Sort!NoScan, SS!Cardinality,
           Sort!Cardinality
  <1>11. SS!Sortable <=> Sort!Sortable
    BY DEF SS!Sortable, Sort!Sortable, SS!RulesOf, Sort!RulesOf, SS!KeyOf,
           Sort!KeyOf, SS!Agreement, Sort!Agreement, SS!Upto, Sort!Upto
  <1>12. SS!Compressed <=> Sort!Compressed
    BY DEF SS!Compressed, Sort!Compressed, SS!RulesOf, Sort!RulesOf, SS!KeyOf,
           Sort!KeyOf, SS!Along, Sort!Along, SS!OnWay, Sort!OnWay, SS!Upto,
           Sort!Upto, SS!Cardinality, Sort!Cardinality
  <1>13. SS!TreesListed <=> Sort!TreesListed
    BY DEF SS!TreesListed, Sort!TreesListed, SS!RulesOf, Sort!RulesOf, SS!Top,
           Sort!Top, SS!Descends, Sort!Descends
  <1>14. SS!ScanExact <=> Sort!ScanExact
    BY <1>6 DEF SS!ScanExact, Sort!ScanExact, SS!NoScan, Sort!NoScan,
                  SS!RulesOf, Sort!RulesOf, SS!Stored, Sort!Stored, SS!Top,
                  Sort!Top, SS!Matched, Sort!Matched, SS!Matches, Sort!Matches
  <1>15. SS!TreesSound <=> Sort!TreesSound
    BY <1>11, <1>12, <1>13, <1>14 DEF SS!TreesSound, Sort!TreesSound
  <1> QED BY <1>1, <1>2, <1>3, <1>9, <1>10, <1>15

----------------------------------------------------------------------------
(***************************************************************************)
(* A behaviour of the driver is one of the classifier it was asked for,    *)
(* for good.                                                               *)
(***************************************************************************)

\* PSTSS in the driver: map and vector list the same live tuples in order, with exact
\* caches, and the lookup's early end loses nothing (TupleSpaceSearch.cpp:248-256, 287-293).
THEOREM Tuples == Spec => []TuplesSound
PROOF
  <1>1. Init /\ method = "PSTSS" => SP!Init
    BY SpaceSame DEF Init
  <1>2. method = "PSTSS" /\ [Next]_vars => (method = "PSTSS")' /\ [SP!Next]_(SP!vars)
    <2>1. ASSUME method = "PSTSS", Next PROVE method' = method /\ SP!Next
      BY <2>1, SpaceSame DEF Next
    <2>2. ASSUME UNCHANGED vars PROVE method' = method /\ UNCHANGED SP!vars
      BY <2>2 DEF vars, space, merge, SP!vars
    <2> QED BY <2>1, <2>2
  <1>3. ~(method = "PSTSS") /\ [Next]_vars => ~(method = "PSTSS")'
    BY DEF Next, vars
  <1>4. SP!Spec => [](SP!TypeOK /\ SP!TuplesSound)
    BY SpaceAssumptions, SP!Sound
  <1>5. SP!TypeOK /\ SP!TuplesSound => TuplesSound
    BY SpaceSame DEF TuplesSound, SP!TuplesSound, Space!TuplesSound
  <1>6. ~(method = "PSTSS") => TuplesSound
    BY DEF TuplesSound
  <1> QED BY <1>1, <1>2, <1>3, <1>4, <1>5, <1>6, PTL DEF Spec, SP!Spec

\* TupleMerge in the driver: the same of its tables, through splits and frees, and a
\* delete follows the assignment of its rule to the one live table that has it
\* (TupleMergeOnline.cpp:102-116, 144, 154, 184-253).
THEOREM Tables == Spec => []TablesSound
PROOF
  <1>1. Init /\ method = "TupleMerge" => SM!Init
    BY MergeSame DEF Init
  <1>2. method = "TupleMerge" /\ [Next]_vars => (method = "TupleMerge")' /\ [SM!Next]_(SM!vars)
    <2>1. ASSUME method = "TupleMerge", Next PROVE method' = method /\ SM!Next
      BY <2>1, MergeSame DEF Next
    <2>2. ASSUME UNCHANGED vars PROVE method' = method /\ UNCHANGED SM!vars
      BY <2>2 DEF vars, space, merge, SM!vars
    <2> QED BY <2>1, <2>2
  <1>3. ~(method = "TupleMerge") /\ [Next]_vars => ~(method = "TupleMerge")'
    BY DEF Next, vars
  <1>4. SM!Spec => [](SM!TypeOK /\ SM!TablesSound /\ SM!AssignmentExact)
    BY MergeAssumptions, SM!Sound
  <1>5. SM!TypeOK /\ SM!TablesSound /\ SM!AssignmentExact => TablesSound
    BY MergeSame DEF TablesSound, SM!TablesSound, Merge!TablesSound
  <1>6. ~(method = "TupleMerge") => TablesSound
    BY DEF TablesSound
  <1> QED BY <1>1, <1>2, <1>3, <1>4, <1>5, <1>6, PTL DEF Spec, SM!Spec

\* PartitionSort in the driver: each tree is the path compression of comparable rules,
\* whatever its past, the live trees are listed in order, and the lookup's early end loses
\* nothing, if the cut to unsigned confuses no two ranges of the rules it is created with
\* (red_black_tree.cpp:399-489, 1191-1280; PartitionSort.cpp).
THEOREM Trees == Spec => []TreesSound
PROOF
  <1>1. Init /\ method = "PartitionSort" => SS!Init
    BY SortSame DEF Init
  <1>2. method = "PartitionSort" /\ [Next]_vars => (method = "PartitionSort")' /\ [SS!Next]_(SS!vars)
    <2>1. ASSUME method = "PartitionSort", Next PROVE method' = method /\ SS!Next
      BY <2>1, SortSame DEF Next
    <2>2. ASSUME UNCHANGED vars PROVE method' = method /\ UNCHANGED SS!vars
      BY <2>2 DEF vars, sort, SS!vars
    <2> QED BY <2>1, <2>2
  <1>3. ~(method = "PartitionSort") /\ [Next]_vars => ~(method = "PartitionSort")'
    BY DEF Next, vars
  <1>4. SS!Spec => [](SS!TypeOK /\ SS!TreesSound)
    BY SortAssumptions, SS!Sound
  <1>5. SS!TypeOK /\ SS!TreesSound => TreesSound
    BY SortSame DEF TreesSound
  <1>6. ~(method = "PartitionSort") => TreesSound
    BY DEF TreesSound
  <1> QED BY <1>1, <1>2, <1>3, <1>4, <1>5, <1>6, PTL DEF Spec, SS!Spec

----------------------------------------------------------------------------
(***************************************************************************)
(* What the classifier that was asked for does is what the driver's        *)
(* classifier does.                                                        *)
(***************************************************************************)

Kept == CASE method = "PSTSS" -> Space!Stored
          [] method = "TupleMerge" -> Merge!Stored
          [] method = "PartitionSort" -> Sort!Stored
Shown == IF answer = <<>> \/ answer[2] >= 0 THEN answer ELSE <<answer[1], 0>>

\* The best of a set of rules, 0 when there is none.
LEMMA BestNat ==
  ASSUME NEW S \in SUBSET Rules
  PROVE  Abstract!Best(S) \in Nat
PROOF
  <1>1. IsFiniteSet(S) /\ \A r \in S : Prio[r] \in Nat
    BY FS_Subset, TableAssumption
  <1>2. \E m \in {0} \cup {Prio[r] : r \in S} : \A r \in S : Prio[r] <= m
    <2>1. CASE S = {}
      BY <2>1
    <2>2. CASE S # {}
      <3>1. PICK b \in S : \A r \in S : Prio[r] <= Prio[b]
        BY <1>1, <2>2, SomeBest
      <3>2. Prio[b] \in {0} \cup {Prio[r] : r \in S}
        OBVIOUS
      <3> QED BY <3>1, <3>2
    <2> QED BY <2>1, <2>2
  <1> QED BY <1>1, <1>2 DEF Abstract!Best

\* A step of PSTSS, for which -1 means no match.
LEMMA SpaceMeans ==
  ASSUME method = "PSTSS", method' = method, [SP!Abstract!Next]_<<SP!Stored, Shown>>
  PROVE  [Abstract!Next]_<<Kept, Shown>>
PROOF
  <1>1. Kept = SP!Stored /\ Kept' = SP!Stored' /\ Loaded["PSTSS"] \subseteq Rules
    BY ComparisonAssumption DEF Kept, Methods, SP!Stored, Space!Stored
  <1>2. CASE UNCHANGED <<SP!Stored, Shown>>
    BY <1>1, <1>2 DEF Shown
  <1>3. ASSUME NEW r \in Loaded["PSTSS"], SP!Abstract!Insert(r) PROVE Abstract!Next
    BY <1>1, <1>3 DEF SP!Abstract!Insert, Abstract!Next, Abstract!Insert, Kept, Shown
  <1>4. ASSUME NEW r \in Loaded["PSTSS"], SP!Abstract!Delete(r) PROVE Abstract!Next
    BY <1>1, <1>4 DEF SP!Abstract!Delete, Abstract!Next, Abstract!Delete, Kept, Shown
  <1>5. ASSUME NEW r \in Loaded["PSTSS"], SP!Abstract!Lose(r) PROVE Abstract!Next
    <2>1. \E lost \in SUBSET Kept : Kept' = Kept \ lost
      BY <1>1, <1>5 DEF SP!Abstract!Lose
    <2>2. r \notin Kept /\ Shown' = <<>> /\ r \in Rules
      BY <1>1, <1>5 DEF SP!Abstract!Lose, Shown
    <2>3. Abstract!Lose(r)
      BY <2>1, <2>2, ZenonT(60) DEF Abstract!Lose, Kept, Shown
    <2> QED BY <2>2, <2>3 DEF Abstract!Next
  <1>6. ASSUME NEW p \in Packets, SP!Abstract!Lookup(p) PROVE Abstract!Lookup(p)
    <2>1. Shown' = <<p, Abstract!Best({r \in Kept : Matches(r, p)})>> /\ Kept' = Kept
      BY <1>1, <1>6 DEF SP!Abstract!Lookup, SP!Abstract!Best, Abstract!Best, SP!Matches, Matches, Shown
    <2> QED BY <2>1 DEF Abstract!Lookup, Kept, Shown
  <1>7. SP!Abstract!Next => Abstract!Next
    BY <1>3, <1>4, <1>5, <1>6 DEF SP!Abstract!Next, Abstract!Next
  <1> QED BY <1>2, <1>7 DEF Shown

\* A step of TupleMerge.
LEMMA MergeMeans ==
  ASSUME method = "TupleMerge", method' = method, SM!Stored \subseteq Rules, [SM!Abstract!Next]_<<SM!Stored, answer>>
  PROVE  [Abstract!Next]_<<Kept, Shown>>
PROOF
  <1>1. Kept = SM!Stored /\ Kept' = SM!Stored' /\ Loaded["TupleMerge"] \subseteq Rules
    BY ComparisonAssumption DEF Kept, Methods, SM!Stored, Merge!Stored
  <1>2. CASE UNCHANGED <<SM!Stored, answer>>
    BY <1>1, <1>2 DEF Shown
  <1>3. ASSUME NEW r \in Loaded["TupleMerge"], SM!Abstract!Insert(r) PROVE Abstract!Next
    BY <1>1, <1>3 DEF SM!Abstract!Insert, Abstract!Next, Abstract!Insert, Kept, Shown
  <1>4. ASSUME NEW r \in Loaded["TupleMerge"], SM!Abstract!Delete(r) PROVE Abstract!Next
    BY <1>1, <1>4 DEF SM!Abstract!Delete, Abstract!Next, Abstract!Delete, Kept, Shown
  <1>5. ASSUME NEW r \in Loaded["TupleMerge"], SM!Abstract!Lose(r) PROVE Abstract!Next
    <2>1. \E lost \in SUBSET Kept : Kept' = Kept \ lost
      BY <1>1, <1>5 DEF SM!Abstract!Lose
    <2>2. r \notin Kept /\ Shown' = <<>> /\ r \in Rules
      BY <1>1, <1>5 DEF SM!Abstract!Lose, Shown
    <2>3. Abstract!Lose(r)
      BY <2>1, <2>2, ZenonT(60) DEF Abstract!Lose, Kept, Shown
    <2> QED BY <2>2, <2>3 DEF Abstract!Next
  <1>6. ASSUME NEW p \in Packets, SM!Abstract!Lookup(p) PROVE Abstract!Lookup(p)
    <2> DEFINE S == {r \in SM!Stored : Matches(r, p)}  x == Abstract!Best(S)
    <2>1. answer' = <<p, x>> /\ SM!Stored' = SM!Stored
      BY <1>6 DEF SM!Abstract!Lookup, SM!Abstract!Best, Abstract!Best, SM!Matches, Matches
    <2>2. x \in Nat
      <3>1. S \in SUBSET Rules
        OBVIOUS
      <3> HIDE DEF S
      <3> QED BY <3>1, BestNat
    <2>3. Abstract!Best({r \in Kept : Matches(r, p)}) = x
      BY <1>1
    <2> HIDE DEF x
    <2>4. Shown' = <<p, x>>
      BY <2>1, <2>2 DEF Shown
    <2> QED BY <1>1, <2>1, <2>3, <2>4 DEF Abstract!Lookup, Kept, Shown
  <1>7. SM!Abstract!Next => Abstract!Next
    BY <1>3, <1>4, <1>5, <1>6 DEF SM!Abstract!Next, Abstract!Next
  <1> QED BY <1>2, <1>7 DEF Shown

\* A step of PartitionSort.
LEMMA SortMeans ==
  ASSUME method = "PartitionSort", method' = method, SS!Stored \subseteq Rules, [SS!Abstract!Next]_<<SS!Stored, answer>>
  PROVE  [Abstract!Next]_<<Kept, Shown>>
PROOF
  <1>1. Kept = SS!Stored /\ Kept' = SS!Stored' /\ Loaded["PartitionSort"] \subseteq Rules
    BY ComparisonAssumption DEF Kept, Methods, SS!Stored, Sort!Stored, SS!RulesOf, Sort!RulesOf
  <1>2. CASE UNCHANGED <<SS!Stored, answer>>
    BY <1>1, <1>2 DEF Shown
  <1>3. ASSUME NEW r \in Loaded["PartitionSort"], SS!Abstract!Insert(r) PROVE Abstract!Next
    BY <1>1, <1>3 DEF SS!Abstract!Insert, Abstract!Next, Abstract!Insert, Kept, Shown
  <1>4. ASSUME NEW r \in Loaded["PartitionSort"], SS!Abstract!Delete(r) PROVE Abstract!Next
    BY <1>1, <1>4 DEF SS!Abstract!Delete, Abstract!Next, Abstract!Delete, Kept, Shown
  <1>5. ASSUME NEW r \in Loaded["PartitionSort"], SS!Abstract!Lose(r) PROVE Abstract!Next
    <2>1. \E lost \in SUBSET Kept : Kept' = Kept \ lost
      BY <1>1, <1>5 DEF SS!Abstract!Lose
    <2>2. r \notin Kept /\ Shown' = <<>> /\ r \in Rules
      BY <1>1, <1>5 DEF SS!Abstract!Lose, Shown
    <2>3. Abstract!Lose(r)
      BY <2>1, <2>2, ZenonT(60) DEF Abstract!Lose, Kept, Shown
    <2> QED BY <2>2, <2>3 DEF Abstract!Next
  <1>6. ASSUME NEW p \in Packets, SS!Abstract!Lookup(p) PROVE Abstract!Lookup(p)
    <2> DEFINE S == {r \in SS!Stored : Matches(r, p)}  x == Abstract!Best(S)
    <2>1. answer' = <<p, x>> /\ SS!Stored' = SS!Stored
      BY <1>6 DEF SS!Abstract!Lookup, SS!Abstract!Best, Abstract!Best, SS!Matches, Matches
    <2>2. x \in Nat
      <3>1. S \in SUBSET Rules
        OBVIOUS
      <3> HIDE DEF S
      <3> QED BY <3>1, BestNat
    <2>3. Abstract!Best({r \in Kept : Matches(r, p)}) = x
      BY <1>1
    <2> HIDE DEF x
    <2>4. Shown' = <<p, x>>
      BY <2>1, <2>2 DEF Shown
    <2> QED BY <1>1, <2>1, <2>3, <2>4 DEF Abstract!Lookup, Kept, Shown
  <1>7. SS!Abstract!Next => Abstract!Next
    BY <1>3, <1>4, <1>5, <1>6 DEF SS!Abstract!Next, Abstract!Next
  <1> QED BY <1>2, <1>7 DEF Shown

\* No rule and no answer at first.
LEMMA AbstractStart ==
  /\ method = "PSTSS" /\ SP!Abstract!Init => Abstract!Init
  /\ method = "TupleMerge" /\ SM!Abstract!Init => Abstract!Init
  /\ method = "PartitionSort" /\ SS!Abstract!Init => Abstract!Init
PROOF
  <1>1. method = "PSTSS" /\ SP!Abstract!Init => Abstract!Init
    BY DEF SP!Abstract!Init, Abstract!Init, SP!Stored, Space!Stored
  <1>2. method = "TupleMerge" /\ SM!Abstract!Init => Abstract!Init
    BY DEF SM!Abstract!Init, Abstract!Init, SM!Stored, Merge!Stored
  <1>3. method = "PartitionSort" /\ SS!Abstract!Init => Abstract!Init
    BY DEF SS!Abstract!Init, Abstract!Init, SS!Stored, Sort!Stored, SS!RulesOf, Sort!RulesOf
  <1> QED BY <1>1, <1>2, <1>3

\* Whichever method was asked for, the driver is a classifier, so it may compare the
\* methods' results (Simulation.cpp:108-125); of PartitionSort, for rules whose ranges the
\* cut to unsigned does not confuse.
THEOREM Classifies == Spec => ClassifierSpec
PROOF
  <1>1. Init => \/ method = "PSTSS" /\ SP!Init
                \/ method = "TupleMerge" /\ SM!Init
                \/ method = "PartitionSort" /\ SS!Init
    BY SpaceSame, MergeSame, SortSame DEF Init
  <1>2. method = "PSTSS" /\ [Next]_vars => (method = "PSTSS")' /\ method' = method /\ [SP!Next]_(SP!vars)
    BY SpaceSame DEF Next, vars, space, merge, SP!vars
  <1>3. method = "TupleMerge" /\ [Next]_vars => (method = "TupleMerge")' /\ method' = method /\ [SM!Next]_(SM!vars)
    BY MergeSame DEF Next, vars, space, merge, SM!vars
  <1>4. method = "PartitionSort" /\ [Next]_vars => (method = "PartitionSort")' /\ method' = method /\ [SS!Next]_(SS!vars)
    BY SortSame DEF Next, vars, sort, SS!vars
  <1>5. SP!Spec => SP!ClassifierSpec
    BY SpaceAssumptions, SP!Refinement
  <1>6. SM!Spec => SM!ClassifierSpec /\ [](SM!TypeOK /\ SM!TablesSound /\ SM!AssignmentExact)
    BY MergeAssumptions, SM!Refinement, SM!Sound
  <1>7. SS!Spec => SS!ClassifierSpec
    <2>1. SS!PrefixAssumption /\ SS!SortAssumption
      BY SortAssumptions
    <2>2. SS!PrefixAssumption
      BY <2>1
    <2>3. SS!SortAssumption => (SS!Spec => SS!ClassifierSpec)
      BY <2>2, SS!Refinement
    <2> QED BY <2>1, <2>3
  <1>8. method = "PSTSS" /\ method' = method /\ [SP!Abstract!Next]_<<SP!Stored, Shown>>
          => [Abstract!Next]_<<Kept, Shown>>
    BY SpaceMeans
  <1>9. method = "TupleMerge" /\ method' = method /\ SM!TypeOK /\ [SM!Abstract!Next]_<<SM!Stored, answer>>
          => [Abstract!Next]_<<Kept, Shown>>
    <2> SUFFICES ASSUME SM!TypeOK PROVE SM!Stored \subseteq Rules
      BY MergeMeans
    <2>1. Loaded["TupleMerge"] \subseteq Rules
      BY ComparisonAssumption DEF Methods
    <2> QED BY <2>1 DEF SM!TypeOK, SM!Stored, SM!Table
  <1>10. method = "PartitionSort" /\ method' = method /\ [SS!Abstract!Next]_<<SS!Stored, answer>>
          => [Abstract!Next]_<<Kept, Shown>>
    BY SortMeans, ComparisonAssumption DEF SS!Stored, SS!RulesOf, Methods
  <1> QED BY <1>1, <1>2, <1>3, <1>4, <1>5, <1>6, <1>7, <1>8, <1>9, <1>10, AbstractStart, PTL
        DEF Spec, SP!Spec, SM!Spec, SS!Spec, ClassifierSpec, Abstract!Spec, SP!ClassifierSpec,
            SP!Abstract!Spec, SM!ClassifierSpec, SM!Abstract!Spec, SS!ClassifierSpec, SS!Abstract!Spec,
            Kept, Shown
=============================================================================
