----------------------------- MODULE ListLemmas -----------------------------
(***************************************************************************)
(* Facts about lists that name each element of a set once, which is what   *)
(* the arrays of tuples of the classifiers are, and about the best of a    *)
(* set of rules.  No constant and no variable: the modules of the          *)
(* classifiers' proofs share them.                                         *)
(***************************************************************************)
EXTENDS Integers, Sequences, FiniteSetTheorems, SequenceTheorems, TLAPS

\* arr lists the elements of D, each once
Lists(arr, D) ==
  /\ arr \in Seq(D)
  /\ \A d \in D : \E i \in DOMAIN arr : arr[i] = d
  /\ \A i, j \in DOMAIN arr : arr[i] = arr[j] => i = j

\* A list has as many entries as its set has elements.
LEMMA ListsCount ==
  ASSUME NEW D, NEW arr, Lists(arr, D)
  PROVE  /\ Len(arr) \in Nat /\ DOMAIN arr = 1 .. Len(arr)
         /\ IsFiniteSet(D) /\ Cardinality(D) = Len(arr)
         /\ {arr[i] : i \in DOMAIN arr} = D
PROOF
  <1>1. Len(arr) \in Nat /\ DOMAIN arr = 1 .. Len(arr) /\ arr \in [1 .. Len(arr) -> D]
    BY DEF Lists
  <1>2. arr \in Bijection(1 .. Len(arr), D)
    BY <1>1 DEF Lists, Bijection, Injection, Surjection, IsInjective
  <1>3. ExistsBijection(1 .. Len(arr), D)
    BY <1>2 DEF ExistsBijection
  <1>4. Cardinality(D) = Len(arr) /\ IsFiniteSet(D)
    BY <1>1, <1>3, FS_CountingElements, FS_NatBijection
  <1>5. {arr[i] : i \in DOMAIN arr} = D
    BY <1>1 DEF Lists
  <1> QED BY <1>1, <1>4, <1>5

\* The other way round: as many entries as elements, and no entry twice.
LEMMA CountLists ==
  ASSUME NEW D, NEW arr \in Seq(D), IsFiniteSet(D), Cardinality(D) = Len(arr),
         {arr[i] : i \in DOMAIN arr} = D
  PROVE  Lists(arr, D)
PROOF
  <1>1. Len(arr) \in Nat /\ DOMAIN arr = 1 .. Len(arr) /\ arr \in [1 .. Len(arr) -> D]
    OBVIOUS
  <1>2. \A d \in D : \E i \in DOMAIN arr : arr[i] = d
    OBVIOUS
  <1>3. arr \in Surjection(1 .. Len(arr), D)
    BY <1>1, <1>2 DEF Surjection
  <1>4. IsFiniteSet(1 .. Len(arr)) /\ Cardinality(1 .. Len(arr)) = Len(arr)
    BY <1>1, FS_Interval
  <1>5. arr \in Injection(1 .. Len(arr), D)
    BY <1>3, <1>4, FS_Surjection
  <1>6. \A i, j \in DOMAIN arr : arr[i] = arr[j] => i = j
    BY <1>1, <1>5 DEF Injection, IsInjective
  <1> QED BY <1>2, <1>6 DEF Lists

LEMMA EmptyLists == Lists(<<>>, {})
BY DEF Lists

\* A permutation of a finite set, given as a map onto it, names nothing twice.
LEMMA OntoItself ==
  ASSUME NEW n \in Nat, NEW f \in [1 .. n -> 1 .. n],
         \A j \in 1 .. n : \E i \in 1 .. n : f[i] = j
  PROVE  \A i, j \in 1 .. n : f[i] = f[j] => i = j
PROOF
  <1>1. f \in Surjection(1 .. n, 1 .. n)
    BY DEF Surjection
  <1>2. IsFiniteSet(1 .. n) /\ Cardinality(1 .. n) = n
    BY FS_Interval
  <1>3. f \in Injection(1 .. n, 1 .. n)
    BY <1>1, <1>2, FS_Surjection
  <1> QED BY <1>3 DEF Injection, IsInjective

\* s goes through arr in the order f
InOrder(s, arr, f) ==
  /\ f \in [DOMAIN arr -> DOMAIN arr] /\ \A j \in DOMAIN arr : \E i \in DOMAIN arr : f[i] = j
  /\ s = [i \in DOMAIN arr |-> arr[f[i]]]

\* Any order of a list lists the same set.
LEMMA PermutedLists ==
  ASSUME NEW D, NEW arr, Lists(arr, D), NEW s, NEW f, InOrder(s, arr, f)
  PROVE  Lists(s, D) /\ Len(s) = Len(arr) /\ DOMAIN s = DOMAIN arr
PROOF
  <1>0. /\ f \in [DOMAIN arr -> DOMAIN arr] /\ \A j \in DOMAIN arr : \E i \in DOMAIN arr : f[i] = j
        /\ s = [i \in DOMAIN arr |-> arr[f[i]]]
    BY DEF InOrder
  <1>1. Len(arr) \in Nat /\ DOMAIN arr = 1 .. Len(arr) /\ arr \in [1 .. Len(arr) -> D]
    BY DEF Lists
  <1>2. s \in [1 .. Len(arr) -> D]
    BY <1>0, <1>1
  <1>3. s \in Seq(D) /\ Len(s) = Len(arr) /\ DOMAIN s = 1 .. Len(arr)
    BY <1>1, <1>2
  <1>4. \A i, j \in 1 .. Len(arr) : f[i] = f[j] => i = j
    BY <1>0, <1>1, OntoItself
  <1>5. ASSUME NEW i \in DOMAIN s, NEW j \in DOMAIN s, s[i] = s[j] PROVE i = j
    <2>1. i \in DOMAIN arr /\ j \in DOMAIN arr /\ arr[f[i]] = arr[f[j]]
      BY <1>0, <1>1, <1>3, <1>5
    <2>2. f[i] \in DOMAIN arr /\ f[j] \in DOMAIN arr
      BY <1>0, <2>1
    <2>3. f[i] = f[j]
      BY <2>1, <2>2 DEF Lists
    <2> QED BY <1>1, <1>4, <2>1, <2>3
  <1>6. ASSUME NEW d \in D PROVE \E i \in DOMAIN s : s[i] = d
    <2>1. PICK j \in DOMAIN arr : arr[j] = d
      BY DEF Lists
    <2>2. PICK i \in DOMAIN arr : f[i] = j
      BY <1>0
    <2> QED BY <1>0, <1>1, <1>3, <2>1, <2>2
  <1> QED BY <1>1, <1>3, <1>5, <1>6 DEF Lists

LEMMA AppendLists ==
  ASSUME NEW D, NEW arr, Lists(arr, D), NEW k, k \notin D
  PROVE  LET s == Append(arr, k) IN
         /\ Lists(s, D \cup {k}) /\ Len(s) = Len(arr) + 1
         /\ DOMAIN s = 1 .. Len(arr) + 1 /\ s[Len(arr) + 1] = k
         /\ \A i \in DOMAIN arr : s[i] = arr[i]
PROOF
  <1> DEFINE s == Append(arr, k)
  <1>1. Len(arr) \in Nat /\ DOMAIN arr = 1 .. Len(arr) /\ arr \in Seq(D \cup {k})
        /\ \A i \in DOMAIN arr : arr[i] \in D
    BY DEF Lists
  <1>2. /\ s \in Seq(D \cup {k}) /\ Len(s) = Len(arr) + 1 /\ DOMAIN s = 1 .. Len(arr) + 1
        /\ s[Len(arr) + 1] = k /\ \A i \in DOMAIN arr : s[i] = arr[i]
    BY <1>1, AppendProperties
  <1> HIDE DEF s
  <1>3. \A i \in DOMAIN s : i \in DOMAIN arr \/ i = Len(arr) + 1
    BY <1>1, <1>2
  <1>4. ASSUME NEW d \in D \cup {k} PROVE \E i \in DOMAIN s : s[i] = d
    <2>1. CASE d = k
      BY <1>1, <1>2, <2>1
    <2>2. CASE d \in D
      <3>1. PICK i \in DOMAIN arr : arr[i] = d
        BY <2>2 DEF Lists
      <3> QED BY <1>1, <1>2, <3>1
    <2> QED BY <2>1, <2>2
  <1>5. ASSUME NEW i \in DOMAIN s, NEW j \in DOMAIN s, s[i] = s[j] PROVE i = j
    <2>1. CASE i \in DOMAIN arr /\ j \in DOMAIN arr
      BY <1>2, <1>5, <2>1 DEF Lists
    <2>2. CASE i \in DOMAIN arr /\ j = Len(arr) + 1
      BY <1>1, <1>2, <1>5, <2>2
    <2>3. CASE i = Len(arr) + 1 /\ j \in DOMAIN arr
      BY <1>1, <1>2, <1>5, <2>3
    <2> QED BY <1>3, <2>1, <2>2, <2>3
  <1>6. Lists(s, D \cup {k})
    BY <1>2, <1>4, <1>5 DEF Lists
  <1> QED BY <1>2, <1>6 DEF s

\* What is left of a list without its last entry.
LEMMA FrontLists ==
  ASSUME NEW D, NEW arr, Lists(arr, D), D # {}
  PROVE  LET s == SubSeq(arr, 1, Len(arr) - 1) IN
         /\ Len(arr) \in DOMAIN arr /\ Lists(s, D \ {arr[Len(arr)]})
         /\ Len(s) = Len(arr) - 1 /\ DOMAIN s = 1 .. Len(arr) - 1
         /\ \A i \in DOMAIN s : i \in DOMAIN arr /\ s[i] = arr[i]
PROOF
  <1> DEFINE s == SubSeq(arr, 1, Len(arr) - 1)
             k == arr[Len(arr)]
  <1>1. Len(arr) \in Nat /\ DOMAIN arr = 1 .. Len(arr) /\ arr \in Seq(D)
        /\ \A i \in DOMAIN arr : arr[i] \in D
    BY DEF Lists
  <1>2. Len(arr) \in DOMAIN arr
    <2>1. PICK i \in DOMAIN arr : TRUE
      BY DEF Lists
    <2> QED BY <1>1, <2>1
  <1>3. /\ s \in Seq(D) /\ Len(s) = Len(arr) - 1 /\ DOMAIN s = 1 .. Len(arr) - 1
        /\ \A i \in 1 .. Len(arr) - 1 : s[i] = arr[i]
    <2>1. 1 \in 1 .. Len(arr) + 1 /\ Len(arr) - 1 \in 1 - 1 .. Len(arr)
      BY <1>1, <1>2
    <2> QED BY <1>1, <1>2, <2>1, SubSeqProperties
  <1> HIDE DEF s
  <1>4. \A i \in DOMAIN s : i \in DOMAIN arr /\ s[i] = arr[i] /\ i # Len(arr)
    BY <1>1, <1>3
  <1>5. \A i \in DOMAIN s : s[i] \in D \ {k}
    BY <1>1, <1>2, <1>4 DEF Lists
  <1>6. s \in Seq(D \ {k})
    BY <1>3, <1>5
  <1>7. ASSUME NEW d \in D \ {k} PROVE \E i \in DOMAIN s : s[i] = d
    <2>1. PICK i \in DOMAIN arr : arr[i] = d
      BY DEF Lists
    <2>2. i \in DOMAIN s
      BY <1>1, <1>3, <2>1
    <2> QED BY <1>4, <2>1, <2>2
  <1>8. \A i, j \in DOMAIN s : s[i] = s[j] => i = j
    BY <1>4 DEF Lists
  <1>9. Lists(s, D \ {k})
    BY <1>6, <1>7, <1>8 DEF Lists
  <1> QED BY <1>2, <1>3, <1>4, <1>9 DEF s

\* What is left of a list without its entry n.
LEMMA EraseLists ==
  ASSUME NEW D, NEW arr, Lists(arr, D), NEW n \in DOMAIN arr,
         NEW s, s = [i \in 1 .. Len(arr) - 1 |-> IF i < n THEN arr[i] ELSE arr[i + 1]]
  PROVE  Lists(s, D \ {arr[n]})
PROOF
  <1>1. Len(arr) \in Nat /\ DOMAIN arr = 1 .. Len(arr) /\ \A i \in DOMAIN arr : arr[i] \in D
    BY DEF Lists
  <1>2. n \in 1 .. Len(arr) /\ Len(arr) - 1 \in Nat
    BY <1>1
  <1>3. DOMAIN s = 1 .. Len(arr) - 1
    OBVIOUS
  <1>4. ASSUME NEW i \in DOMAIN s
        PROVE  \E j \in DOMAIN arr : j # n /\ s[i] = arr[j] /\ j = IF i < n THEN i ELSE i + 1
    <2>1. CASE i < n
      BY <1>1, <1>2, <1>3, <2>1
    <2>2. CASE ~(i < n)
      BY <1>1, <1>2, <1>3, <2>2
    <2> QED BY <2>1, <2>2
  <1>5. \A i \in DOMAIN s : s[i] \in D \ {arr[n]}
    BY <1>1, <1>4 DEF Lists
  <1>6. s \in Seq(D \ {arr[n]})
    BY <1>2, <1>3, <1>5
  <1>7. ASSUME NEW d \in D \ {arr[n]} PROVE \E i \in DOMAIN s : s[i] = d
    <2>1. PICK j \in DOMAIN arr : arr[j] = d
      BY DEF Lists
    <2>2. CASE j < n
      BY <1>1, <1>2, <1>3, <2>1, <2>2
    <2>3. CASE j > n
      <3>1. j - 1 \in DOMAIN s /\ s[j - 1] = arr[j]
        BY <1>1, <1>2, <1>3, <2>3
      <3> QED BY <2>1, <3>1
    <2> QED BY <1>1, <1>2, <2>1, <2>2, <2>3
  <1>8. ASSUME NEW i \in DOMAIN s, NEW j \in DOMAIN s, s[i] = s[j] PROVE i = j
    <2>1. PICK k \in DOMAIN arr : s[i] = arr[k] /\ k = IF i < n THEN i ELSE i + 1
      BY <1>4
    <2>2. PICK l \in DOMAIN arr : s[j] = arr[l] /\ l = IF j < n THEN j ELSE j + 1
      BY <1>4
    <2>3. k = l
      BY <1>8, <2>1, <2>2 DEF Lists
    <2> QED BY <1>2, <1>3, <2>1, <2>2, <2>3
  <1> QED BY <1>6, <1>7, <1>8 DEF Lists

----------------------------------------------------------------------------
(***************************************************************************)
(* The best of a finite set of rules.                                      *)
(***************************************************************************)

\* Some rule of a finite set is best: take it from a smallest subset that has none.
LEMMA SomeBest ==
  ASSUME NEW S, IsFiniteSet(S), S # {}, NEW Val, \A r \in S : Val[r] \in Int
  PROVE  \E m \in S : \A r \in S : Val[r] <= Val[m]
PROOF
  <1> DEFINE HasBest(T) == \E m \in T : \A r \in T : Val[r] <= Val[m]
             Bad == {T \in FiniteSubsetsOf(S) : T # {} /\ ~HasBest(T)}
  <1> SUFFICES ASSUME ~HasBest(S) PROVE FALSE
    OBVIOUS
  <1>1. \A T \in SUBSET S : IsFiniteSet(T)
    BY FS_Subset
  <1>2. S \in Bad
    BY <1>1 DEF FiniteSubsetsOf
  <1> HIDE DEF Bad
  <1>3. PICK T \in Bad : \A U \in Bad : <<U, T>> \notin StrictSubsetOrdering(S)
    <2>1. Bad \subseteq FiniteSubsetsOf(S)
      BY DEF Bad
    <2>2. IsWellFoundedOn(StrictSubsetOrdering(S), FiniteSubsetsOf(S))
      BY FS_StrictSubsetOrderingWellFounded
    <2> HIDE DEF IsWellFoundedOn, StrictSubsetOrdering, FiniteSubsetsOf
    <2> QED BY <1>2, <2>1, <2>2, WFMin
  <1>4. T \subseteq S /\ T # {} /\ ~HasBest(T)
    BY <1>3 DEF Bad, FiniteSubsetsOf
  <1>5. PICK x \in T : TRUE
    BY <1>4
  <1> DEFINE U == T \ {x}
  <1>6. HasBest(U)
    <2>1. U # {}
      BY <1>4, <1>5
    <2>2. U \in SUBSET S /\ IsFiniteSet(U) /\ U \subseteq T /\ U # T
      BY <1>1, <1>4, <1>5
    <2>3. <<U, T>> \in StrictSubsetOrdering(S)
      BY <1>4, <2>2 DEF StrictSubsetOrdering
    <2>4. U \notin Bad
      BY <1>3, <2>3
    <2> QED BY <2>1, <2>2, <2>4 DEF Bad, FiniteSubsetsOf
  <1>7. PICK m \in U : \A r \in U : Val[r] <= Val[m]
    BY <1>6
  <1> QED BY <1>4, <1>5, <1>7

\* Some index of a set is the least.
LEMMA LeastIndex ==
  ASSUME NEW n \in Nat, NEW S \in SUBSET (1 .. n), S # {}
  PROVE  \E i \in S : \A j \in S : i <= j
PROOF
  <1> DEFINE Val == [i \in S |-> -i]
  <1>1. IsFiniteSet(S)
    <2>1. IsFiniteSet(1 .. n)
      BY FS_Interval
    <2> QED BY <2>1, FS_Subset
  <1>2. \A i \in S : Val[i] \in Int /\ Val[i] = -i /\ i \in Int
    <2>1. \A i \in S : i \in 1 .. n
      OBVIOUS
    <2>2. \A i \in S : i \in Int /\ -i \in Int
      BY <2>1
    <2>3. \A i \in S : Val[i] = -i
      OBVIOUS
    <2> HIDE DEF Val
    <2> QED BY <2>2, <2>3
  <1> HIDE DEF Val
  <1>3. PICK m \in S : \A i \in S : Val[i] <= Val[m]
    BY <1>1, <1>2, SomeBest
  <1>4. \A i \in S : m <= i
    BY <1>2, <1>3
  <1> QED BY <1>4
=============================================================================
