------------------------ MODULE PartitionSort_proofs ------------------------
(***************************************************************************)
(* PartitionSort keeps each of its interval trees the path compression of  *)
(* rules that are comparable in the tree's order of the fields, through    *)
(* the splits of an insert and the collapses of a delete, answers lookups  *)
(* with the best match, and implements the classifier of module            *)
(* Classifier, for all rules and fields.                                   *)
(*                                                                         *)
(* The keys come first, then what a tree of a set of rules is (IsTree);    *)
(* that RBTreeInsert and RBTreeDelete lead from the tree of a set to the   *)
(* tree of the set with one rule more or less; that RBTreeCanInsert keeps  *)
(* the rules comparable, and why RBExactQuery then finds one end at most;  *)
(* and last the trees, the vector and the lookup of the classifier.        *)
(***************************************************************************)
EXTENDS PartitionSort, ListLemmas

-----------------------------------------------------------------------------
(***************************************************************************)
(* Keys and the paths along them.                                          *)
(***************************************************************************)

F == Cardinality(Fields)
Box == Nat \X Nat
Keys == [1 .. F -> Box]
Orders == {o \in [1 .. F -> Fields] : \A i, j \in 1 .. F : o[i] = o[j] => i = j}

\* what the proofs need of the constants
LEMMA RuleFacts ==
  ASSUME SortAssumption
  PROVE  /\ F \in Nat \ {0} /\ IsFiniteSet(Rules)
         /\ \A r \in Rules : Prio[r] \in Nat \ {0}
         /\ \A r, q \in Rules : Prio[r] = Prio[q] => r = q
         /\ \A r \in Rules, f \in Fields :
              Lo[r][f] \in Nat /\ Hi[r][f] \in Nat /\ Lo[r][f] <= Hi[r][f]
PROOF
  <1>1. F \in Nat \ {0}
    <2>1. Cardinality(Fields) \in Nat /\ Fields # {}
      BY PrefixAssumption, FS_CardinalityType DEF SortAssumption
    <2>2. Cardinality(Fields) # 0
      BY <2>1, FS_EmptySet DEF SortAssumption
    <2> QED BY <2>1, <2>2 DEF F
  <1>2. ASSUME NEW r \in Rules, NEW f \in Fields
        PROVE  Lo[r][f] \in Nat /\ Hi[r][f] \in Nat /\ Lo[r][f] <= Hi[r][f]
    BY PrefixAssumption DEF SortAssumption
  <1> QED BY <1>1, <1>2 DEF SortAssumption

\* The key of a rule has a box for each field.
LEMMA KeyType ==
  ASSUME SortAssumption, NEW o \in Orders, NEW r \in Rules
  PROVE  KeyOf(r, o) \in Keys
PROOF
  <1>1. o \in [1 .. F -> Fields]
    BY DEF Orders
  <1>2. \A i \in 1 .. F : <<Lo[r][o[i]], Hi[r][o[i]]>> \in Box
    BY <1>1, RuleFacts DEF Box
  <1> QED BY <1>1, <1>2 DEF KeyOf, Keys

\* A key as a sequence of boxes.
LEMMA KeyLen ==
  ASSUME SortAssumption, NEW k \in Keys
  PROVE  k \in Seq(Box) /\ Len(k) = F /\ DOMAIN k = 1 .. F
BY RuleFacts DEF Keys

\* the beginnings of a key
LEMMA UptoType ==
  ASSUME NEW k \in Seq(Box), NEW i \in 0 .. Len(k)
  PROVE  /\ Upto(k, i) \in Seq(Box) /\ Len(Upto(k, i)) = i /\ DOMAIN Upto(k, i) = 1 .. i
         /\ \A j \in 1 .. i : Upto(k, i)[j] = k[j]
         /\ Upto(k, i) = <<>> <=> i = 0
         /\ \A j \in 0 .. i : Upto(Upto(k, i), j) = Upto(k, j)
         /\ Upto(k, Len(k)) = k
PROOF
  <1> DEFINE u == Upto(k, i)
  <1>1. i \in Nat /\ \A j \in 1 .. i : k[j] \in Box
    OBVIOUS
  <1>2. u = [j \in 1 .. i |-> k[j]]
    BY DEF Upto
  <1>3. u \in Seq(Box) /\ Len(u) = i
    BY <1>1, <1>2
  <1>4. ASSUME NEW j \in 0 .. i PROVE Upto(u, j) = Upto(k, j)
    <2>1. \A n \in 1 .. j : u[n] = k[n]
      BY <1>1, <1>2
    <2> QED BY <2>1 DEF Upto
  <1>5. Upto(k, Len(k)) = k
    BY DEF Upto
  <1>6. u = <<>> <=> i = 0
    BY <1>3
  <1> QED BY <1>1, <1>2, <1>3, <1>4, <1>5, <1>6

\* What lies on the way of a key are its beginnings.
LEMMA OnWayIs ==
  ASSUME NEW k \in Seq(Box), NEW q \in Seq(Box)
  PROVE  /\ OnWay(q, k) <=> \E i \in 0 .. Len(k) : q = Upto(k, i)
         /\ OnWay(q, k) => /\ Len(q) \in 0 .. Len(k) /\ q = Upto(k, Len(q))
                           /\ \A j \in 0 .. Len(q) : OnWay(Upto(q, j), k)
PROOF
  <1>1. Len(q) \in Nat /\ Len(k) \in Nat
    OBVIOUS
  <1>2. ASSUME NEW i \in 0 .. Len(k), q = Upto(k, i) PROVE OnWay(q, k)
    <2>1. Len(q) = i
      BY <1>2, UptoType
    <2> QED BY <1>2, <2>1 DEF OnWay
  <1>3. ASSUME OnWay(q, k)
        PROVE  /\ Len(q) \in 0 .. Len(k) /\ q = Upto(k, Len(q))
               /\ \A j \in 0 .. Len(q) : OnWay(Upto(q, j), k)
    <2>1. Len(q) \in 0 .. Len(k) /\ q = Upto(k, Len(q))
      BY <1>1, <1>3 DEF OnWay
    <2>2. ASSUME NEW j \in 0 .. Len(q) PROVE OnWay(Upto(q, j), k)
      <3>1. Upto(q, j) = Upto(k, j) /\ j \in 0 .. Len(k) /\ Len(Upto(k, j)) = j
        BY <2>1, UptoType
      <3> QED BY <3>1 DEF OnWay
    <2> QED BY <2>1, <2>2
  <1> QED BY <1>2, <1>3

\* Two keys that agree up to i agree up to every j before.
LEMMA UptoSame ==
  ASSUME NEW k \in Seq(Box), NEW m \in Seq(Box), Len(k) = Len(m), NEW i \in 0 .. Len(k)
  PROVE  /\ OnWay(Upto(k, i), m) <=> Upto(m, i) = Upto(k, i)
         /\ Upto(m, i) = Upto(k, i) <=> \A j \in 1 .. i : m[j] = k[j]
         /\ Upto(m, i) = Upto(k, i) => \A j \in 0 .. i : Upto(m, j) = Upto(k, j)
PROOF
  <1>1. Len(Upto(k, i)) = i /\ Len(k) \in Nat /\ i \in Nat
    BY UptoType
  <1>2. OnWay(Upto(k, i), m) <=> Upto(m, i) = Upto(k, i)
    BY <1>1 DEF OnWay
  <1>3. Upto(m, i) = Upto(k, i) <=> \A j \in 1 .. i : m[j] = k[j]
    <2>1. /\ \A j \in 1 .. i : Upto(k, i)[j] = k[j] /\ Upto(m, i)[j] = m[j]
      BY UptoType
    <2>2. ASSUME \A j \in 1 .. i : m[j] = k[j] PROVE Upto(m, i) = Upto(k, i)
      BY <2>2 DEF Upto
    <2> QED BY <2>1, <2>2
  <1>4. ASSUME Upto(m, i) = Upto(k, i), NEW j \in 0 .. i PROVE Upto(m, j) = Upto(k, j)
    BY <1>4, UptoType
  <1> QED BY <1>2, <1>3, <1>4

\* Where two keys part.
LEMMA AgreementIs ==
  ASSUME NEW u \in Seq(Box), NEW v \in Seq(Box), Len(u) = Len(v)
  PROVE  LET n == Agreement(u, v) IN
         /\ n \in 0 .. Len(u) /\ Upto(u, n) = Upto(v, n)
         /\ n < Len(u) => u[n + 1] # v[n + 1]
PROOF
  <1> DEFINE Parts == {i \in 1 .. Len(u) : u[i] # v[i]}
             Good(n) == /\ Upto(u, n) = Upto(v, n)
                        /\ n < Len(u) => u[n + 1] # v[n + 1]
  <1>1. \E n \in 0 .. Len(u) : Good(n)
    <2>1. CASE Parts = {}
      <3>1. Upto(u, Len(u)) = Upto(v, Len(u))
        BY <2>1, UptoSame
      <3>2. Len(u) \in 0 .. Len(u) /\ ~(Len(u) < Len(u))
        OBVIOUS
      <3>3. Good(Len(u))
        BY <3>1, <3>2
      <3> HIDE DEF Good
      <3> QED BY <3>2, <3>3
    <2>2. CASE Parts # {}
      <3>1. PICK i \in Parts : \A j \in Parts : i <= j
        <4>1. Len(u) \in Nat /\ Parts \in SUBSET (1 .. Len(u))
          OBVIOUS
        <4> HIDE DEF Parts
        <4> QED BY <2>2, <4>1, LeastIndex
      <3>2. i - 1 \in 0 .. Len(u) /\ \A j \in 1 .. i - 1 : u[j] = v[j]
        BY <3>1
      <3>3. Upto(u, i - 1) = Upto(v, i - 1)
        BY <3>2, UptoSame
      <3> QED BY <3>1, <3>2, <3>3
    <2> QED BY <2>1, <2>2
  <1>2. Agreement(u, v) = CHOOSE n \in 0 .. Len(u) : Good(n)
    BY DEF Agreement
  <1> HIDE DEF Good
  <1>3. Agreement(u, v) \in 0 .. Len(u) /\ Good(Agreement(u, v))
    BY <1>1, <1>2
  <1> QED BY <1>3 DEF Good

-----------------------------------------------------------------------------
(***************************************************************************)
(* The tree of a set of rules.                                             *)
(***************************************************************************)

Some(A) == A # {}
Only(A, x) == A = {x}
Pair(A, x, y) == A = {x, y}
Many(A) == \E x, y \in A : x # y

\* Small cardinalities.
LEMMA Counts ==
  ASSUME NEW A, IsFiniteSet(A)
  PROVE  /\ Cardinality(A) \in Nat
         /\ Cardinality(A) = 0 <=> A = {}
         /\ Cardinality(A) = 1 <=> \E x : A = {x}
         /\ Cardinality(A) > 1 <=> Many(A)
         /\ \A x : x \notin A => Cardinality(A \cup {x}) = Cardinality(A) + 1
         /\ \A x : x \in A => Cardinality(A \ {x}) = Cardinality(A) - 1
PROOF
  <1>1. Cardinality(A) \in Nat /\ (Cardinality(A) = 0 <=> A = {})
    BY FS_CardinalityType, FS_EmptySet
  <1>2. Cardinality(A) = 1 <=> \E x : A = {x}
    BY FS_Singleton
  <1>3. \A x : x \notin A => Cardinality(A \cup {x}) = Cardinality(A) + 1
    BY FS_AddElement
  <1>4. \A x : x \in A => Cardinality(A \ {x}) = Cardinality(A) - 1
    BY FS_RemoveElement
  <1>5. Many(A) <=> A # {} /\ ~\E x : A = {x}
    <2>1. ASSUME A # {}, ~Many(A) PROVE \E x : A = {x}
      <3>1. PICK x : x \in A
        BY <2>1
      <3>2. A = {x}
        BY <2>1, <3>1 DEF Many
      <3> QED BY <3>2
    <2> QED BY <2>1 DEF Many
  <1>6. Cardinality(A) > 1 <=> Many(A)
    <2>1. Many(A) <=> Cardinality(A) # 0 /\ Cardinality(A) # 1
      BY <1>1, <1>2, <1>5
    <2> HIDE DEF Many
    <2> QED BY <1>1, <2>1
  <1> HIDE DEF Many
  <1> QED BY <1>1, <1>2, <1>3, <1>4, <1>6

\* the rules of S on whose way path q is
AlongIn(S, o, q) == {r \in S : OnWay(q, KeyOf(r, o))}

\* There is a tree for each path along which two rules go, and for the first step
\* that one goes alone.
Paths(S, o) ==
  {q \in Seq(Box) : \/ q = <<>>
                    \/ AlongIn(S, o, q) # {} /\ Many(AlongIn(S, o, Upto(q, Len(q) - 1)))}

TreeType == [count : Nat, chain_boxes : Seq(Box), priority_list : SUBSET Nat]

\* The fields of a node.
LEMMA TreeIs ==
  ASSUME NEW n \in Nat, NEW c \in Seq(Box), NEW P \in SUBSET Nat, NEW T, T = Tree(n, c, P)
  PROVE  T \in TreeType /\ T.count = n /\ T.chain_boxes = c /\ T.priority_list = P
BY DEF Tree, TreeType

\* The best priority of a node that has one rule.
LEMMA MaxPriority ==
  ASSUME NEW T, NEW p \in Nat, T.priority_list = {p}
  PROVE  GetMaxPriority(T) = p
PROOF
  <1> DEFINE Best(m) == \A n \in {p} : n <= m
  <1>1. \E m \in {p} : Best(m)
    OBVIOUS
  <1>2. GetMaxPriority(T) = CHOOSE m \in {p} : Best(m)
    BY DEF GetMaxPriority
  <1> HIDE DEF Best
  <1> QED BY <1>1, <1>2

\* T is right for path q, along which the rules of W go
Holds(T, W, o, q) ==
  /\ T \in TreeType /\ T.count = Cardinality(W)
  /\ \A r : W = {r} => T.chain_boxes = Rest(KeyOf(r, o), Len(q))
  /\ Many(W) => T.chain_boxes = <<>>
  /\ ~Many(W) \/ Len(q) = F => T.priority_list = {Prio[r] : r \in W}

IsTree(t, S, o) ==
  DOMAIN t = Paths(S, o) /\ \A q \in DOMAIN t : Holds(t[q], AlongIn(S, o, q), o, q)

\* The rules along a path.
LEMMA AlongFinite ==
  ASSUME SortAssumption, NEW S, S \subseteq Rules, NEW o, NEW q
  PROVE  IsFiniteSet(AlongIn(S, o, q)) /\ AlongIn(S, o, q) \subseteq S
BY RuleFacts, FS_Subset DEF AlongIn

\* Along the beginnings of a path go at least the rules that go along it.
LEMMA AlongShorter ==
  ASSUME SortAssumption, NEW S, S \subseteq Rules, NEW o \in Orders,
         NEW q \in Seq(Box), NEW j \in 0 .. Len(q)
  PROVE  AlongIn(S, o, q) \subseteq AlongIn(S, o, Upto(q, j))
PROOF
  <1> SUFFICES ASSUME NEW r \in S, OnWay(q, KeyOf(r, o)) PROVE OnWay(Upto(q, j), KeyOf(r, o))
    BY DEF AlongIn
  <1>1. KeyOf(r, o) \in Seq(Box)
    BY KeyType, KeyLen
  <1> QED BY <1>1, OnWayIs

\* Who goes along the way of a rule.
LEMMA AlongWay ==
  ASSUME SortAssumption, NEW S, S \subseteq Rules, NEW o \in Orders, NEW r \in Rules,
         NEW i \in 0 .. F
  PROVE  LET q == Upto(KeyOf(r, o), i) IN
         /\ q \in Seq(Box) /\ Len(q) = i /\ OnWay(q, KeyOf(r, o)) /\ (q = <<>> <=> i = 0)
         /\ AlongIn(S, o, q) = {s \in S : Upto(KeyOf(s, o), i) = q}
         /\ \A j \in 0 .. i : Upto(q, j) = Upto(KeyOf(r, o), j)
PROOF
  <1> DEFINE k == KeyOf(r, o)
  <1>1. k \in Seq(Box) /\ Len(k) = F
    BY KeyType, KeyLen
  <1>2. ASSUME NEW s \in S PROVE OnWay(Upto(k, i), KeyOf(s, o)) <=> Upto(KeyOf(s, o), i) = Upto(k, i)
    <2>1. KeyOf(s, o) \in Seq(Box) /\ Len(KeyOf(s, o)) = F
      BY KeyType, KeyLen
    <2> QED BY <1>1, <2>1, UptoSame
  <1>3. /\ Upto(k, i) \in Seq(Box) /\ Len(Upto(k, i)) = i /\ (Upto(k, i) = <<>> <=> i = 0)
        /\ \A j \in 0 .. i : Upto(Upto(k, i), j) = Upto(k, j)
    BY <1>1, UptoType
  <1>4. OnWay(Upto(k, i), k)
    BY <1>1, <1>3, OnWayIs
  <1> QED BY <1>2, <1>3, <1>4 DEF AlongIn

\* What a tree of a set of rules says of its counts.
LEMMA CountTells ==
  ASSUME SortAssumption, NEW S, S \subseteq Rules, NEW o \in Orders, NEW t, IsTree(t, S, o),
         NEW q \in DOMAIN t
  PROVE  LET W == AlongIn(S, o, q) IN
         /\ q \in Paths(S, o) /\ q \in Seq(Box) /\ Holds(t[q], W, o, q)
         /\ t[q].count \in Nat
         /\ t[q].count = 0 <=> ~Some(W)
         /\ t[q].count = 1 <=> \E s \in S : Only(W, s)
         /\ t[q].count > 1 <=> Many(W)
PROOF
  <1>1. q \in Paths(S, o) /\ q \in Seq(Box) /\ Holds(t[q], AlongIn(S, o, q), o, q)
    BY DEF IsTree, Paths
  <1>2. t[q].count = Cardinality(AlongIn(S, o, q))
    BY <1>1 DEF Holds
  <1>3. IsFiniteSet(AlongIn(S, o, q)) /\ AlongIn(S, o, q) \subseteq S
    BY AlongFinite
  <1>4. \A x : AlongIn(S, o, q) = {x} => x \in S
    BY <1>3
  <1> DEFINE W == AlongIn(S, o, q)
  <1>5. /\ Cardinality(W) \in Nat /\ (Cardinality(W) = 0 <=> W = {})
        /\ (Cardinality(W) = 1 <=> \E x : W = {x}) /\ (Cardinality(W) > 1 <=> Many(W))
    BY <1>3, Counts
  <1>6. Cardinality(W) = 1 <=> \E x \in S : Only(W, x)
    BY <1>4, <1>5 DEF Only
  <1>7. Cardinality(W) = 0 <=> ~Some(W)
    BY <1>5 DEF Some
  <1> HIDE DEF W
  <1> QED BY <1>1, <1>2, <1>5, <1>6, <1>7 DEF W

\* No node but the root is without rules.
LEMMA AlongSome ==
  ASSUME NEW S, NEW o, NEW t, IsTree(t, S, o), NEW q \in DOMAIN t, q # <<>>
  PROVE  AlongIn(S, o, q) # {}
BY DEF IsTree, Paths

\* A node's parent has several rules.
LEMMA AlongSeveral ==
  ASSUME NEW S, NEW o, NEW t, IsTree(t, S, o), NEW q \in DOMAIN t, q # <<>>
  PROVE  Many(AlongIn(S, o, Upto(q, Len(q) - 1)))
BY DEF IsTree, Paths

\* How deep the recursion along a key goes, in a tree of a set of rules.
LEMMA DepthIs ==
  ASSUME SortAssumption, NEW S, S \subseteq Rules, NEW o \in Orders, NEW t, IsTree(t, S, o),
         NEW r \in Rules, NEW n \in Nat
  PROVE  LET k == KeyOf(r, o)
             l == Depth(t, k, n)
         IN  /\ l \in 0 .. F /\ \A i \in 0 .. l : Upto(k, i) \in DOMAIN t
             /\ l = F \/ t[Upto(k, l)].count <= n \/ Upto(k, l + 1) \notin DOMAIN t
             /\ \A i \in 0 .. l - 1 : t[Upto(k, i)].count > n
PROOF
  <1> DEFINE k == KeyOf(r, o)
             Stop(l) == l = F \/ t[Upto(k, l)].count <= n \/ Upto(k, l + 1) \notin DOMAIN t
             Go(i) == t[Upto(k, i)].count > n /\ Upto(k, i + 1) \in DOMAIN t
             Good(l) == Stop(l) /\ \A i \in 0 .. l - 1 : Go(i)
  <1>1. F \in Nat \ {0} /\ k \in Seq(Box) /\ Len(k) = F
    BY RuleFacts, KeyType, KeyLen
  <1>2. Depth(t, k, n) = CHOOSE l \in 0 .. F : Good(l)
    BY <1>1 DEF Depth
  <1>3. Upto(k, 0) \in DOMAIN t
    <2>1. Upto(k, 0) = <<>>
      BY <1>1, UptoType
    <2>2. <<>> \in Paths(S, o)
      BY DEF Paths
    <2> QED BY <2>1, <2>2 DEF IsTree
  <1>4. ASSUME NEW i \in 0 .. F, Upto(k, i) \in DOMAIN t, ~Stop(i) PROVE Go(i)
    <2>1. t[Upto(k, i)].count \in Nat
      BY <1>4, CountTells
    <2> QED BY <1>4, <2>1
  <1>5. \E l \in 0 .. F : Good(l)
    <2> DEFINE N == {j \in 1 .. F + 1 : Stop(j - 1)}
    <2>1. F + 1 \in N
      BY <1>1
    <2>2. PICK m \in N : \A j \in N : m <= j
      <3>1. F + 1 \in Nat /\ N \in SUBSET (1 .. F + 1) /\ N # {}
        BY <1>1, <2>1
      <3> HIDE DEF N
      <3> QED BY <3>1, LeastIndex
    <2>3. m \in 1 .. F + 1 /\ Stop(m - 1) /\ \A i \in 0 .. m - 2 : ~Stop(i)
      <3>1. m \in 1 .. F + 1 /\ Stop(m - 1)
        BY <2>2
      <3>2. ASSUME NEW i \in 0 .. m - 2, Stop(i) PROVE FALSE
        <4>1. i + 1 \in 1 .. F + 1 /\ i + 1 - 1 = i
          BY <1>1, <3>1
        <4>2. i + 1 \in N
          BY <3>2, <4>1
        <4> QED BY <2>2, <3>1, <4>1, <4>2
      <3> QED BY <3>1, <3>2
    <2>4. ASSUME NEW i \in 0 .. m - 2 PROVE Go(i)
      <3>1. i \in 0 .. F /\ ~Stop(i)
        <4>1. i \in 0 .. F
          BY <1>1, <2>3
        <4>2. ~Stop(i)
          <5> HIDE DEF Stop
          <5> QED BY <2>3
        <4> QED BY <4>1, <4>2
      <3>2. Upto(k, i) \in DOMAIN t
        <4>1. CASE i = 0
          BY <1>3, <4>1
        <4>2. CASE i # 0
          <5>1. i - 1 \in 0 .. m - 2 /\ i - 1 + 1 = i
            BY <1>1, <2>3, <4>2
          <5>2. ~Stop(i - 1)
            BY <2>3, <5>1
          <5> QED BY <5>1, <5>2
        <4> QED BY <4>1, <4>2
      <3> HIDE DEF Stop, Go
      <3> QED BY <1>4, <3>1, <3>2
    <2>5. m - 1 \in 0 .. F /\ m - 1 - 1 = m - 2
      BY <1>1, <2>3
    <2> QED BY <2>3, <2>4, <2>5
  <1>6. Depth(t, k, n) \in 0 .. F /\ Good(Depth(t, k, n))
    <2> HIDE DEF Good
    <2> QED BY <1>2, <1>5
  <1> DEFINE l == Depth(t, k, n)
  <1>7. ASSUME NEW i \in 0 .. l PROVE Upto(k, i) \in DOMAIN t
    <2>1. CASE i = 0
      BY <1>3, <2>1
    <2>2. CASE i # 0
      <3>1. i - 1 \in 0 .. l - 1 /\ i - 1 + 1 = i
        BY <1>1, <1>6, <2>2
      <3>2. Go(i - 1)
        BY <1>6, <3>1
      <3> QED BY <3>1, <3>2
    <2> QED BY <2>1, <2>2
  <1>8. l \in 0 .. F /\ Stop(l) /\ \A i \in 0 .. l - 1 : t[Upto(k, i)].count > n
    BY <1>6
  <1> QED BY <1>7, <1>8

-----------------------------------------------------------------------------
(***************************************************************************)
(* A rule is added.                                                        *)
(***************************************************************************)

Before(q) == Upto(q, Len(q) - 1)

\* The path of the parent.
LEMMA BeforeType ==
  ASSUME NEW q \in Seq(Box), q # <<>>
  PROVE  /\ Len(q) \in Nat \ {0} /\ Before(q) \in Seq(Box) /\ Len(Before(q)) = Len(q) - 1
         /\ Len(q) - 1 \in 0 .. Len(q)
         /\ \A k \in Seq(Box) : OnWay(q, k) => OnWay(Before(q), k)
PROOF
  <1>1. Len(q) \in Nat \ {0} /\ Len(q) - 1 \in 0 .. Len(q)
    OBVIOUS
  <1>2. \A k \in Seq(Box) : OnWay(q, k) => OnWay(Before(q), k)
    BY <1>1, OnWayIs DEF Before
  <1> QED BY <1>1, <1>2, UptoType DEF Before

\* Off the way of the new rule nothing changes.
LEMMA AlongSame ==
  ASSUME NEW S, NEW o, NEW r, NEW q, ~OnWay(q, KeyOf(r, o))
  PROVE  AlongIn(S \cup {r}, o, q) = AlongIn(S, o, q)
BY DEF AlongIn

\* On its way it is one more.
LEMMA AlongUnion ==
  ASSUME NEW S, NEW o, NEW r, NEW q, OnWay(q, KeyOf(r, o))
  PROVE  AlongIn(S \cup {r}, o, q) = AlongIn(S, o, q) \cup {r}
BY DEF AlongIn

\* A rule that is added counts along its own way.
LEMMA AlongCount ==
  ASSUME SortAssumption, NEW S, S \subseteq Rules, NEW o, NEW r, r \notin S,
         NEW q, OnWay(q, KeyOf(r, o))
  PROVE  Cardinality(AlongIn(S \cup {r}, o, q)) = Cardinality(AlongIn(S, o, q)) + 1
PROOF
  <1>1. r \notin AlongIn(S, o, q) /\ IsFiniteSet(AlongIn(S, o, q))
    <2>1. IsFiniteSet(AlongIn(S, o, q))
      BY AlongFinite
    <2> QED BY <2>1 DEF AlongIn
  <1>2. AlongIn(S \cup {r}, o, q) = AlongIn(S, o, q) \cup {r}
    BY AlongUnion
  <1> QED BY <1>1, <1>2, FS_AddElement

\* Then it is one of several where another one was.
LEMMA AlongMany ==
  ASSUME NEW S, NEW o, NEW r, r \notin S, NEW q, OnWay(q, KeyOf(r, o))
  PROVE  Many(AlongIn(S \cup {r}, o, q)) <=> AlongIn(S, o, q) # {}
PROOF
  <1>1. r \notin AlongIn(S, o, q)
    BY DEF AlongIn
  <1>2. AlongIn(S \cup {r}, o, q) = AlongIn(S, o, q) \cup {r}
    BY AlongUnion
  <1> QED BY <1>1, <1>2 DEF Many

\* The nodes of the tree with one more rule.
LEMMA PathsAdd ==
  ASSUME SortAssumption, NEW S, S \subseteq Rules, NEW o \in Orders, NEW r \in Rules, r \notin S,
         NEW q \in Seq(Box)
  PROVE  LET k == KeyOf(r, o) IN
         q \in Paths(S \cup {r}, o) <=>
           \/ q = <<>>
           \/ q # <<>> /\ OnWay(q, k) /\ AlongIn(S, o, Before(q)) # {}
           \/ /\ q # <<>> /\ ~OnWay(q, k) /\ AlongIn(S, o, q) # {}
              /\ OnWay(Before(q), k) \/ Many(AlongIn(S, o, Before(q)))
PROOF
  <1> DEFINE k == KeyOf(r, o)
             V(x) == AlongIn(S \cup {r}, o, x)
             W(x) == AlongIn(S, o, x)
  <1>1. q \in Paths(S \cup {r}, o) <=> (q = <<>> \/ (V(q) # {} /\ Many(V(Before(q)))))
    BY DEF Paths, Before
  <1>2. CASE q = <<>>
    BY <1>1, <1>2
  <1>3. CASE q # <<>>
    <2>1. Before(q) \in Seq(Box) /\ W(q) \subseteq W(Before(q))
      BY <1>3, BeforeType, AlongShorter DEF Before
    <2>2. OnWay(q, k) => V(q) # {}
      BY DEF AlongIn
    <2>3. ~OnWay(q, k) => V(q) = W(q)
      BY AlongSame
    <2>4. ~OnWay(Before(q), k) => (Many(V(Before(q))) <=> Many(W(Before(q))))
      BY AlongSame
    <2>5. OnWay(Before(q), k) => (Many(V(Before(q))) <=> W(Before(q)) # {})
      BY AlongMany
    <2>6. OnWay(q, k) => OnWay(Before(q), k)
      BY <1>3, BeforeType, KeyType, KeyLen
    <2> HIDE DEF V, W, k, Many
    <2>7. CASE OnWay(q, k)
      BY <1>1, <1>3, <2>2, <2>5, <2>6, <2>7 DEF W, k
    <2>8. CASE ~OnWay(q, k)
      BY <1>1, <1>3, <2>1, <2>3, <2>4, <2>5, <2>8 DEF W, k
    <2> QED BY <2>7, <2>8
  <1> QED BY <1>2, <1>3

\* The trees that are passed.
LEMMA PassedHolds ==
  ASSUME SortAssumption, NEW S, S \subseteq Rules, NEW o \in Orders, NEW r \in Rules, r \notin S,
         NEW q \in Seq(Box), NEW T, Holds(T, AlongIn(S, o, q), o, q)
  PROVE  /\ ~OnWay(q, KeyOf(r, o)) => Holds(T, AlongIn(S \cup {r}, o, q), o, q)
         /\ OnWay(q, KeyOf(r, o)) /\ Many(AlongIn(S, o, q)) /\ Len(q) < F =>
              Holds([T EXCEPT !.count = @ + 1], AlongIn(S \cup {r}, o, q), o, q)
PROOF
  <1> DEFINE k == KeyOf(r, o)
             W == AlongIn(S, o, q)
             V == AlongIn(S \cup {r}, o, q)
             U == [T EXCEPT !.count = @ + 1]
  <1>1. ASSUME ~OnWay(q, k) PROVE Holds(T, V, o, q)
    BY <1>1, AlongSame
  <1>2. ASSUME OnWay(q, k), Many(W), Len(q) < F PROVE Holds(U, V, o, q)
    <2>1. Cardinality(V) = Cardinality(W) + 1 /\ Many(V)
      <3>1. W # {}
        BY <1>2 DEF Many
      <3> HIDE DEF Many
      <3>2. Many(V)
        BY <1>2, <3>1, AlongMany
      <3> QED BY <1>2, <3>2, AlongCount
    <2>2. T \in TreeType /\ T.count = Cardinality(W) /\ T.chain_boxes = <<>>
      BY <1>2 DEF Holds
    <2>3. U \in TreeType /\ U.count = T.count + 1 /\ U.chain_boxes = <<>>
      BY <2>2 DEF TreeType
    <2>4. ~(\E x : V = {x}) /\ ~(Len(q) = F)
      <3>1. Len(q) \in Nat /\ F \in Nat
        BY RuleFacts
      <3> QED BY <1>2, <2>1, <3>1 DEF Many
    <2> HIDE DEF U, V, W
    <2> QED BY <2>1, <2>2, <2>3, <2>4 DEF Holds
  <1> QED BY <1>1, <1>2

\* How far a way goes.
LEMMA OnWayLen ==
  ASSUME SortAssumption, NEW o \in Orders, NEW r \in Rules, NEW q \in Seq(Box)
  PROVE  /\ Len(q) \in Nat
         /\ OnWay(q, KeyOf(r, o)) => Len(q) \in 0 .. F /\ q = Upto(KeyOf(r, o), Len(q))
BY KeyType, KeyLen, OnWayIs

\* u has the trees of t, those above level l on the way of key with the rules R
PassedFor(u, t, R, o, key, l) ==
  /\ DOMAIN u = DOMAIN t
  /\ \A q \in DOMAIN t : /\ ~OnWay(q, key) \/ Len(q) < l => Holds(u[q], AlongIn(R, o, q), o, q)
                         /\ ~(Len(q) < l) => u[q] = t[q]

\* many rules go along the way of key up to level l, and some along all of it
Crowded(S, o, key, l) == \A i \in 0 .. l - 1 : Many(AlongIn(S, o, Upto(key, i)))
Busy(S, o, key, l) ==
  Crowded(S, o, key, l) /\ \A i \in 1 .. l : Some(AlongIn(S, o, Upto(key, i)))

\* The nodes an insert passes count one rule more.
LEMMA PassedInsert ==
  ASSUME SortAssumption, NEW S, S \subseteq Rules, NEW o \in Orders, NEW r \in Rules, r \notin S,
         NEW t, IsTree(t, S, o), NEW l \in 0 .. F, NEW k, k = KeyOf(r, o), Crowded(S, o, k, l)
  PROVE  PassedFor(Passed(t, k, l, 1), t, S \cup {r}, o, k, l)
PROOF
  <1> DEFINE u == Passed(t, k, l, 1)
  <1>1. DOMAIN u = DOMAIN t
    BY DEF Passed
  <1>2. \A q \in DOMAIN t : u[q] = IF Len(q) < l /\ OnWay(q, k) THEN [t[q] EXCEPT !.count = @ + 1] ELSE t[q]
    BY DEF Passed
  <1>3. ASSUME NEW q \in DOMAIN t, ~OnWay(q, k) \/ Len(q) < l
        PROVE  Holds(u[q], AlongIn(S \cup {r}, o, q), o, q)
    <2>1. q \in Seq(Box) /\ Holds(t[q], AlongIn(S, o, q), o, q)
      BY CountTells
    <2>2. CASE ~OnWay(q, k)
      <3>1. u[q] = t[q]
        BY <1>2, <2>2
      <3> HIDE DEF u
      <3> QED BY <2>1, <2>2, <3>1, PassedHolds
    <2>3. CASE OnWay(q, k)
      <3>1. Len(q) \in 0 .. F /\ q = Upto(k, Len(q)) /\ Len(q) < l
        BY <1>3, <2>1, <2>3, OnWayLen
      <3>2. Len(q) \in 0 .. l - 1 /\ Len(q) < F
        BY <3>1, RuleFacts
      <3>3. Many(AlongIn(S, o, q))
        BY <3>1, <3>2 DEF Busy, Crowded
      <3>4. u[q] = [t[q] EXCEPT !.count = @ + 1]
        BY <1>2, <2>3, <3>1
      <3> HIDE DEF u
      <3> QED BY <2>1, <2>3, <3>2, <3>3, <3>4, PassedHolds
    <2> QED BY <2>2, <2>3
  <1> HIDE DEF u
  <1>4. \A q \in DOMAIN t : ~(Len(q) < l) => u[q] = t[q]
    BY <1>2
  <1> QED BY <1>1, <1>3, <1>4 DEF u, PassedFor

\* As far as an insert goes down two rules or more go along.
LEMMA InsertDepth ==
  ASSUME SortAssumption, NEW S, S \subseteq Rules, NEW o \in Orders, NEW t, IsTree(t, S, o),
         NEW r \in Rules, NEW k, k = KeyOf(r, o), NEW l, l = Depth(t, k, 1)
  PROVE  /\ l \in 0 .. F /\ Upto(k, l) \in DOMAIN t /\ Busy(S, o, k, l)
         /\ l = F \/ t[Upto(k, l)].count <= 1 \/ ~Some(AlongIn(S, o, Upto(k, l + 1)))
PROOF
  <1>1. /\ l \in 0 .. F /\ \A i \in 0 .. l : Upto(k, i) \in DOMAIN t
        /\ l = F \/ t[Upto(k, l)].count <= 1 \/ Upto(k, l + 1) \notin DOMAIN t
        /\ \A i \in 0 .. l - 1 : t[Upto(k, i)].count > 1
    BY DepthIs
  <1>2. F \in Nat /\ k \in Seq(Box) /\ Len(k) = F
    BY RuleFacts, KeyType, KeyLen
  <1>3. ASSUME NEW i \in 0 .. l - 1 PROVE Many(AlongIn(S, o, Upto(k, i)))
    <2>1. Upto(k, i) \in DOMAIN t /\ t[Upto(k, i)].count > 1
      BY <1>1
    <2> QED BY <2>1, CountTells
  <1>4. ASSUME NEW i \in 1 .. l PROVE Some(AlongIn(S, o, Upto(k, i)))
    <2>1. Upto(k, i) \in DOMAIN t /\ Upto(k, i) # <<>>
      BY <1>1, <1>2, <1>4, UptoType
    <2> QED BY <2>1, AlongSome DEF Some
  <1>5. ASSUME l # F, ~(t[Upto(k, l)].count <= 1) PROVE ~Some(AlongIn(S, o, Upto(k, l + 1)))
    <2>1. Upto(k, l) \in DOMAIN t /\ l + 1 \in 1 .. F /\ l + 1 - 1 = l
      BY <1>1, <1>2, <1>5
    <2>2. t[Upto(k, l)].count \in Nat
      BY <2>1, CountTells
    <2>3. t[Upto(k, l)].count > 1
      BY <1>5, <2>2
    <2>4. Many(AlongIn(S, o, Upto(k, l)))
      BY <2>1, <2>3, CountTells
    <2>5. /\ Upto(k, l + 1) \in Seq(Box) /\ Len(Upto(k, l + 1)) = l + 1
          /\ Upto(Upto(k, l + 1), l) = Upto(k, l)
      BY <1>1, <1>2, <2>1, UptoType
    <2>6. Upto(k, l + 1) \notin Paths(S, o)
      BY <1>1, <1>5, <2>3 DEF IsTree
    <2>7. Upto(Upto(k, l + 1), Len(Upto(k, l + 1)) - 1) = Upto(k, l)
      BY <1>1, <2>5
    <2> QED BY <2>4, <2>5, <2>6, <2>7 DEF Paths, Some
  <1> QED BY <1>1, <1>3, <1>4, <1>5 DEF Busy, Crowded

\* What is left of a key.
LEMMA RestType ==
  ASSUME NEW k \in Seq(Box), NEW i \in 0 .. Len(k)
  PROVE  /\ Rest(k, i) \in Seq(Box) /\ Len(Rest(k, i)) = Len(k) - i
         /\ \A j \in 1 .. Len(k) - i : Rest(k, i)[j] = k[i + j]
         /\ Rest(k, Len(k)) = <<>>
         /\ Upto(k, i) \o Rest(k, i) = k
PROOF
  <1> DEFINE v == Rest(k, i)
  <1>1. Len(k) \in Nat /\ Len(k) - i \in Nat /\ \A j \in 1 .. Len(k) - i : i + j \in 1 .. Len(k)
    OBVIOUS
  <1>2. v = [j \in 1 .. Len(k) - i |-> k[i + j]]
    BY DEF Rest
  <1>3. v \in Seq(Box) /\ Len(v) = Len(k) - i
    BY <1>1, <1>2
  <1>4. Rest(k, Len(k)) = <<>>
    BY DEF Rest
  <1>5. Upto(k, i) \o v = k
    <2> DEFINE u == Upto(k, i)
    <2>1. u \in Seq(Box) /\ Len(u) = i /\ \A j \in 1 .. i : u[j] = k[j]
      BY UptoType
    <2> HIDE DEF u, v
    <2>2. u \o v \in Seq(Box) /\ Len(u \o v) = Len(k)
      BY <1>1, <1>3, <2>1, ConcatProperties
    <2>3. ASSUME NEW j \in 1 .. Len(k) PROVE (u \o v)[j] = k[j]
      <3>1. (u \o v)[j] = IF j <= i THEN u[j] ELSE v[j - i]
        BY <1>1, <1>3, <2>1, ConcatProperties
      <3>2. CASE j <= i
        BY <2>1, <3>1, <3>2
      <3>3. CASE ~(j <= i)
        <4>1. j - i \in 1 .. Len(k) - i /\ i + (j - i) = j
          BY <1>1, <3>3
        <4> QED BY <1>2, <3>1, <3>3, <4>1
      <3> QED BY <3>2, <3>3
    <2> QED BY <2>2, <2>3, SeqEqual DEF u
  <1> QED BY <1>1, <1>2, <1>3, <1>4, <1>5

\* No path is longer than a key.
LEMMA PathLen ==
  ASSUME SortAssumption, NEW S, S \subseteq Rules, NEW o \in Orders,
         NEW q \in Seq(Box), Some(AlongIn(S, o, q))
  PROVE  Len(q) \in 0 .. F
PROOF
  <1>1. PICK r \in S : OnWay(q, KeyOf(r, o))
    BY DEF AlongIn, Some
  <1> QED BY <1>1, OnWayLen

\* Nothing goes along a path when nothing goes along its beginning.
LEMMA SomeShorter ==
  ASSUME SortAssumption, NEW S, S \subseteq Rules, NEW o \in Orders,
         NEW q \in Seq(Box), NEW j \in 0 .. Len(q), Some(AlongIn(S, o, q))
  PROVE  Some(AlongIn(S, o, Upto(q, j)))
BY AlongShorter DEF Some

\* More rules have all the nodes that fewer have.
LEMMA StillPaths ==
  ASSUME NEW S, NEW R, S \subseteq R, NEW o
  PROVE  Paths(S, o) \subseteq Paths(R, o)
BY DEF Paths, AlongIn, Many

\* A path that an insert makes goes on from the way of the rule, below where it is busy.
LEMMA NewPaths ==
  ASSUME SortAssumption, NEW S, S \subseteq Rules, NEW o \in Orders,
         NEW r \in Rules, r \notin S, NEW q \in Paths(S \cup {r}, o), q \notin Paths(S, o),
         NEW k, k = KeyOf(r, o), NEW l \in 0 .. F, Busy(S, o, k, l)
  PROVE  /\ q \in Seq(Box) /\ q # <<>> /\ Len(q) \in l + 1 .. F
         /\ Before(q) = Upto(k, Len(q) - 1) /\ Some(AlongIn(S, o, Before(q)))
         /\ ~OnWay(q, k) => Some(AlongIn(S, o, q)) /\ ~Many(AlongIn(S, o, Before(q)))
PROOF
  <1>1. q \in Seq(Box) /\ q # <<>>
    BY DEF Paths
  <1>2. /\ Len(q) \in Nat \ {0} /\ Before(q) \in Seq(Box) /\ Len(Before(q)) = Len(q) - 1
        /\ OnWay(q, k) => OnWay(Before(q), k)
    BY <1>1, BeforeType, KeyType, KeyLen
  <1>3. Some(AlongIn(S, o, q)) => Some(AlongIn(S, o, Before(q)))
    BY <1>1, BeforeType, AlongShorter DEF Before, Some
  <1>4. q \in Paths(S, o) <=> Some(AlongIn(S, o, q)) /\ Many(AlongIn(S, o, Before(q)))
    BY <1>1 DEF Paths, Before, Some
  <1>5. \/ OnWay(q, k) /\ Some(AlongIn(S, o, Before(q)))
        \/ /\ ~OnWay(q, k) /\ Some(AlongIn(S, o, q))
           /\ OnWay(Before(q), k) \/ Many(AlongIn(S, o, Before(q)))
    BY <1>1, PathsAdd DEF Some
  <1>6. OnWay(Before(q), k) /\ Some(AlongIn(S, o, Before(q)))
    BY <1>2, <1>3, <1>4, <1>5
  <1>7. Before(q) = Upto(k, Len(q) - 1) /\ Len(q) - 1 \in 0 .. F
    BY <1>2, <1>6, OnWayLen
  <1>8. OnWay(q, k) => Len(q) \in 0 .. F /\ q = Upto(k, Len(q))
    BY <1>1, OnWayLen
  <1>9. ~OnWay(q, k) => Len(q) \in 0 .. F
    BY <1>1, <1>5, PathLen
  <1>10. ASSUME Len(q) - 1 < l PROVE FALSE
    <2>1. Len(q) - 1 \in 0 .. l - 1 /\ Len(q) \in 1 .. l
      BY <1>2, <1>7, <1>10
    <2>2. Many(AlongIn(S, o, Before(q)))
      BY <1>7, <2>1 DEF Busy, Crowded
    <2>3. Some(AlongIn(S, o, q))
      BY <1>5, <1>8, <2>1 DEF Busy, Crowded
    <2> QED BY <1>4, <2>2, <2>3
  <1>11. Len(q) \in l + 1 .. F
    <2>1. Len(q) \in 0 .. F
      BY <1>8, <1>9
    <2> QED BY <1>2, <1>10, <2>1, RuleFacts
  <1>12. ~OnWay(q, k) => Some(AlongIn(S, o, q)) /\ ~Many(AlongIn(S, o, Before(q)))
    BY <1>4, <1>5
  <1> QED BY <1>1, <1>6, <1>7, <1>11, <1>12

\* one tree is replaced, or there is one more
Replaces(g, u, q, T) == g = [u EXCEPT ![q] = T]
Extends(g, u, new, T) == g = [q \in DOMAIN u \cup {new} |-> IF q = new THEN T ELSE u[q]]

\* The end of the way: a leaf, or the root of an empty tree.
LEMMA InsertLeaf ==
  ASSUME SortAssumption, NEW S, S \subseteq Rules, NEW o \in Orders, NEW r \in Rules, r \notin S,
         NEW t, IsTree(t, S, o), NEW k, k = KeyOf(r, o), NEW l \in 0 .. F, Busy(S, o, k, l),
         NEW at, at = Upto(k, l), at \in DOMAIN t, l = F \/ ~Some(AlongIn(S, o, at)),
         NEW u, PassedFor(u, t, S \cup {r}, o, k, l),
         NEW T, T = Tree(u[at].count + 1, Rest(k, l), u[at].priority_list \cup {Prio[r]}),
         NEW g, Replaces(g, u, at, T)
  PROVE  IsTree(g, S \cup {r}, o)
PROOF
  <1> SUFFICES IsTree([u EXCEPT ![at] = T], S \cup {r}, o)
    BY DEF Replaces
  <1> DEFINE W(q) == AlongIn(S, o, q)
             V(q) == AlongIn(S \cup {r}, o, q)
  <1>1. F \in Nat /\ k \in Seq(Box) /\ Len(k) = F /\ Prio[r] \in Nat
    BY RuleFacts, KeyType, KeyLen
  <1>2. /\ at \in Seq(Box) /\ Len(at) = l /\ OnWay(at, k) /\ (at = <<>> <=> l = 0)
        /\ Rest(k, l) \in Seq(Box) /\ Rest(k, F) = <<>>
    BY <1>1, UptoType, RestType, OnWayIs
  <1>3. ASSUME l # F PROVE l = 0 /\ S = {}
    <2>1. l = 0
      BY <1>3 DEF Busy, Crowded
    <2>2. ASSUME NEW s \in S PROVE s \in W(at)
      <3>1. KeyOf(s, o) \in Seq(Box) /\ at = <<>>
        BY <1>2, <2>1, KeyType, KeyLen
      <3>2. OnWay(at, KeyOf(s, o))
        BY <3>1 DEF OnWay, Upto
      <3> QED BY <3>2 DEF AlongIn
    <2> QED BY <1>3, <2>1, <2>2 DEF Some
  <1>4. Paths(S \cup {r}, o) = Paths(S, o)
    <2>1. ASSUME NEW q \in Paths(S \cup {r}, o), q \notin Paths(S, o) PROVE FALSE
      <3>1. Len(q) \in l + 1 .. F /\ Some(AlongIn(S, o, Before(q)))
        BY <2>1, NewPaths
      <3>2. l # F
        BY <1>1, <3>1
      <3> QED BY <1>3, <3>1, <3>2 DEF Some, AlongIn
    <2> QED BY <2>1, StillPaths
  <1>5. DOMAIN u = DOMAIN t /\ u[at] = t[at]
    BY <1>2 DEF PassedFor
  <1>6. Holds(T, V(at), o, at)
    <2>1. t[at] \in TreeType /\ t[at].count = Cardinality(W(at))
          /\ (~Many(W(at)) \/ l = F => t[at].priority_list = {Prio[s] : s \in W(at)})
      <3>1. Holds(t[at], W(at), o, at)
        BY CountTells
      <3> QED BY <1>2, <3>1 DEF Holds
    <2>2. t[at].count + 1 \in Nat /\ t[at].priority_list \cup {Prio[r]} \in SUBSET Nat
      BY <1>1, <2>1 DEF TreeType
    <2>3. /\ T \in TreeType /\ T.count = t[at].count + 1 /\ T.chain_boxes = Rest(k, l)
          /\ T.priority_list = t[at].priority_list \cup {Prio[r]}
      <3> DEFINE n == t[at].count + 1
                 P == t[at].priority_list \cup {Prio[r]}
      <3>1. n \in Nat /\ P \in SUBSET Nat /\ T = Tree(n, Rest(k, l), P)
        BY <1>5, <2>2
      <3> HIDE DEF n, P
      <3>2. T \in TreeType /\ T.count = n /\ T.chain_boxes = Rest(k, l) /\ T.priority_list = P
        BY <1>2, <3>1, TreeIs
      <3> QED BY <3>2 DEF n, P
    <2>4. Cardinality(V(at)) = Cardinality(W(at)) + 1 /\ (Many(V(at)) <=> Some(W(at)))
      BY <1>2, AlongCount, AlongMany DEF Some
    <2>5. V(at) = W(at) \cup {r}
      BY <1>2, AlongUnion
    <2> HIDE DEF V, W
    <2>6. \A x : V(at) = {x} => T.chain_boxes = Rest(KeyOf(x, o), Len(at))
      <3>1. ASSUME NEW x, V(at) = {x} PROVE x = r
        BY <2>5, <3>1
      <3> QED BY <1>2, <2>3, <3>1
    <2>7. Many(V(at)) => T.chain_boxes = <<>>
      BY <1>2, <2>3, <2>4 DEF W
    <2>8. ~Many(V(at)) \/ Len(at) = F => T.priority_list = {Prio[s] : s \in V(at)}
      <3>1. ~Some(W(at)) => ~Many(W(at))
        BY DEF Some, Many
      <3>2. {Prio[s] : s \in V(at)} = {Prio[s] : s \in W(at)} \cup {Prio[r]}
        BY <2>5
      <3> QED BY <1>2, <2>1, <2>3, <2>4, <3>1, <3>2
    <2> QED BY <2>1, <2>3, <2>4, <2>6, <2>7, <2>8 DEF Holds
  <1>7. ASSUME NEW q \in DOMAIN t, q # at PROVE Holds(u[q], V(q), o, q)
    <2>1. q \in Seq(Box) /\ q \in Paths(S, o)
      BY DEF IsTree, Paths
    <2>2. ~OnWay(q, k) \/ Len(q) < l
      <3>1. CASE l = F
        <4>1. OnWay(q, k) => Len(q) \in 0 .. F /\ q = Upto(k, Len(q))
          BY <2>1, OnWayLen
        <4> QED BY <1>1, <1>7, <3>1, <4>1
      <3>2. CASE l # F
        BY <1>2, <1>3, <1>7, <2>1, <3>2 DEF Paths, AlongIn
      <3> QED BY <3>1, <3>2
    <2> QED BY <2>2 DEF PassedFor
  <1> DEFINE h == [u EXCEPT ![at] = T]
  <1>8. DOMAIN h = DOMAIN t /\ h[at] = T /\ \A q \in DOMAIN t : q # at => h[q] = u[q]
    BY <1>5
  <1> HIDE DEF h
  <1>9. \A q \in DOMAIN t : Holds(h[q], V(q), o, q)
    BY <1>6, <1>7, <1>8
  <1>10. DOMAIN h = Paths(S \cup {r}, o)
    BY <1>4, <1>8 DEF IsTree
  <1> QED BY <1>8, <1>9, <1>10 DEF IsTree, h

\* A beginning of a beginning.
LEMMA UptoShorter ==
  ASSUME SortAssumption, NEW o \in Orders, NEW r \in Rules, NEW k, k = KeyOf(r, o),
         NEW i \in 0 .. F, NEW j \in 0 .. i
  PROVE  /\ Upto(k, i) \in Seq(Box) /\ Len(Upto(k, i)) = i /\ j \in 0 .. Len(Upto(k, i))
         /\ Upto(Upto(k, i), j) = Upto(k, j) /\ OnWay(Upto(k, i), k)
         /\ Upto(k, i) = <<>> <=> i = 0
         /\ i # 0 => Before(Upto(k, i)) = Upto(k, i - 1)
PROOF
  <1>1. k \in Seq(Box) /\ Len(k) = F
    BY KeyType, KeyLen
  <1>2. /\ Upto(k, i) \in Seq(Box) /\ Len(Upto(k, i)) = i
        /\ \A n \in 0 .. i : Upto(Upto(k, i), n) = Upto(k, n)
        /\ Upto(k, i) = <<>> <=> i = 0
    BY <1>1, UptoType
  <1>3. OnWay(Upto(k, i), k)
    BY <1>1, <1>2, OnWayIs
  <1>4. i # 0 => i - 1 \in 0 .. i
    OBVIOUS
  <1> QED BY <1>2, <1>3, <1>4 DEF Before

\* A rule of which nothing is known beyond a crowded way gets a node.
LEMMA InsertNode ==
  ASSUME SortAssumption, NEW S, S \subseteq Rules, NEW o \in Orders, NEW r \in Rules, r \notin S,
         NEW t, IsTree(t, S, o), NEW k, k = KeyOf(r, o), NEW l \in 0 .. F, l # F, Busy(S, o, k, l),
         Many(AlongIn(S, o, Upto(k, l))), NEW new, new = Upto(k, l + 1), ~Some(AlongIn(S, o, new)),
         NEW u, PassedFor(u, t, S \cup {r}, o, k, l + 1),
         NEW T, T = Tree(1, Rest(k, l + 1), {Prio[r]}),
         NEW g, Extends(g, u, new, T)
  PROVE  IsTree(g, S \cup {r}, o)
PROOF
  <1> SUFFICES IsTree([q \in DOMAIN u \cup {new} |-> IF q = new THEN T ELSE u[q]], S \cup {r}, o)
    BY DEF Extends
  <1> DEFINE W(q) == AlongIn(S, o, q)
             V(q) == AlongIn(S \cup {r}, o, q)
  <1>1. F \in Nat /\ k \in Seq(Box) /\ Len(k) = F /\ Prio[r] \in Nat /\ l + 1 \in 1 .. F
    BY RuleFacts, KeyType, KeyLen
  <1>2. /\ new \in Seq(Box) /\ Len(new) = l + 1 /\ OnWay(new, k) /\ new # <<>>
        /\ Before(new) = Upto(k, l)
    <2>1. l + 1 \in 0 .. F /\ l + 1 # 0 /\ l + 1 - 1 = l /\ 0 \in 0 .. l + 1
      BY <1>1
    <2> QED BY <2>1, UptoShorter
  <1>3. Rest(k, l + 1) \in Seq(Box)
    <2>1. l + 1 \in 0 .. Len(k)
      BY <1>1
    <2> QED BY <1>1, <2>1, RestType
  \* no rule goes further along the way
  <1>4. ASSUME NEW i \in l + 1 .. F PROVE ~Some(W(Upto(k, i)))
    <2>1. i \in 0 .. F /\ l + 1 \in 0 .. i
      BY <1>1
    <2>2. Upto(k, i) \in Seq(Box) /\ l + 1 \in 0 .. Len(Upto(k, i)) /\ Upto(Upto(k, i), l + 1) = new
      BY <2>1, UptoShorter
    <2> QED BY <2>2, SomeShorter
  <1>5. new \notin Paths(S, o)
    BY <1>2 DEF Paths, Some
  <1>6. Paths(S \cup {r}, o) = Paths(S, o) \cup {new}
    <2>1. ASSUME NEW q \in Paths(S \cup {r}, o), q \notin Paths(S, o) PROVE q = new
      <3>1. /\ q \in Seq(Box) /\ Len(q) \in l + 1 .. F /\ Before(q) = Upto(k, Len(q) - 1)
            /\ Some(W(Before(q)))
            /\ ~OnWay(q, k) => ~Many(W(Before(q)))
        BY <2>1, NewPaths
      <3>2. Len(q) = l + 1
        <4>1. Len(q) # l + 1 => Len(q) - 1 \in l + 1 .. F
          BY <1>1, <3>1
        <4> QED BY <1>4, <3>1, <4>1
      <3>3. Before(q) = Upto(k, l)
        BY <1>1, <3>1, <3>2
      <3>4. OnWay(q, k)
        BY <3>1, <3>3
      <3> QED BY <3>1, <3>2, <3>4, OnWayLen
    <2>2. new \in Paths(S \cup {r}, o)
      <3>1. W(Before(new)) # {}
        BY <1>2 DEF Many
      <3> QED BY <1>2, <3>1, PathsAdd
    <2> QED BY <2>1, <2>2, StillPaths
  <1>7. Holds(T, V(new), o, new)
    <2>1. V(new) = {r}
      <3>1. V(new) = W(new) \cup {r}
        BY <1>2, AlongUnion
      <3> HIDE DEF V
      <3> QED BY <3>1 DEF Some
    <2>2. Cardinality(V(new)) = 1
      BY <2>1, FS_Singleton
    <2>3. T \in TreeType /\ T.count = 1 /\ T.chain_boxes = Rest(k, l + 1) /\ T.priority_list = {Prio[r]}
      <3>1. 1 \in Nat /\ {Prio[r]} \in SUBSET Nat
        BY <1>1
      <3> QED BY <1>3, <3>1, TreeIs
    <2> HIDE DEF V
    <2>4. \A x : V(new) = {x} => T.chain_boxes = Rest(KeyOf(x, o), Len(new))
      <3>1. ASSUME NEW x, V(new) = {x} PROVE x = r
        BY <2>1, <3>1
      <3> QED BY <1>2, <2>3, <3>1
    <2>5. ~Many(V(new))
      BY <2>1 DEF Many
    <2>6. T.priority_list = {Prio[s] : s \in V(new)}
      BY <2>1, <2>3
    <2> QED BY <2>2, <2>3, <2>4, <2>5, <2>6 DEF Holds
  <1>8. ASSUME NEW q \in DOMAIN t PROVE q # new /\ Holds(u[q], V(q), o, q)
    <2>1. q \in Seq(Box) /\ q \in Paths(S, o)
      BY DEF IsTree, Paths
    <2>2. ASSUME OnWay(q, k), ~(Len(q) < l + 1) PROVE FALSE
      <3>1. Len(q) \in l + 1 .. F /\ q = Upto(k, Len(q)) /\ q # <<>>
        <4>1. Len(q) \in 0 .. F /\ q = Upto(k, Len(q))
          BY <2>1, <2>2, OnWayLen
        <4> QED BY <1>1, <2>2, <4>1
      <3>2. Some(W(q))
        BY <3>1, AlongSome DEF Some
      <3> QED BY <1>4, <3>1, <3>2
    <2>3. Holds(u[q], V(q), o, q)
      BY <2>2 DEF PassedFor
    <2> QED BY <1>5, <2>1, <2>3
  <1> DEFINE h == [q \in DOMAIN u \cup {new} |-> IF q = new THEN T ELSE u[q]]
  <1>9. DOMAIN u = DOMAIN t
    BY DEF PassedFor
  <1>10. /\ DOMAIN h = DOMAIN t \cup {new} /\ h[new] = T
         /\ \A q \in DOMAIN t : q # new => h[q] = u[q]
    BY <1>9
  <1> HIDE DEF h
  <1>11. \A q \in DOMAIN h : Holds(h[q], V(q), o, q)
    BY <1>7, <1>8, <1>10
  <1>12. DOMAIN h = Paths(S \cup {r}, o)
    BY <1>6, <1>10 DEF IsTree
  <1> QED BY <1>11, <1>12 DEF IsTree, h

\* Where the ways of two rules part.
LEMMA Parting ==
  ASSUME SortAssumption, NEW o \in Orders, NEW r \in Rules, NEW s \in Rules,
         NEW k, k = KeyOf(r, o), NEW m, m = KeyOf(s, o), NEW n, n = Agreement(k, m)
  PROVE  /\ n \in 0 .. F /\ (n # F => k[n + 1] # m[n + 1])
         /\ \A i \in 0 .. F : (Upto(m, i) = Upto(k, i) <=> i <= n)
         /\ \A i \in 0 .. F : (OnWay(Upto(k, i), m) <=> i <= n)
         /\ \A i \in 0 .. F : (OnWay(Upto(m, i), k) <=> i <= n)
PROOF
  <1>1. k \in Seq(Box) /\ m \in Seq(Box) /\ Len(k) = F /\ Len(m) = F /\ F \in Nat
    BY KeyType, KeyLen, RuleFacts
  <1>2. n \in 0 .. F /\ Upto(k, n) = Upto(m, n) /\ (n < F => k[n + 1] # m[n + 1])
    BY <1>1, AgreementIs
  <1>3. ASSUME NEW i \in 0 .. F PROVE Upto(m, i) = Upto(k, i) <=> i <= n
    <2>1. Upto(m, i) = Upto(k, i) <=> \A j \in 1 .. i : m[j] = k[j]
      BY <1>1, UptoSame
    <2>2. ASSUME i <= n PROVE Upto(m, i) = Upto(k, i)
      <3>1. i \in 0 .. n
        BY <1>2, <2>2
      <3> QED BY <1>1, <1>2, <3>1, UptoSame
    <2>3. ASSUME ~(i <= n), Upto(m, i) = Upto(k, i) PROVE FALSE
      <3>1. n + 1 \in 1 .. i /\ n < F
        BY <1>1, <1>2, <2>3
      <3> QED BY <1>2, <2>1, <2>3, <3>1
    <2> QED BY <2>2, <2>3
  <1>4. ASSUME NEW i \in 0 .. F
        PROVE  /\ OnWay(Upto(k, i), m) <=> Upto(m, i) = Upto(k, i)
               /\ OnWay(Upto(m, i), k) <=> Upto(m, i) = Upto(k, i)
    BY <1>1, UptoSame
  <1> QED BY <1>1, <1>2, <1>3, <1>4

\* Who goes along what is left of a way along which one rule goes.
LEMMA Alone ==
  ASSUME SortAssumption, NEW S, S \subseteq Rules, NEW o \in Orders, NEW r \in Rules, NEW s \in Rules,
         NEW k, k = KeyOf(r, o), NEW m, m = KeyOf(s, o), NEW n, n = Agreement(k, m),
         NEW l \in 0 .. F, Only(AlongIn(S, o, Upto(k, l)), s)
  PROVE  /\ n \in l .. F
         /\ \A i \in l .. F : (Some(AlongIn(S, o, Upto(k, i))) <=> i <= n)
         /\ \A i \in l .. F : i <= n => Only(AlongIn(S, o, Upto(k, i)), s)
PROOF
  <1> DEFINE W(q) == AlongIn(S, o, q)
  <1>1. F \in Nat /\ s \in S /\ OnWay(Upto(k, l), m)
    BY RuleFacts DEF Only, AlongIn
  <1>2. /\ n \in 0 .. F
        /\ \A i \in 0 .. F : (OnWay(Upto(k, i), m) <=> i <= n)
    BY Parting
  <1>3. n \in l .. F
    BY <1>1, <1>2
  <1>4. ASSUME NEW q \in Seq(Box), NEW j \in 0 .. Len(q), Upto(q, j) = Upto(k, l)
        PROVE  W(q) \subseteq {s}
    BY <1>4, AlongShorter DEF Only
  <1>5. ASSUME NEW i \in l .. F
        PROVE  /\ Some(W(Upto(k, i))) <=> i <= n
               /\ i <= n => Only(W(Upto(k, i)), s)
    <2>1. i \in 0 .. F /\ l \in 0 .. i
      BY <1>1
    <2>2. W(Upto(k, i)) \subseteq {s}
      BY <1>4, <2>1, UptoShorter
    <2>3. s \in W(Upto(k, i)) <=> i <= n
      BY <1>1, <1>2, <2>1 DEF AlongIn
    <2> HIDE DEF W
    <2> QED BY <2>2, <2>3 DEF Some, Only
  <1> QED BY <1>3, <1>5

\* One step off the way only that rule's own goes on.
LEMMA AloneOff ==
  ASSUME SortAssumption, NEW S, S \subseteq Rules, NEW o \in Orders, NEW r \in Rules, NEW s \in Rules,
         NEW k, k = KeyOf(r, o), NEW l \in 0 .. F, Only(AlongIn(S, o, Upto(k, l)), s),
         NEW q \in Seq(Box), l < Len(q), Before(q) = Upto(k, Len(q) - 1), Some(AlongIn(S, o, q))
  PROVE  Only(AlongIn(S, o, q), s) /\ Len(q) \in 0 .. F /\ q = Upto(KeyOf(s, o), Len(q))
PROOF
  <1> DEFINE W(x) == AlongIn(S, o, x)
             i == Len(q) - 1
  <1>1. Len(q) \in 0 .. F /\ F \in Nat
    BY PathLen, RuleFacts
  <1>2. i \in 0 .. F /\ l \in 0 .. i /\ i \in 0 .. Len(q) /\ Before(q) = Upto(k, i)
    BY <1>1
  <1> HIDE DEF i
  <1>3. Before(q) \in Seq(Box) /\ Len(Before(q)) = i /\ Upto(Before(q), l) = Upto(k, l)
    BY <1>2, UptoShorter
  <1>4. W(Before(q)) \subseteq {s}
    <2>1. W(Before(q)) \subseteq W(Upto(Before(q), l))
      BY <1>2, <1>3, AlongShorter
    <2> QED BY <1>3, <2>1 DEF Only
  <1>5. W(q) \subseteq W(Before(q))
    BY <1>2, AlongShorter DEF Before, i
  <1>6. Only(W(q), s)
    BY <1>4, <1>5 DEF Some, Only
  <1>7. OnWay(q, KeyOf(s, o))
    BY <1>6 DEF Only, AlongIn
  <1> QED BY <1>1, <1>6, <1>7, OnWayLen

\* The rules that go along the spine and the forks, when r joins s.
LEMMA ApartAlong ==
  ASSUME SortAssumption, NEW S, S \subseteq Rules, NEW o \in Orders, NEW r \in Rules, r \notin S,
         NEW s \in Rules, NEW k, k = KeyOf(r, o), NEW m, m = KeyOf(s, o), NEW n, n = Agreement(k, m),
         NEW l \in 0 .. F, Only(AlongIn(S, o, Upto(k, l)), s)
  PROVE  /\ s \in S /\ s # r
         /\ \A i \in l .. n : Pair(AlongIn(S \cup {r}, o, Upto(k, i)), r, s)
         /\ n # F => Only(AlongIn(S \cup {r}, o, Upto(k, n + 1)), r)
         /\ n # F => Only(AlongIn(S \cup {r}, o, Upto(m, n + 1)), s)
PROOF
  <1> DEFINE W(q) == AlongIn(S, o, q)
             V(q) == AlongIn(S \cup {r}, o, q)
  <1>1. /\ n \in l .. F /\ F \in Nat
        /\ \A i \in l .. F : (Some(W(Upto(k, i))) <=> i <= n)
        /\ \A i \in l .. F : i <= n => Only(W(Upto(k, i)), s)
    BY Alone, RuleFacts
  <1>2. s \in S /\ s # r
    BY DEF Only, AlongIn
  <1>3. ASSUME NEW i \in l .. F PROVE V(Upto(k, i)) = W(Upto(k, i)) \cup {r}
    <2>1. OnWay(Upto(k, i), k)
      <3>1. i \in 0 .. F /\ l \in 0 .. i
        BY <1>1
      <3> QED BY <3>1, UptoShorter
    <2> QED BY <2>1, AlongUnion
  <1>4. ASSUME NEW i \in l .. n PROVE Pair(V(Upto(k, i)), r, s)
    <2>1. i \in l .. F /\ i <= n
      BY <1>1
    <2>2. Only(W(Upto(k, i)), s) /\ V(Upto(k, i)) = W(Upto(k, i)) \cup {r}
      BY <1>1, <1>3, <2>1
    <2> HIDE DEF V, W
    <2> QED BY <2>2 DEF Only, Pair
  <1>5. ASSUME n # F PROVE Only(V(Upto(k, n + 1)), r) /\ Only(V(Upto(m, n + 1)), s)
    <2>1. n + 1 \in l .. F /\ ~(n + 1 <= n) /\ n + 1 \in 0 .. F
      BY <1>1, <1>5
    <2>2. Only(V(Upto(k, n + 1)), r)
      <3>1. ~Some(W(Upto(k, n + 1))) /\ V(Upto(k, n + 1)) = W(Upto(k, n + 1)) \cup {r}
        BY <1>1, <1>3, <2>1
      <3> HIDE DEF V, W
      <3> QED BY <3>1 DEF Only, Some
    <2>3. ~OnWay(Upto(m, n + 1), k)
      BY <2>1, Parting
    <2>4. V(Upto(m, n + 1)) = W(Upto(m, n + 1))
      BY <2>3, AlongSame
    <2>5. OnWay(Upto(m, n + 1), m) /\ Upto(m, n + 1) \in Seq(Box)
          /\ Len(Upto(m, n + 1)) = n + 1 /\ Before(Upto(m, n + 1)) = Upto(m, n)
      <3> DEFINE i == n + 1
      <3>1. i \in 0 .. F /\ 0 \in 0 .. i /\ i # 0 /\ i - 1 = n
        BY <1>1, <2>1
      <3> HIDE DEF i
      <3>2. /\ OnWay(Upto(m, i), m) /\ Upto(m, i) \in Seq(Box)
            /\ Len(Upto(m, i)) = i /\ Before(Upto(m, i)) = Upto(m, i - 1)
        BY <3>1, UptoShorter
      <3> QED BY <3>1, <3>2 DEF i
    <2>6. Upto(m, n) = Upto(k, n)
      BY <1>1, Parting
    <2>7. Some(W(Upto(m, n + 1)))
      BY <1>2, <2>5 DEF Some, AlongIn
    <2>8. Only(W(Upto(m, n + 1)), s)
      <3> DEFINE q == Upto(m, n + 1)
      <3>1. q \in Seq(Box) /\ l < Len(q) /\ Before(q) = Upto(k, Len(q) - 1) /\ Some(W(q))
        <4>1. Len(q) - 1 = n /\ l < Len(q)
          BY <1>1, <2>5
        <4> HIDE DEF q
        <4> QED BY <2>5, <2>6, <2>7, <4>1 DEF q
      <3> HIDE DEF q
      <3>2. Only(W(q), s)
        BY <3>1, AloneOff
      <3> QED BY <3>2 DEF q
    <2> QED BY <2>2, <2>4, <2>8
  <1> QED BY <1>2, <1>4, <1>5

\* The tree of one rule.
LEMMA HoldsOne ==
  ASSUME SortAssumption, NEW o \in Orders, NEW r \in Rules, NEW i \in 0 .. F,
         NEW q, Len(q) = i, NEW V, Only(V, r),
         NEW T, T = Tree(1, Rest(KeyOf(r, o), i), {Prio[r]})
  PROVE  Holds(T, V, o, q)
PROOF
  <1>1. Rest(KeyOf(r, o), i) \in Seq(Box) /\ 1 \in Nat /\ {Prio[r]} \in SUBSET Nat
    BY KeyType, KeyLen, RestType, RuleFacts
  <1>2. /\ T \in TreeType /\ T.count = 1 /\ T.chain_boxes = Rest(KeyOf(r, o), i)
        /\ T.priority_list = {Prio[r]}
    BY <1>1, TreeIs
  <1>3. V = {r}
    BY DEF Only
  <1>4. Cardinality(V) = 1 /\ ~Many(V)
    BY <1>3, FS_Singleton DEF Many
  <1>5. \A x : V = {x} => x = r
    BY <1>3
  <1>6. {Prio[x] : x \in V} = {Prio[r]}
    BY <1>3
  <1> QED BY <1>2, <1>4, <1>5, <1>6 DEF Holds

\* The tree of two rules.
LEMMA HoldsTwo ==
  ASSUME SortAssumption, NEW o \in Orders, NEW r \in Rules, NEW s \in Rules, r # s,
         NEW q, NEW V, Pair(V, r, s), NEW P \in SUBSET Nat, Len(q) = F => P = {Prio[r], Prio[s]},
         NEW T, T = Tree(2, <<>>, P)
  PROVE  Holds(T, V, o, q)
PROOF
  <1>1. T \in TreeType /\ T.count = 2 /\ T.chain_boxes = <<>> /\ T.priority_list = P
    <2>1. <<>> \in Seq(Box) /\ 2 \in Nat
      OBVIOUS
    <2> QED BY <2>1 DEF Tree, TreeType
  <1>2. Cardinality(V) = 2 /\ V = {r, s}
    <2> DEFINE A == {r}
               B == A \cup {s}
    <2>1. Cardinality(A) = 1 /\ IsFiniteSet(A) /\ s \notin A
      BY FS_Singleton
    <2>2. V = B
      BY DEF Pair
    <2> HIDE DEF A
    <2>3. Cardinality(B) = Cardinality(A) + 1
      BY <2>1, FS_AddElement
    <2> HIDE DEF B
    <2>4. Cardinality(B) = 2
      BY <2>1, <2>3
    <2>5. Cardinality(V) = 2
      BY <2>2, <2>4, Zenon
    <2> QED BY <2>5 DEF Pair
  <1>3. Many(V) /\ ~\E x : V = {x}
    BY <1>2 DEF Many
  <1>4. {Prio[x] : x \in V} = {Prio[r], Prio[s]}
    BY <1>2
  <1> QED BY <1>1, <1>2, <1>3, <1>4 DEF Holds

\* Two rules alone go on together and then apart.
LEMMA InsertApart ==
  ASSUME SortAssumption, NEW S, S \subseteq Rules, NEW o \in Orders, NEW r \in Rules, r \notin S,
         NEW t, IsTree(t, S, o), NEW k, k = KeyOf(r, o), NEW l \in 0 .. F, l # F, Busy(S, o, k, l),
         Upto(k, l) \in DOMAIN t, t[Upto(k, l)].count = 1,
         NEW u, PassedFor(u, t, S \cup {r}, o, k, l)
  PROVE  IsTree(Unzip(u, k, Prio[r], l), S \cup {r}, o)
PROOF
  <1> DEFINE W(q) == AlongIn(S, o, q)
             V(q) == AlongIn(S \cup {r}, o, q)
             at == Upto(k, l)
  <1>1. F \in Nat /\ k \in Seq(Box) /\ Len(k) = F /\ Prio[r] \in Nat
    BY RuleFacts, KeyType, KeyLen
  <1>2. Len(at) = l /\ at \in Seq(Box)
    BY <1>1, UptoType
  <1>3. DOMAIN u = DOMAIN t /\ u[at] = t[at]
    BY <1>2 DEF PassedFor
  <1>4. PICK s \in S : Only(W(at), s)
    BY CountTells
  <1> DEFINE m == KeyOf(s, o)
             n == Agreement(k, m)
  <1>5. s \in Rules /\ m \in Seq(Box) /\ Len(m) = F /\ OnWay(at, m) /\ Prio[s] \in Nat
    BY <1>4, RuleFacts, KeyType, KeyLen DEF Only, AlongIn
  <1>6. t[at].chain_boxes = Rest(m, l) /\ t[at].priority_list = {Prio[s]}
    <2>1. Holds(t[at], W(at), o, at) /\ W(at) = {s}
      BY <1>4, CountTells DEF Only
    <2>2. ~Many(W(at))
      BY <2>1 DEF Many
    <2> HIDE DEF W, at
    <2>3. t[at].chain_boxes = Rest(m, l)
      BY <1>2, <2>1 DEF Holds
    <2>4. t[at].priority_list = {Prio[x] : x \in W(at)}
      BY <2>1, <2>2 DEF Holds
    <2> QED BY <2>1, <2>3, <2>4
  <1>7. at \o t[at].chain_boxes = m
    <2>1. at = Upto(m, l)
      BY <1>2, <1>5, OnWayIs
    <2> QED BY <1>1, <1>5, <1>6, <2>1, RestType
  <1>8. GetMaxPriority(t[at]) = Prio[s]
    BY <1>5, <1>6, MaxPriority
  <1> DEFINE spine == {Upto(k, i) : i \in l .. n}
             forks == IF n < F THEN {Upto(k, n + 1), Upto(m, n + 1)} ELSE {}
             P(q) == IF q = at THEN t[at].priority_list
                     ELSE IF Len(q) = F THEN {Prio[r]} \cup t[at].priority_list ELSE {}
             New == Tree(1, Rest(k, n + 1), {Prio[r]})
             Old == Tree(1, Rest(m, n + 1), {Prio[s]})
             Made(q) == CASE q \in forks /\ OnWay(q, k) -> New
                          [] q \in forks /\ ~OnWay(q, k) -> Old
                          [] q \in spine -> Tree(2, <<>>, P(q))
                          [] OTHER -> u[q]
             h == [q \in DOMAIN u \cup spine \cup forks |-> Made(q)]
  <1>9. Unzip(u, k, Prio[r], l) = h
    BY <1>1, <1>3, <1>7, <1>8 DEF Unzip
  <1> HIDE DEF m, h
  <1>10. /\ n \in l .. F
         /\ \A i \in l .. F : (Some(W(Upto(k, i))) <=> i <= n)
    BY <1>4, <1>5, Alone DEF m
  <1>11. /\ s # r
         /\ \A i \in l .. n : Pair(V(Upto(k, i)), r, s)
         /\ n # F => Only(V(Upto(k, n + 1)), r)
         /\ n # F => Only(V(Upto(m, n + 1)), s)
    BY <1>4, <1>5, ApartAlong DEF m
  <1>12. /\ \A i \in 0 .. F : (Upto(m, i) = Upto(k, i) <=> i <= n)
         /\ \A i \in 0 .. F : (OnWay(Upto(m, i), k) <=> i <= n)
    BY <1>5, Parting DEF m
  <1> HIDE DEF n
  <1>13. ASSUME NEW i \in 0 .. F
         PROVE  /\ Upto(k, i) \in Seq(Box) /\ Len(Upto(k, i)) = i /\ OnWay(Upto(k, i), k)
                /\ Upto(k, i) = <<>> <=> i = 0
                /\ i # 0 => Before(Upto(k, i)) = Upto(k, i - 1)
                /\ Upto(m, i) \in Seq(Box) /\ Len(Upto(m, i)) = i
                /\ Upto(m, i) = <<>> <=> i = 0
                /\ i # 0 => Before(Upto(m, i)) = Upto(m, i - 1)
    <2>1. 0 \in 0 .. i
      OBVIOUS
    <2> QED BY <1>5, <2>1, UptoShorter DEF m
  \* the paths
  <1>14. ASSUME NEW q \in Paths(S \cup {r}, o), q \notin Paths(S, o)
         PROVE  q \in spine \/ q \in forks
    <2>1. /\ q \in Seq(Box) /\ Len(q) \in l + 1 .. F /\ Before(q) = Upto(k, Len(q) - 1)
          /\ Some(W(Before(q)))
          /\ ~OnWay(q, k) => Some(W(q))
      BY <1>14, NewPaths
    <2>2. Len(q) - 1 \in l .. F /\ Len(q) - 1 \in l .. n /\ Len(q) \in 0 .. F
      <3>1. Len(q) - 1 \in l .. F /\ Len(q) \in 0 .. F
        BY <1>1, <2>1
      <3>2. Len(q) - 1 <= n
        BY <1>10, <2>1, <3>1
      <3> QED BY <1>10, <3>1, <3>2
    <2>3. CASE OnWay(q, k)
      <3>1. q = Upto(k, Len(q))
        BY <2>1, <2>3, OnWayLen
      <3>2. CASE Len(q) <= n
        <4>1. Len(q) \in l .. n
          BY <1>1, <1>10, <2>1, <3>2
        <4> QED BY <3>1, <4>1
      <3>3. CASE ~(Len(q) <= n)
        <4>1. Len(q) = n + 1 /\ n < F
          BY <1>1, <1>10, <2>1, <2>2, <3>3
        <4> QED BY <3>1, <4>1
      <3> QED BY <3>2, <3>3
    <2>4. CASE ~OnWay(q, k)
      <3>1. q = Upto(m, Len(q))
        <4>1. l < Len(q) /\ Before(q) = Upto(k, Len(q) - 1) /\ Some(W(q)) /\ q \in Seq(Box)
          BY <1>1, <2>1, <2>4
        <4>2. Only(W(q), s)
          BY <1>4, <1>5, <4>1, AloneOff
        <4>3. OnWay(q, m)
          BY <4>2 DEF m, Only, AlongIn
        <4> QED BY <1>5, <4>1, <4>3, OnWayLen DEF m
      <3>2. ~(Len(q) <= n)
        BY <1>12, <2>2, <2>4, <3>1
      <3>3. Len(q) = n + 1 /\ n < F
        BY <1>1, <1>10, <2>1, <2>2, <3>2
      <3> QED BY <3>1, <3>3
    <2> QED BY <2>3, <2>4
  <1>15. ASSUME NEW i \in l .. n PROVE Upto(k, i) \in Paths(S \cup {r}, o)
    <2>1. CASE i = l
      BY <2>1, StillPaths DEF IsTree
    <2>2. CASE i # l
      <3>1. i \in 0 .. F /\ i # 0 /\ i - 1 \in l .. F /\ i - 1 <= n
        BY <1>1, <1>10, <2>2
      <3>2. Some(W(Upto(k, i - 1)))
        BY <1>10, <3>1
      <3>3. /\ Upto(k, i) \in Seq(Box) /\ OnWay(Upto(k, i), k) /\ Upto(k, i) # <<>>
            /\ Before(Upto(k, i)) = Upto(k, i - 1)
        BY <1>13, <3>1
      <3>4. W(Before(Upto(k, i))) # {}
        BY <3>2, <3>3 DEF Some
      <3> QED BY <3>3, <3>4, PathsAdd
    <2> QED BY <2>1, <2>2
  <1>16. ASSUME n < F
         PROVE  /\ Upto(k, n + 1) \in Paths(S \cup {r}, o) /\ OnWay(Upto(k, n + 1), k)
                /\ Upto(m, n + 1) \in Paths(S \cup {r}, o) /\ ~OnWay(Upto(m, n + 1), k)
                /\ Len(Upto(k, n + 1)) = n + 1 /\ Len(Upto(m, n + 1)) = n + 1
    <2> DEFINE i == n + 1
    <2>1. i \in 0 .. F /\ i # 0 /\ i - 1 = n /\ n \in 0 .. F /\ n \in l .. F /\ ~(i <= n) /\ n # F
      BY <1>1, <1>10, <1>16
    <2> HIDE DEF i
    <2>2. Upto(m, n) = Upto(k, n) /\ ~OnWay(Upto(m, i), k)
      BY <1>12, <2>1
    <2>3. /\ Upto(k, i) \in Seq(Box) /\ OnWay(Upto(k, i), k) /\ Upto(k, i) # <<>>
          /\ Before(Upto(k, i)) = Upto(k, n) /\ Len(Upto(k, i)) = i
          /\ Upto(m, i) \in Seq(Box) /\ Upto(m, i) # <<>> /\ Len(Upto(m, i)) = i
          /\ Before(Upto(m, i)) = Upto(k, n) /\ OnWay(Upto(k, n), k)
      BY <1>13, <2>1, <2>2
    <2>4. W(Upto(k, n)) # {}
      BY <1>10, <2>1 DEF Some
    <2>5. W(Upto(m, i)) # {}
      <3>1. Only(V(Upto(m, i)), s)
        BY <1>11, <2>1 DEF i
      <3>2. V(Upto(m, i)) = W(Upto(m, i))
        BY <2>2, AlongSame
      <3> HIDE DEF V, W
      <3> QED BY <3>1, <3>2 DEF Only
    <2>6. Upto(k, i) \in Paths(S \cup {r}, o)
      BY <2>3, <2>4, PathsAdd
    <2>7. Upto(m, i) \in Paths(S \cup {r}, o)
      BY <2>2, <2>3, <2>5, PathsAdd
    <2> QED BY <2>2, <2>3, <2>6, <2>7 DEF i
  <1>17. DOMAIN h = Paths(S \cup {r}, o)
    <2>1. DOMAIN h = DOMAIN t \cup spine \cup forks
      BY <1>3 DEF h
    <2>2. \A q \in forks : q \in Paths(S \cup {r}, o)
      BY <1>16
    <2>3. \A q \in spine : q \in Paths(S \cup {r}, o)
      BY <1>15
    <2>4. DOMAIN t = Paths(S, o)
      BY DEF IsTree
    <2> HIDE DEF spine, forks, h
    <2> QED BY <1>14, <2>1, <2>2, <2>3, <2>4, StillPaths
  <1>18. ASSUME NEW q \in DOMAIN h PROVE Holds(h[q], V(q), o, q)
    <2>1. q \in DOMAIN u \cup spine \cup forks /\ h[q] = Made(q)
      <3> HIDE DEF Made, spine, forks
      <3> QED BY <1>18 DEF h
    <2>2. CASE q \in forks /\ OnWay(q, k)
      <3>1. n < F /\ q = Upto(k, n + 1) /\ Len(q) = n + 1 /\ n # F /\ n + 1 \in 0 .. F
        BY <1>1, <1>10, <1>16, <2>2
      <3>4. q \notin spine
        <4>1. \A i \in l .. n : Len(Upto(k, i)) = i /\ i # n + 1
          BY <1>1, <1>10, <1>13
        <4> QED BY <3>1, <4>1
      <3>2. h[q] = New
        <4> HIDE DEF spine, forks, P, New, Old
        <4> QED BY <2>1, <2>2, <3>4
      <3>3. Only(V(q), r)
        BY <1>11, <3>1
      <3> HIDE DEF V
      <3> QED BY <3>1, <3>2, <3>3, HoldsOne
    <2>3. CASE q \in forks /\ ~OnWay(q, k)
      <3>1. n < F /\ q = Upto(m, n + 1) /\ Len(q) = n + 1 /\ n # F /\ n + 1 \in 0 .. F
        BY <1>1, <1>10, <1>16, <2>3
      <3>4. q \notin spine
        <4>1. \A i \in l .. n : Len(Upto(k, i)) = i /\ i # n + 1
          BY <1>1, <1>10, <1>13
        <4> QED BY <3>1, <4>1
      <3>2. h[q] = Old
        <4> HIDE DEF spine, forks, P, New, Old
        <4> QED BY <2>1, <2>3, <3>4
      <3>3. Only(V(q), s)
        BY <1>11, <3>1
      <3> HIDE DEF V
      <3> QED BY <1>5, <3>1, <3>2, <3>3, HoldsOne DEF m
    <2>4. CASE q \in spine /\ q \notin forks
      <3>1. PICK i \in l .. n : q = Upto(k, i)
        BY <2>4
      <3>2. h[q] = Tree(2, <<>>, P(q))
        <4> HIDE DEF spine, forks, P, New, Old
        <4> QED BY <2>1, <2>4
      <3>3. Pair(V(q), r, s) /\ r # s /\ Len(q) = i /\ i \in 0 .. F
        <4>1. i \in 0 .. F
          BY <1>1, <1>10
        <4>2. Len(q) = i
          BY <1>13, <3>1, <4>1
        <4>3. Pair(V(q), r, s)
          <5> HIDE DEF V
          <5> QED BY <1>11, <3>1
        <4> QED BY <1>11, <4>1, <4>2, <4>3
      <3>4. P(q) \in SUBSET Nat
        <4>1. t[at].priority_list \in SUBSET Nat
          BY <1>5, <1>6
        <4>2. {Prio[r]} \cup t[at].priority_list \in SUBSET Nat
          BY <1>1, <4>1
        <4>3. {} \in SUBSET Nat
          OBVIOUS
        <4> HIDE DEF at
        <4> QED BY <4>1, <4>2, <4>3
      <3>5. Len(q) = F => P(q) = {Prio[r], Prio[s]}
        BY <1>1, <1>2, <1>6, <3>1, <3>3
      <3> HIDE DEF P, V
      <3> QED BY <1>5, <3>2, <3>3, <3>4, <3>5, HoldsTwo
    <2>5. CASE q \notin forks /\ q \notin spine
      <3>1. q \in DOMAIN t /\ q \in Seq(Box) /\ q \in Paths(S, o)
        BY <1>3, <2>1, <2>5 DEF IsTree, Paths
      <3>2. h[q] = u[q]
        <4> HIDE DEF spine, forks, P, New, Old
        <4> QED BY <2>1, <2>5
      <3>3. ASSUME OnWay(q, k), ~(Len(q) < l) PROVE FALSE
        <4>1. Len(q) \in 0 .. F /\ q = Upto(k, Len(q))
          BY <3>1, <3>3, OnWayLen
        <4>2. Len(q) # l
          BY <1>10, <2>5, <4>1
        <4>3. Len(q) - 1 \in l .. F /\ Len(q) # 0
          BY <1>1, <3>3, <4>1, <4>2
        <4>4. Many(W(Upto(k, Len(q) - 1)))
          <5>1. q # <<>> /\ Before(q) = Upto(k, Len(q) - 1)
            BY <1>13, <4>1, <4>3
          <5> QED BY <3>1, <5>1, AlongSeveral DEF Before
        <4>5. Len(q) - 1 <= n
          BY <1>10, <4>3, <4>4 DEF Some, Many
        <4>6. Only(W(Upto(k, Len(q) - 1)), s)
          BY <1>4, <1>5, <4>3, <4>5, Alone DEF m, n
        <4> HIDE DEF W
        <4> QED BY <4>4, <4>6 DEF Only, Many
      <3> QED BY <3>1, <3>2, <3>3 DEF PassedFor
    <2> QED BY <2>2, <2>3, <2>4, <2>5
  <1> QED BY <1>9, <1>17, <1>18 DEF IsTree

\* The insert keeps the tree the path compression of its rules.
LEMMA InsertTree ==
  ASSUME SortAssumption, NEW S, S \subseteq Rules, NEW o \in Orders, NEW r \in Rules, r \notin S,
         NEW t, IsTree(t, S, o), NEW k, k = KeyOf(r, o)
  PROVE  IsTree(RBTreeInsert(t, k, Prio[r]), S \cup {r}, o)
PROOF
  <1> DEFINE l == Depth(t, k, 1)
             at == Upto(k, l)
             u == Passed(t, k, l, 1)
  <1>1. F \in Nat /\ k \in Seq(Box) /\ Len(k) = F
    BY RuleFacts, KeyType, KeyLen
  <1>2. /\ l \in 0 .. F /\ at \in DOMAIN t /\ Busy(S, o, k, l)
        /\ l = F \/ t[at].count <= 1 \/ ~Some(AlongIn(S, o, Upto(k, l + 1)))
    BY InsertDepth
  <1>3. /\ t[at].count \in Nat
        /\ t[at].count = 0 <=> ~Some(AlongIn(S, o, at))
        /\ t[at].count > 1 <=> Many(AlongIn(S, o, at))
    BY <1>2, CountTells
  <1>4. RBTreeInsert(t, k, Prio[r]) =
          IF l = F \/ t[at].count = 0
          THEN [u EXCEPT ![at] = Tree(@.count + 1, Rest(k, l), @.priority_list \cup {Prio[r]})]
          ELSE IF t[at].count = 1 THEN Unzip(u, k, Prio[r], l)
          ELSE AddNode(Passed(t, k, l + 1, 1), k, Prio[r], l)
    BY <1>1 DEF RBTreeInsert
  <1> HIDE DEF l
  <1>5. PassedFor(u, t, S \cup {r}, o, k, l)
    BY <1>2, PassedInsert DEF Busy
  <1>6. CASE l = F \/ t[at].count = 0
    <2> DEFINE T == Tree(u[at].count + 1, Rest(k, l), u[at].priority_list \cup {Prio[r]})
    <2>1. l = F \/ ~Some(AlongIn(S, o, at))
      BY <1>3, <1>6
    <2>2. Replaces(RBTreeInsert(t, k, Prio[r]), u, at, T)
      BY <1>4, <1>6 DEF Replaces
    <2> HIDE DEF at, u, T
    <2>3. at = Upto(k, l) /\ T = Tree(u[at].count + 1, Rest(k, l), u[at].priority_list \cup {Prio[r]})
      BY DEF at, T
    <2> QED BY <1>2, <1>5, <2>1, <2>2, <2>3, InsertLeaf
  <1>7. CASE l # F /\ t[at].count = 1
    <2>1. RBTreeInsert(t, k, Prio[r]) = Unzip(u, k, Prio[r], l)
      BY <1>4, <1>7
    <2> HIDE DEF u
    <2> QED BY <1>2, <1>5, <1>7, <2>1, InsertApart
  <1>8. CASE l # F /\ t[at].count > 1
    <2> DEFINE new == Upto(k, l + 1)
               v == Passed(t, k, l + 1, 1)
               T == Tree(1, Rest(k, l + 1), {Prio[r]})
    <2>1. l + 1 \in 0 .. F /\ ~Some(AlongIn(S, o, new)) /\ Many(AlongIn(S, o, at))
      BY <1>1, <1>2, <1>3, <1>8
    <2>2. Crowded(S, o, k, l + 1)
      BY <1>2, <2>1 DEF Busy, Crowded
    <2>3. PassedFor(v, t, S \cup {r}, o, k, l + 1)
      BY <2>1, <2>2, PassedInsert
    <2>4. Extends(RBTreeInsert(t, k, Prio[r]), v, new, T)
      BY <1>3, <1>4, <1>8 DEF AddNode, Extends
    <2> HIDE DEF v, T, new
    <2>5. new = Upto(k, l + 1) /\ T = Tree(1, Rest(k, l + 1), {Prio[r]})
      BY DEF new, T
    <2> QED BY <1>2, <1>8, <2>1, <2>3, <2>4, <2>5, InsertNode
  <1> QED BY <1>3, <1>6, <1>7, <1>8

-----------------------------------------------------------------------------
(***************************************************************************)
(* The delete: S are the rules that stay, r goes.                          *)
(***************************************************************************)
\* A node a delete passes counts one rule less, others stay.
LEMMA PassedGone ==
  ASSUME SortAssumption, NEW S, S \subseteq Rules, NEW o \in Orders, NEW r \in Rules, r \notin S,
         NEW q \in Seq(Box), NEW T, Holds(T, AlongIn(S \cup {r}, o, q), o, q)
  PROVE  /\ ~OnWay(q, KeyOf(r, o)) => Holds(T, AlongIn(S, o, q), o, q)
         /\ OnWay(q, KeyOf(r, o)) /\ Many(AlongIn(S, o, q)) /\ Len(q) < F =>
              Holds([T EXCEPT !.count = @ + (-1)], AlongIn(S, o, q), o, q)
PROOF
  <1> DEFINE k == KeyOf(r, o)
             W == AlongIn(S, o, q)
             V == AlongIn(S \cup {r}, o, q)
             U == [T EXCEPT !.count = @ + (-1)]
  <1>1. ASSUME ~OnWay(q, k) PROVE Holds(T, W, o, q)
    BY <1>1, AlongSame
  <1>2. ASSUME OnWay(q, k), Many(W), Len(q) < F PROVE Holds(U, W, o, q)
    <2>1. Cardinality(V) = Cardinality(W) + 1 /\ Many(V) /\ Cardinality(W) \in Nat
      <3>1. W # {}
        BY <1>2 DEF Many
      <3>2. Cardinality(W) \in Nat
        BY AlongFinite, FS_CardinalityType
      <3> HIDE DEF Many
      <3>3. Many(V)
        BY <1>2, <3>1, AlongMany
      <3> QED BY <1>2, <3>2, <3>3, AlongCount
    <2>2. T \in TreeType /\ T.count = Cardinality(V) /\ T.chain_boxes = <<>>
      BY <2>1 DEF Holds
    <2>3. U \in TreeType /\ U.count = Cardinality(W) /\ U.chain_boxes = <<>>
      <3> DEFINE c == Cardinality(W)
      <3>1. U = [T EXCEPT !.count = c] /\ c \in Nat
        <4> HIDE DEF W, V
        <4>1. T.count + (-1) = c /\ c \in Nat
          BY <2>1, <2>2
        <4> QED BY <4>1
      <3>2. [T EXCEPT !.count = c] \in TreeType
        <4> HIDE DEF c
        <4> QED BY <2>2, <3>1 DEF TreeType
      <3> HIDE DEF c
      <3>3. [T EXCEPT !.count = c].count = c /\ [T EXCEPT !.count = c].chain_boxes = <<>>
        BY <2>2 DEF TreeType
      <3> HIDE DEF U
      <3> QED BY <3>1, <3>2, <3>3 DEF c
    <2>4. ~(\E x : W = {x}) /\ ~(Len(q) = F)
      <3>1. Len(q) \in Nat /\ F \in Nat
        BY RuleFacts
      <3> QED BY <1>2, <3>1 DEF Many
    <2> HIDE DEF U, V, W
    <2> QED BY <1>2, <2>3, <2>4 DEF Holds
  <1> QED BY <1>1, <1>2

\* The nodes a delete passes count one rule less.
LEMMA PassedDelete ==
  ASSUME SortAssumption, NEW S, S \subseteq Rules, NEW o \in Orders, NEW r \in Rules, r \notin S,
         NEW t, IsTree(t, S \cup {r}, o), NEW l \in 0 .. F, NEW k, k = KeyOf(r, o),
         Crowded(S, o, k, l)
  PROVE  PassedFor(Passed(t, k, l, -1), t, S, o, k, l)
PROOF
  <1> DEFINE u == Passed(t, k, l, -1)
             R == S \cup {r}
  <1>1. DOMAIN u = DOMAIN t
    BY DEF Passed
  <1>2. \A q \in DOMAIN t : u[q] = IF Len(q) < l /\ OnWay(q, k) THEN [t[q] EXCEPT !.count = @ + (-1)] ELSE t[q]
    BY DEF Passed
  <1>3. ASSUME NEW q \in DOMAIN t, ~OnWay(q, k) \/ Len(q) < l
        PROVE  Holds(u[q], AlongIn(S, o, q), o, q)
    <2>1. q \in Seq(Box) /\ Holds(t[q], AlongIn(R, o, q), o, q)
      <3>1. R \subseteq Rules
        OBVIOUS
      <3> HIDE DEF R
      <3>2. IsTree(t, R, o)
        BY DEF R
      <3> QED BY <3>1, <3>2, CountTells
    <2>2. CASE ~OnWay(q, k)
      <3>1. u[q] = t[q]
        BY <1>2, <2>2
      <3> HIDE DEF u
      <3> QED BY <2>1, <2>2, <3>1, PassedGone
    <2>3. CASE OnWay(q, k)
      <3>1. Len(q) \in 0 .. F /\ q = Upto(k, Len(q)) /\ Len(q) < l
        BY <1>3, <2>1, <2>3, OnWayLen
      <3>2. Len(q) \in 0 .. l - 1 /\ Len(q) < F
        BY <3>1, RuleFacts
      <3>3. Many(AlongIn(S, o, q))
        BY <3>1, <3>2 DEF Busy, Crowded
      <3>4. u[q] = [t[q] EXCEPT !.count = @ + (-1)]
        BY <1>2, <2>3, <3>1
      <3> HIDE DEF u
      <3> QED BY <2>1, <2>3, <3>2, <3>3, <3>4, PassedGone
    <2> QED BY <2>2, <2>3
  <1> HIDE DEF u
  <1>4. \A q \in DOMAIN t : ~(Len(q) < l) => u[q] = t[q]
    BY <1>2
  <1> QED BY <1>1, <1>3, <1>4 DEF u, PassedFor

\* More than one is several.
LEMMA ManyAre ==
  ASSUME NEW A, IsFiniteSet(A), Cardinality(A) > 1
  PROVE  Many(A)
PROOF
  <1>1. Cardinality(A) \in Nat
    BY FS_CardinalityType
  <1>2. A # {}
    BY <1>1, FS_EmptySet
  <1>3. ASSUME \A x, y \in A : x = y PROVE FALSE
    <2>1. \E x : A = {x}
      BY <1>2, <1>3
    <2>2. Cardinality(A) = 1
      BY <2>1, FS_Singleton
    <2> QED BY <2>2
  <1> QED BY <1>3 DEF Many

\* As far as a delete goes down two rules or more stay.
LEMMA DeleteDepth ==
  ASSUME SortAssumption, NEW S, S \subseteq Rules, NEW o \in Orders, NEW r \in Rules, r \notin S,
         NEW t, IsTree(t, S \cup {r}, o), NEW k, k = KeyOf(r, o), NEW l, l = Depth(t, k, 2)
  PROVE  /\ l \in 0 .. F /\ Upto(k, l) \in DOMAIN t /\ Crowded(S, o, k, l)
         /\ t[Upto(k, l)].count \in Nat \ {0} /\ (l = F \/ t[Upto(k, l)].count <= 2)
         /\ t[Upto(k, l)].count = Cardinality(AlongIn(S, o, Upto(k, l))) + 1
PROOF
  <1> DEFINE R == S \cup {r}
             W(q) == AlongIn(R, o, q)
             V(q) == AlongIn(S, o, q)
  <1>1. R \subseteq Rules /\ F \in Nat /\ k \in Seq(Box) /\ Len(k) = F
    BY RuleFacts, KeyType, KeyLen
  <1>2. /\ l \in 0 .. F /\ \A i \in 0 .. l : Upto(k, i) \in DOMAIN t
        /\ l = F \/ t[Upto(k, l)].count <= 2 \/ Upto(k, l + 1) \notin DOMAIN t
        /\ \A i \in 0 .. l - 1 : t[Upto(k, i)].count > 2
    <2>1. 2 \in Nat /\ R \subseteq Rules /\ IsTree(t, R, o)
      BY <1>1
    <2> HIDE DEF R
    <2> QED BY <2>1, DepthIs
  <1>3. ASSUME NEW i \in 0 .. l
        PROVE  /\ i \in 0 .. F /\ Upto(k, i) \in DOMAIN t /\ OnWay(Upto(k, i), k)
               /\ t[Upto(k, i)].count = Cardinality(V(Upto(k, i))) + 1
               /\ IsFiniteSet(V(Upto(k, i))) /\ Cardinality(V(Upto(k, i))) \in Nat
               /\ t[Upto(k, i)].count > 1 <=> Many(W(Upto(k, i)))
    <2>1. i \in 0 .. F /\ Upto(k, i) \in DOMAIN t
      <3>1. Upto(k, i) \in DOMAIN t
        BY <1>2
      <3>2. l \in 0 .. F
        BY <1>2
      <3> QED BY <1>1, <3>1, <3>2
    <2> DEFINE q == Upto(k, i)
    <2>2. OnWay(q, k)
      BY <2>1, AlongWay
    <2>3. t[q].count = Cardinality(W(q)) /\ (t[q].count > 1 <=> Many(W(q)))
      <3>1. IsTree(t, R, o)
        OBVIOUS
      <3> HIDE DEF R, q
      <3>2. q \in DOMAIN t
        BY <2>1 DEF q
      <3>3. Holds(t[q], W(q), o, q)
        BY <1>1, <3>1, <3>2, CountTells
      <3>4. t[q].count > 1 <=> Many(W(q))
        BY <1>1, <3>1, <3>2, CountTells
      <3> HIDE DEF W
      <3> QED BY <3>3, <3>4 DEF Holds
    <2>4. Cardinality(W(q)) = Cardinality(V(q)) + 1
      BY <2>2, AlongCount
    <2>5. IsFiniteSet(V(q)) /\ Cardinality(V(q)) \in Nat
      BY AlongFinite, FS_CardinalityType
    <2> HIDE DEF W, V
    <2> QED BY <2>1, <2>2, <2>3, <2>4, <2>5
  <1>4. ASSUME NEW i \in 0 .. l - 1 PROVE Many(V(Upto(k, i)))
    <2>1. i \in 0 .. l /\ t[Upto(k, i)].count > 2
      BY <1>2
    <2>2. IsFiniteSet(V(Upto(k, i))) /\ Cardinality(V(Upto(k, i))) > 1
      <3> HIDE DEF V, W
      <3> QED BY <1>3, <2>1
    <2> QED BY <2>2, ManyAre
  <1>5. l \in 0 .. l
    BY <1>2
  <1>6. ASSUME l # F, ~(t[Upto(k, l)].count <= 2) PROVE FALSE
    <2> DEFINE i == l + 1
               q == Upto(k, i)
    <2>1. t[Upto(k, l)].count > 1
      <3> HIDE DEF V, W
      <3> QED BY <1>3, <1>5, <1>6
    <2>2. Many(W(Upto(k, l)))
      <3> HIDE DEF V, W
      <3> QED BY <1>3, <1>5, <2>1
    <2>3. i \in 0 .. F /\ i # 0 /\ i - 1 = l
      BY <1>1, <1>2, <1>6
    <2>4. q \in Seq(Box) /\ Len(q) = i /\ OnWay(q, k) /\ q # <<>> /\ Before(q) = Upto(k, l)
      <3> HIDE DEF i
      <3>1. 0 \in 0 .. i
        BY <2>3
      <3> QED BY <2>3, <3>1, UptoShorter
    <2>5. q \in Paths(R, o)
      <3>1. W(q) # {}
        BY <2>4 DEF AlongIn
      <3> QED BY <2>2, <2>4, <3>1 DEF Paths, Before
    <2>6. DOMAIN t = Paths(R, o)
      BY DEF IsTree
    <2> QED BY <1>2, <1>6, <2>5, <2>6
  <1> QED BY <1>2, <1>3, <1>4, <1>5, <1>6 DEF Crowded

\* A chain that is cut, and joined again.
LEMMA RestSplit ==
  ASSUME NEW m \in Seq(Box), NEW i \in 0 .. Len(m), NEW l \in 0 .. i
  PROVE  Rest(Upto(m, i), l) \o Rest(m, i) = Rest(m, l)
PROOF
  <1> DEFINE u == Upto(m, i)
             a == Rest(u, l)
             b == Rest(m, i)
             c == Rest(m, l)
  <1>1. u \in Seq(Box) /\ Len(u) = i /\ \A j \in 1 .. i : u[j] = m[j]
    BY UptoType
  <1>2. l \in 0 .. Len(m) /\ l \in 0 .. Len(u) /\ Len(m) \in Nat /\ i \in Nat /\ l \in Nat
    BY <1>1
  <1> HIDE DEF u
  <1>3. a \in Seq(Box) /\ Len(a) = i - l /\ \A j \in 1 .. i - l : a[j] = u[l + j]
    BY <1>1, <1>2, RestType
  <1>4. b \in Seq(Box) /\ Len(b) = Len(m) - i /\ \A j \in 1 .. Len(m) - i : b[j] = m[i + j]
    BY RestType
  <1>5. c \in Seq(Box) /\ Len(c) = Len(m) - l /\ \A j \in 1 .. Len(m) - l : c[j] = m[l + j]
    BY <1>2, RestType
  <1> HIDE DEF a, b, c
  <1> DEFINE d == a \o b
  <1>6. /\ d \in Seq(Box) /\ Len(d) = Len(a) + Len(b)
        /\ \A j \in 1 .. Len(a) + Len(b) : d[j] = IF j <= Len(a) THEN a[j] ELSE b[j - Len(a)]
    BY <1>3, <1>4, ConcatProperties
  <1> HIDE DEF d
  <1>10. i - l \in Nat /\ Len(m) - i \in Nat /\ Len(m) - l \in Nat /\ (i - l) + (Len(m) - i) = Len(m) - l
    BY <1>1, <1>2
  <1>7. ASSUME NEW j \in 1 .. Len(m) - l PROVE d[j] = c[j]
    <2>1. j \in 1 .. Len(a) + Len(b) /\ c[j] = m[l + j]
      BY <1>3, <1>4, <1>5, <1>10
    <2>2. CASE j <= i - l
      <3>1. d[j] = a[j] /\ j \in 1 .. i - l /\ l + j \in 1 .. i
        BY <1>2, <1>3, <1>6, <2>1, <2>2
      <3> QED BY <1>1, <1>3, <2>1, <3>1
    <2>3. CASE ~(j <= i - l)
      <3> DEFINE e == j - (i - l)
      <3>1. d[j] = b[e] /\ e \in 1 .. Len(m) - i /\ i + e = l + j
        BY <1>2, <1>3, <1>6, <2>1, <2>3
      <3> HIDE DEF e
      <3> QED BY <1>4, <2>1, <3>1
    <2> QED BY <2>2, <2>3
  <1>8. Len(d) = Len(m) - l /\ Len(c) = Len(m) - l
    BY <1>3, <1>4, <1>5, <1>6, <1>10
  <1>9. d = c
    BY <1>5, <1>6, <1>7, <1>8, SeqEqual
  <1> QED BY <1>9 DEF d, a, b, c, u

\* The rule was the only one of its tree.
LEMMA GoneAlone ==
  ASSUME SortAssumption, NEW S, S \subseteq Rules, NEW o \in Orders, NEW r \in Rules, r \notin S,
         NEW k, k = KeyOf(r, o), NEW l \in 0 .. F, l # 0, NEW at, at = Upto(k, l),
         Crowded(S, o, k, l), ~Some(AlongIn(S, o, at))
  PROVE  Paths(S, o) = Paths(S \cup {r}, o) \ {at}
PROOF
  <1> DEFINE j == l - 1
  <1>1. F \in Nat /\ k \in Seq(Box) /\ Len(k) = F /\ j \in 0 .. F /\ j \in 0 .. l - 1 /\ l \in Nat
    BY RuleFacts, KeyType, KeyLen
  <1>2. Busy(S, o, k, j)
    <2>1. \A i \in 0 .. l - 1 : Many(AlongIn(S, o, Upto(k, i)))
      BY DEF Crowded
    <2>2. \A i \in 0 .. j - 1 : Many(AlongIn(S, o, Upto(k, i)))
      BY <1>1, <2>1
    <2>3. \A i \in 1 .. j : Some(AlongIn(S, o, Upto(k, i)))
      <3>1. ASSUME NEW i \in 1 .. j PROVE Some(AlongIn(S, o, Upto(k, i)))
        <4>1. i \in 0 .. l - 1
          BY <1>1
        <4>2. Many(AlongIn(S, o, Upto(k, i)))
          BY <2>1, <4>1
        <4> QED BY <4>2 DEF Many, Some
      <3> QED BY <3>1
    <2> QED BY <2>2, <2>3 DEF Busy, Crowded
  <1>3. ASSUME NEW q \in Paths(S \cup {r}, o), q \notin Paths(S, o) PROVE q = at
    <2>1. /\ q \in Seq(Box) /\ q # <<>> /\ Len(q) \in j + 1 .. F
          /\ Before(q) = Upto(k, Len(q) - 1) /\ Some(AlongIn(S, o, Before(q)))
          /\ ~OnWay(q, k) => Some(AlongIn(S, o, q)) /\ ~Many(AlongIn(S, o, Before(q)))
      <3> HIDE DEF j
      <3> QED BY <1>1, <1>2, <1>3, NewPaths
    <2>2. Len(q) = l
      <3>1. CASE Len(q) - 1 >= l
        <4> DEFINE i == Len(q) - 1
        <4>1. i \in 0 .. F /\ l \in 0 .. i /\ Before(q) = Upto(k, i) /\ Len(q) \in Nat
          BY <1>1, <2>1, <3>1
        <4> HIDE DEF i
        <4>2. Upto(k, i) \in Seq(Box) /\ l \in 0 .. Len(Upto(k, i)) /\ Upto(Upto(k, i), l) = at
          BY <4>1, UptoShorter
        <4>3. Some(AlongIn(S, o, at))
          BY <2>1, <4>1, <4>2, SomeShorter
        <4> QED BY <4>3
      <3>2. CASE ~(Len(q) - 1 >= l)
        BY <1>1, <2>1, <3>2
      <3> QED BY <3>1, <3>2
    <2>3. OnWay(q, k)
      <3>1. Before(q) = Upto(k, j)
        BY <2>1, <2>2
      <3>2. Many(AlongIn(S, o, Upto(k, j)))
        BY <1>1 DEF Crowded
      <3> QED BY <2>1, <3>1, <3>2
    <2> QED BY <2>1, <2>2, <2>3, OnWayLen
  <1>4. at \notin Paths(S, o)
    <2>1. at # <<>>
      BY <1>1, UptoType
    <2> QED BY <2>1 DEF Paths, Some
  <1> QED BY <1>3, <1>4, StillPaths

\* Below a tree of two rules, one of them going, there are only their own trees.
LEMMA BelowTwo ==
  ASSUME SortAssumption, NEW S, S \subseteq Rules, NEW o \in Orders, NEW r \in Rules, r \notin S,
         NEW s \in Rules, NEW k, k = KeyOf(r, o), NEW m, m = KeyOf(s, o), NEW n, n = Agreement(k, m),
         NEW l \in 0 .. F, Only(AlongIn(S, o, Upto(k, l)), s), Crowded(S, o, k, l),
         NEW q \in Paths(S \cup {r}, o)
  PROVE  /\ q \notin Paths(S, o) <=> OnWay(Upto(k, l), q) /\ q # Upto(k, l)
         /\ q \notin Paths(S, o) =>
              /\ q \in Seq(Box) /\ Len(q) \in l + 1 .. F /\ Len(q) <= n + 1
              /\ q = Upto(k, Len(q)) \/ q = Upto(m, Len(q))
PROOF
  <1> DEFINE V(p) == AlongIn(S, o, p)
             at == Upto(k, l)
  <1>1. F \in Nat /\ k \in Seq(Box) /\ Len(k) = F /\ l \in Nat /\ l \in 0 .. l
    BY RuleFacts, KeyType, KeyLen
  <1>2. Len(at) = l /\ at \in Seq(Box)
    BY <1>1, UptoType
  <1>3. Busy(S, o, k, l)
    <2>1. \A i \in 0 .. l - 1 : Many(AlongIn(S, o, Upto(k, i)))
      BY DEF Crowded
    <2>2. ASSUME NEW i \in 1 .. l PROVE Some(AlongIn(S, o, Upto(k, i)))
      <3>1. CASE i = l
        BY <3>1 DEF Only, Some
      <3>2. CASE i # l
        <4>1. i \in 0 .. l - 1
          BY <1>1, <3>2
        <4>2. Many(AlongIn(S, o, Upto(k, i)))
          BY <2>1, <4>1
        <4> QED BY <4>2 DEF Many, Some
      <3> QED BY <3>1, <3>2
    <2> QED BY <2>2 DEF Busy
  <1>4. ASSUME q \notin Paths(S, o)
        PROVE  /\ q \in Seq(Box) /\ Len(q) \in l + 1 .. F /\ Len(q) <= n + 1
               /\ q = Upto(k, Len(q)) \/ q = Upto(m, Len(q))
               /\ OnWay(at, q) /\ q # at
    <2>1. /\ q \in Seq(Box) /\ q # <<>> /\ Len(q) \in l + 1 .. F
          /\ Before(q) = Upto(k, Len(q) - 1) /\ Some(V(Before(q)))
          /\ ~OnWay(q, k) => Some(V(q))
      BY <1>3, <1>4, NewPaths
    <2> DEFINE i == Len(q) - 1
    <2>2. i \in l .. F /\ i \in 0 .. F /\ Len(q) \in Nat /\ l \in 0 .. i
      BY <1>1, <2>1
    <2>3. Before(q) = Upto(k, i)
      BY <2>1
    <2>4. i <= n
      <3> HIDE DEF i
      <3> QED BY <2>1, <2>2, <2>3, Alone
    <2>5. Upto(q, l) = at
      <3>1. Upto(Before(q), l) = at
        <4> HIDE DEF i
        <4> QED BY <2>2, <2>3, UptoShorter
      <3>2. i \in 0 .. Len(q) /\ Before(q) = Upto(q, i)
        BY <2>2 DEF Before
      <3> HIDE DEF i
      <3> QED BY <2>1, <2>2, <3>1, <3>2, UptoType
    <2>6. OnWay(at, q) /\ q # at
      BY <1>1, <1>2, <2>1, <2>2, <2>5 DEF OnWay
    <2>7. q = Upto(k, Len(q)) \/ q = Upto(m, Len(q))
      <3>1. CASE OnWay(q, k)
        BY <2>1, <3>1, OnWayLen
      <3>2. CASE ~OnWay(q, k)
        <4>1. l < Len(q)
          BY <1>1, <2>1
        <4>2. Some(AlongIn(S, o, q)) /\ Before(q) = Upto(k, Len(q) - 1) /\ q \in Seq(Box)
          BY <2>1, <3>2
        <4>3. Only(V(q), s)
          BY <4>1, <4>2, AloneOff
        <4>4. OnWay(q, m)
          BY <4>3 DEF Only, AlongIn
        <4> QED BY <4>2, <4>4, OnWayLen
      <3> QED BY <3>1, <3>2
    <2>8. n \in 0 .. F
      BY Parting
    <2>9. Len(q) <= n + 1
      BY <2>2, <2>4, <2>8
    <2> QED BY <2>1, <2>6, <2>7, <2>9
  <1>5. ASSUME q \in Paths(S, o), OnWay(at, q), q # at PROVE FALSE
    <2>1. q \in Seq(Box) /\ Len(q) \in Nat
      BY DEF Paths
    <2>2. l <= Len(q) /\ at = Upto(q, l)
      BY <1>2, <1>5 DEF OnWay
    <2>3. l # Len(q)
      <3>1. Upto(q, Len(q)) = q /\ Len(q) \in 0 .. Len(q)
        BY <2>1, UptoType
      <3> QED BY <1>5, <2>2, <3>1
    <2>4. q # <<>> /\ Len(q) - 1 \in 0 .. Len(q) /\ l \in 0 .. Len(q) - 1
      BY <1>1, <2>1, <2>2, <2>3
    <2>5. Many(V(Before(q)))
      BY <1>5, <2>4 DEF Paths, Before
    <2>6. Upto(Before(q), l) = at /\ Before(q) \in Seq(Box) /\ Len(Before(q)) = Len(q) - 1
      BY <2>1, <2>2, <2>4, UptoType DEF Before
    <2>7. V(Before(q)) \subseteq V(at)
      <3> HIDE DEF V, at
      <3>1. l \in 0 .. Len(Before(q))
        BY <2>4, <2>6
      <3>2. AlongIn(S, o, Before(q)) \subseteq AlongIn(S, o, Upto(Before(q), l))
        BY <2>6, <3>1, AlongShorter
      <3> QED BY <2>6, <3>2 DEF V
    <2> HIDE DEF V
    <2>8. \A x, y \in V(at) : x = y
      BY DEF Only, V
    <2> QED BY <2>5, <2>7, <2>8 DEF Many
  <1> QED BY <1>4, <1>5

\* Where the ways of two rules fork there is a tree for each.
Fork(n) == IF n < F THEN n + 1 ELSE F
Forked(S, o, r, k, m, n, l, at, j) ==
  /\ n \in l .. F /\ j \in 0 .. F /\ l < j
  /\ Upto(k, j) \in Paths(S \cup {r}, o) /\ Upto(m, j) \in Paths(S \cup {r}, o)
  /\ Len(Upto(k, j)) = j /\ Len(Upto(m, j)) = j
  /\ OnWay(at, Upto(k, j)) /\ OnWay(at, Upto(m, j))
  /\ Upto(k, j) # at /\ Upto(m, j) # at
  /\ OnWay(Upto(k, j), k) /\ (OnWay(Upto(m, j), k) <=> n = F)
  /\ n = F => Upto(k, j) = k /\ m = k

\* Below a node that gets a single rule again lies a spine, and the forks at its end.
LEMMA ForkPaths ==
  ASSUME SortAssumption, NEW S, S \subseteq Rules, NEW o \in Orders, NEW r \in Rules, r \notin S,
         NEW s \in Rules, NEW k, k = KeyOf(r, o), NEW m, m = KeyOf(s, o), NEW n, n = Agreement(k, m),
         NEW l \in 0 .. F, l # F, NEW at, at = Upto(k, l), Only(AlongIn(S, o, at), s),
         NEW j, j = Fork(n)
  PROVE  Forked(S, o, r, k, m, n, l, at, j)
PROOF
  <1> DEFINE W(q) == AlongIn(S, o, q)
             A == Upto(k, j)
             B == Upto(m, j)
  <1>1. /\ F \in Nat /\ k \in Seq(Box) /\ Len(k) = F /\ l \in Nat
        /\ m \in Seq(Box) /\ Len(m) = F /\ s \in S
    <2>1. s \in S
      BY DEF Only, AlongIn
    <2> QED BY <2>1, RuleFacts, KeyType, KeyLen
  <1>2. /\ n \in l .. F
        /\ \A i \in l .. F : (Some(W(Upto(k, i))) <=> i <= n)
    BY Alone
  <1>3. /\ \A i \in 0 .. F : (Upto(m, i) = Upto(k, i) <=> i <= n)
        /\ \A i \in 0 .. F : (OnWay(Upto(m, i), k) <=> i <= n)
    BY Parting
  <1> HIDE DEF W
  <1> DEFINE i == j - 1
  <1>4. /\ j \in 0 .. F /\ l < j /\ j # 0 /\ i \in l .. F /\ i <= n /\ l \in 0 .. j
        /\ (j <= n <=> n = F)
        /\ i \in 0 .. F /\ i = j - 1
    BY <1>1, <1>2 DEF Fork
  <1> HIDE DEF i
  <1>5. /\ A \in Seq(Box) /\ Len(A) = j /\ OnWay(A, k) /\ A # <<>> /\ Before(A) = Upto(k, i)
        /\ Upto(A, l) = at
    BY <1>4, UptoShorter
  <1>6. /\ B \in Seq(Box) /\ Len(B) = j /\ B # <<>> /\ Before(B) = Upto(m, i)
        /\ Upto(B, l) = Upto(m, l)
    BY <1>4, UptoShorter
  <1>7. Upto(m, i) = Upto(k, i) /\ Upto(m, l) = at /\ (OnWay(B, k) <=> n = F)
    <2>1. l <= n /\ (j <= n <=> n = F)
      BY <1>1, <1>2, <1>4
    <2> QED BY <1>3, <1>4, <2>1
  <1>8. Len(at) = l
    BY <1>1, UptoType
  <1>9. OnWay(at, A) /\ OnWay(at, B) /\ A # at /\ B # at
    BY <1>4, <1>5, <1>6, <1>7, <1>8 DEF OnWay
  <1>10. W(Upto(k, i)) # {}
    BY <1>2, <1>4 DEF Some
  <1>11. A \in Paths(S \cup {r}, o)
    BY <1>5, <1>10, PathsAdd DEF W
  <1>12. B \in Paths(S \cup {r}, o)
    <2>1. CASE n = F
      <3>1. B = A
        BY <1>3, <1>4, <2>1
      <3> QED BY <1>11, <3>1
    <2>2. CASE n # F
      <3>1. ~OnWay(B, k) /\ OnWay(Before(B), k)
        <4>1. OnWay(Upto(k, i), k)
          <5>1. 0 \in 0 .. i
            BY <1>4
          <5> QED BY <1>4, <5>1, UptoShorter
        <4> QED BY <1>6, <1>7, <2>2, <4>1
      <3>2. W(B) # {}
        <4>1. OnWay(B, m)
          BY <1>4, UptoShorter
        <4> QED BY <1>1, <4>1 DEF W, AlongIn
      <3> QED BY <1>6, <3>1, <3>2, PathsAdd DEF W
    <2> QED BY <2>1, <2>2
  <1>13. n = F => Upto(k, j) = k /\ m = k
    <2>1. ASSUME n = F PROVE Upto(k, j) = k /\ m = k
      <3>1. j = F /\ Upto(k, F) = k /\ Upto(m, F) = m
        BY <1>1, <1>2, <1>4, <2>1, UptoType DEF Fork
      <3>2. Upto(m, F) = Upto(k, F)
        BY <1>3, <1>1, <2>1
      <3> QED BY <3>1, <3>2
    <2> QED BY <2>1
  <1> QED BY <1>2, <1>4, <1>5, <1>6, <1>7, <1>9, <1>11, <1>12, <1>13 DEF Forked

\* The ends below a tree of two rules.
LEMMA EndsAre ==
  ASSUME SortAssumption, NEW S, S \subseteq Rules, NEW o \in Orders, NEW r \in Rules, r \notin S,
         NEW s \in Rules, NEW k, k = KeyOf(r, o), NEW m, m = KeyOf(s, o), NEW n, n = Agreement(k, m),
         NEW l \in 0 .. F, l # F, NEW at, at = Upto(k, l), Only(AlongIn(S, o, at), s),
         Crowded(S, o, k, l), NEW j, j = Fork(n),
         NEW t, IsTree(t, S \cup {r}, o), NEW u, PassedFor(u, t, S, o, k, l), NEW q
  PROVE  q \in Ends(u, at, k) <=> q = Upto(k, j) \/ q = Upto(m, j)
PROOF
  <1> DEFINE R == S \cup {r}
             A == Upto(k, j)
             B == Upto(m, j)
  <1>1. F \in Nat /\ k \in Seq(Box) /\ Len(k) = F /\ l \in Nat /\ R \subseteq Rules /\ IsTree(t, R, o)
    BY RuleFacts, KeyType, KeyLen
  <1>2. /\ n \in l .. F /\ j \in 0 .. F /\ l < j
        /\ A \in Paths(R, o) /\ B \in Paths(R, o) /\ Len(A) = j /\ Len(B) = j
        /\ OnWay(at, A) /\ OnWay(at, B) /\ A # at /\ B # at
    <2>1. Forked(S, o, r, k, m, n, l, at, j)
      BY ForkPaths
    <2> QED BY <2>1 DEF Forked
  <1>3. DOMAIN t = Paths(R, o) /\ DOMAIN u = DOMAIN t
    BY DEF IsTree, PassedFor
  <1>4. /\ \A i \in l .. n : Pair(AlongIn(R, o, Upto(k, i)), r, s)
        /\ n # F => Only(AlongIn(R, o, A), r)
        /\ n # F => Only(AlongIn(R, o, B), s)
        /\ s # r /\ s \in S
    <2>1. n # F => j = n + 1
      BY <1>1, <1>2 DEF Fork
    <2>2. Only(AlongIn(S, o, Upto(k, l)), s)
      OBVIOUS
    <2>3. /\ \A i \in l .. n : Pair(AlongIn(R, o, Upto(k, i)), r, s)
          /\ n # F => Only(AlongIn(R, o, Upto(k, n + 1)), r)
          /\ n # F => Only(AlongIn(R, o, Upto(m, n + 1)), s)
          /\ s # r /\ s \in S
      BY <2>2, ApartAlong
    <2> QED BY <2>1, <2>3
  <1>5. \A i \in 0 .. F : (Upto(m, i) = Upto(k, i) <=> i <= n)
    BY Parting
  <1> HIDE DEF R
  <1>6. \A p \in DOMAIN t : ~(Len(p) < l) => u[p] = t[p]
    BY DEF PassedFor
  <1>7. ASSUME q \in Ends(u, at, k) PROVE q = A \/ q = B
    <2>1. q \in DOMAIN t /\ OnWay(at, q) /\ q # at /\ (u[q].count = 1 \/ Len(q) = F)
      BY <1>1, <1>3, <1>7 DEF Ends, Below
    <2>2. /\ Len(q) \in l + 1 .. F /\ Len(q) <= n + 1
          /\ q = Upto(k, Len(q)) \/ q = Upto(m, Len(q))
      BY <1>3, <2>1, BelowTwo DEF R
    <2>3. CASE Len(q) <= n
      <3>1. Len(q) \in l .. n /\ Len(q) \in 0 .. F /\ ~(Len(q) < l)
        BY <1>1, <1>2, <2>2, <2>3
      <3>2. q = Upto(k, Len(q))
        BY <1>5, <2>2, <2>3, <3>1
      <3>3. Pair(AlongIn(R, o, q), r, s)
        BY <1>4, <3>1, <3>2
      <3>4. Many(AlongIn(R, o, q))
        BY <1>4, <3>3 DEF Pair, Many
      <3>5. t[q].count # 1
        <4>1. t[q].count > 1 <=> Many(AlongIn(R, o, q))
          BY <1>1, <2>1, CountTells
        <4> QED BY <3>4, <4>1
      <3>6. Len(q) = F
        BY <1>6, <2>1, <3>1, <3>5
      <3>7. j = F
        BY <1>1, <1>2, <2>3, <3>6 DEF Fork
      <3> QED BY <3>2, <3>6, <3>7
    <2>4. CASE ~(Len(q) <= n)
      <3>1. Len(q) = j
        BY <1>1, <1>2, <2>2, <2>4 DEF Fork
      <3> QED BY <2>2, <3>1
    <2> QED BY <2>3, <2>4
  <1>8. ASSUME NEW p \in {A, B} PROVE p \in Ends(u, at, k)
    <2>1. p \in DOMAIN t /\ Len(p) = j /\ OnWay(at, p) /\ p # at /\ ~(Len(p) < l)
      BY <1>2, <1>3, <1>8
    <2>2. u[p] = t[p]
      BY <1>6, <2>1
    <2>3. n # F => t[p].count = 1
      <3>1. ASSUME n # F PROVE t[p].count = 1
        <4>1. \E x \in R : Only(AlongIn(R, o, p), x)
          BY <1>4, <1>8, <3>1 DEF R
        <4>2. t[p].count = 1 <=> \E x \in R : Only(AlongIn(R, o, p), x)
          BY <1>1, <2>1, CountTells
        <4> QED BY <4>1, <4>2
      <3> QED BY <3>1
    <2>4. n = F => Len(p) = F
      BY <1>1, <1>2, <2>1 DEF Fork
    <2> QED BY <1>1, <1>3, <2>1, <2>2, <2>3, <2>4 DEF Ends, Below
  <1> QED BY <1>7, <1>8

\* The end a delete collapses to is that of the rule that stays.
LEMMA LastIs ==
  ASSUME SortAssumption, NEW S, S \subseteq Rules, NEW o \in Orders, NEW r \in Rules, r \notin S,
         NEW s \in Rules, NEW k, k = KeyOf(r, o), NEW m, m = KeyOf(s, o), NEW n, n = Agreement(k, m),
         NEW l \in 0 .. F, l # F, NEW at, at = Upto(k, l), Only(AlongIn(S, o, at), s),
         Crowded(S, o, k, l), NEW j, j = Fork(n),
         NEW t, IsTree(t, S \cup {r}, o), NEW u, PassedFor(u, t, S, o, k, l)
  PROVE  (CHOOSE q \in Ends(u, at, k) : OnWay(q, k) => Ends(u, at, k) = {q}) = Upto(m, j)
PROOF
  <1> DEFINE E == Ends(u, at, k)
             A == Upto(k, j)
             B == Upto(m, j)
  <1>1. \A q : (q \in E <=> q = A \/ q = B)
    BY EndsAre
  <1>2. OnWay(A, k) /\ (OnWay(B, k) <=> n = F) /\ (n = F => A = B)
    <2>1. Forked(S, o, r, k, m, n, l, at, j)
      BY ForkPaths
    <2> QED BY <2>1 DEF Forked
  <1> HIDE DEF E, A, B
  <1>3. B \in E /\ (OnWay(B, k) => E = {B})
    BY <1>1, <1>2
  <1>4. ASSUME NEW q \in E, OnWay(q, k) => E = {q} PROVE q = B
    BY <1>1, <1>2, <1>4
  <1> QED BY <1>3, <1>4 DEF E, B

\* T is where the way of a rule of key m and priority p ends, which went on from
\* level l to q; gone is the priority of the one that goes
Left(T, q, m, l, p, gone) ==
  /\ Rest(q, l) \o T.chain_boxes = Rest(m, l)
  /\ (IF T.count = 2 THEN T.priority_list \ {gone} ELSE T.priority_list) = {p}

\* What is left at the end of the other rule's way is the rest of its key, and it.
LEMMA LeftIs ==
  ASSUME SortAssumption, NEW S, S \subseteq Rules, NEW o \in Orders, NEW r \in Rules, r \notin S,
         NEW s \in Rules, NEW k, k = KeyOf(r, o), NEW m, m = KeyOf(s, o), NEW n, n = Agreement(k, m),
         NEW l \in 0 .. F, l # F, NEW at, at = Upto(k, l), Only(AlongIn(S, o, at), s),
         NEW j, j = Fork(n), NEW t, IsTree(t, S \cup {r}, o), NEW T, T = t[Upto(m, j)]
  PROVE  Left(T, Upto(m, j), m, l, Prio[s], Prio[r])
PROOF
  <1> USE DEF Left
  <1> DEFINE R == S \cup {r}
             B == Upto(m, j)
             V == AlongIn(R, o, B)
  <1>1. /\ F \in Nat /\ m \in Seq(Box) /\ Len(m) = F /\ l \in Nat /\ R \subseteq Rules
        /\ IsTree(t, R, o) /\ Prio[r] # Prio[s]
    <2>1. s # r
      BY DEF Only, AlongIn
    <2> QED BY <2>1, RuleFacts, KeyType, KeyLen
  <1>2. n \in l .. F /\ j \in 0 .. F /\ l < j /\ B \in Paths(R, o) /\ Len(B) = j
        /\ (n = F => m = k)
    <2>1. Forked(S, o, r, k, m, n, l, at, j)
      BY ForkPaths
    <2> QED BY <2>1 DEF Forked
  <1>3. l \in 0 .. j /\ j \in 0 .. Len(m)
    BY <1>1, <1>2
  <1>4. B \in DOMAIN t
    BY <1>2 DEF IsTree
  <1>5. Rest(B, l) \o Rest(m, j) = Rest(m, l)
    BY <1>1, <1>3, RestSplit
  <1> HIDE DEF R
  <1>6. Holds(T, V, o, B)
    BY <1>1, <1>4, CountTells
  <1>7. CASE n # F
    <2>1. Only(AlongIn(R, o, Upto(m, n + 1)), s)
      <3>1. Only(AlongIn(S, o, Upto(k, l)), s)
        OBVIOUS
      <3> QED BY <1>7, <3>1, ApartAlong DEF R
    <2>2. V = {s} /\ ~Many(V) /\ Cardinality(V) = 1
      <3>1. j = n + 1
        BY <1>1, <1>2, <1>7 DEF Fork
      <3>2. V = {s}
        BY <2>1, <3>1 DEF Only
      <3> HIDE DEF V
      <3>3. Cardinality(V) = 1
        BY <3>2, FS_Singleton
      <3> QED BY <3>2, <3>3 DEF Many
    <2> HIDE DEF V
    <2>3. T.chain_boxes = Rest(m, j) /\ T.count = 1
      BY <1>2, <1>6, <2>2 DEF Holds
    <2>4. T.priority_list = {Prio[x] : x \in V}
      BY <1>6, <2>2 DEF Holds
    <2>5. T.priority_list = {Prio[s]}
      BY <2>2, <2>4
    <2> QED BY <1>5, <2>3, <2>5
  <1>8. CASE n = F
    <2>1. Pair(AlongIn(R, o, Upto(k, n)), r, s)
      <3>1. Only(AlongIn(S, o, Upto(k, l)), s) /\ n \in l .. n
        BY <1>2
      <3> QED BY <3>1, ApartAlong DEF R
    <2>2. Pair(V, r, s) /\ Len(B) = F /\ j = F
      <3>1. j = n /\ m = k
        BY <1>1, <1>2, <1>8 DEF Fork
      <3> QED BY <1>2, <1>8, <2>1, <3>1
    <2>3. V = {r, s} /\ r # s /\ Many(V)
      BY <1>1, <2>2 DEF Pair, Many
    <2>4. Cardinality(V) = 2
      <3> DEFINE X == {r}
                 Y == X \cup {s}
      <3>1. Cardinality(X) = 1 /\ IsFiniteSet(X) /\ s \notin X
        BY <2>3, FS_Singleton
      <3>2. V = Y
        BY <2>3
      <3> HIDE DEF X
      <3>3. Cardinality(Y) = Cardinality(X) + 1
        BY <3>1, FS_AddElement
      <3> HIDE DEF Y
      <3>4. Cardinality(Y) = 2
        BY <3>1, <3>3
      <3> QED BY <3>2, <3>4, Zenon
    <2>5. T.count = 2 /\ T.chain_boxes = <<>> /\ T.priority_list = {Prio[x] : x \in V}
      <3> HIDE DEF V
      <3> QED BY <1>6, <2>2, <2>3, <2>4 DEF Holds
    <2>6. T.priority_list \ {Prio[r]} = {Prio[s]}
      BY <1>1, <2>3, <2>5
    <2>7. Rest(m, j) = <<>>
      BY <1>1, <2>2, RestType
    <2> QED BY <1>5, <2>5, <2>6, <2>7
  <1> QED BY <1>7, <1>8

\* The last rule of the root goes: the tree is empty.
LEMMA EmptyTree ==
  ASSUME SortAssumption, NEW o \in Orders
  PROVE  IsTree(RBTreeCreate, {}, o)
PROOF
  <1> DEFINE T == Tree(0, <<>>, {})
  <1>1. \A q : AlongIn({}, o, q) = {}
    BY DEF AlongIn
  <1>2. Paths({}, o) = {<<>>}
    <2>1. <<>> \in Seq(Box)
      OBVIOUS
    <2> QED BY <1>1, <2>1 DEF Paths
  <1>3. T \in TreeType /\ T.count = 0 /\ T.chain_boxes = <<>> /\ T.priority_list = {}
    <2>1. <<>> \in Seq(Box) /\ 0 \in Nat /\ {} \in SUBSET Nat
      OBVIOUS
    <2> QED BY <2>1 DEF Tree, TreeType
  <1>4. Cardinality({}) = 0
    BY FS_EmptySet
  <1>5. \A q : Holds(T, {}, o, q)
    <2> HIDE DEF T
    <2> QED BY <1>3, <1>4 DEF Holds, Many
  <1> HIDE DEF T
  <1>6. RBTreeCreate = [q \in {<<>>} |-> T]
    BY DEF RBTreeCreate, T
  <1>7. DOMAIN RBTreeCreate = {<<>>} /\ \A q \in {<<>>} : RBTreeCreate[q] = T
    BY <1>6
  <1> QED BY <1>1, <1>2, <1>5, <1>7 DEF IsTree

\* The last rule of another tree goes, and the tree.
LEMMA DeleteAlone ==
  ASSUME SortAssumption, NEW S, S \subseteq Rules, NEW o \in Orders, NEW r \in Rules, r \notin S,
         NEW t, IsTree(t, S \cup {r}, o), NEW k, k = KeyOf(r, o), NEW l \in 0 .. F, l # 0,
         NEW at, at = Upto(k, l), Crowded(S, o, k, l), ~Some(AlongIn(S, o, at)),
         NEW u, PassedFor(u, t, S, o, k, l)
  PROVE  IsTree(Without(u, {at}), S, o)
PROOF
  <1> DEFINE h == Without(u, {at})
  <1>1. Paths(S, o) = Paths(S \cup {r}, o) \ {at}
    BY GoneAlone
  <1>2. DOMAIN t = Paths(S \cup {r}, o) /\ DOMAIN u = DOMAIN t
    BY DEF IsTree, PassedFor
  <1>3. DOMAIN h = Paths(S, o) /\ \A q \in DOMAIN h : h[q] = u[q]
    BY <1>1, <1>2 DEF Without
  <1>4. ASSUME NEW q \in Paths(S, o) PROVE Holds(u[q], AlongIn(S, o, q), o, q)
    <2>1. q \in DOMAIN t /\ q # at /\ q \in Seq(Box)
      BY <1>1, <1>2 DEF Paths
    <2>2. ASSUME OnWay(q, k), ~(Len(q) < l) PROVE FALSE
      <3>1. Len(q) \in 0 .. F /\ q = Upto(k, Len(q)) /\ Len(q) # l
        BY <2>1, <2>2, OnWayLen
      <3>2. q # <<>> /\ Some(AlongIn(S, o, q))
        <4>1. q # <<>>
          BY <2>2, <3>1
        <4> QED BY <4>1 DEF Paths, Some
      <3> DEFINE i == Len(q)
      <3>3. i \in 0 .. F /\ l \in 0 .. i /\ l \in 0 .. Len(q) /\ q = Upto(k, i)
        BY <2>2, <3>1
      <3> HIDE DEF i
      <3>4. Upto(q, l) = at
        BY <3>3, UptoShorter
      <3> QED BY <2>1, <3>2, <3>3, <3>4, SomeShorter
    <2> QED BY <2>1, <2>2 DEF PassedFor
  <1> HIDE DEF h
  <1> QED BY <1>3, <1>4 DEF IsTree, h

\* A rule of a list of equal keys goes.
LEMMA DeleteLeaf ==
  ASSUME SortAssumption, NEW S, S \subseteq Rules, NEW o \in Orders, NEW r \in Rules, r \notin S,
         NEW t, IsTree(t, S \cup {r}, o), NEW k, k = KeyOf(r, o), NEW at, at = Upto(k, F),
         Crowded(S, o, k, F), Some(AlongIn(S, o, at)), at \in DOMAIN t,
         NEW u, PassedFor(u, t, S, o, k, F),
         NEW T, T = Tree(u[at].count - 1, <<>>, u[at].priority_list \ {Prio[r]}),
         NEW g, Replaces(g, u, at, T)
  PROVE  IsTree(g, S, o)
PROOF
  <1> DEFINE R == S \cup {r}
             V == AlongIn(S, o, at)
             W == AlongIn(R, o, at)
  <1>1. F \in Nat /\ F \in 0 .. F /\ k \in Seq(Box) /\ Len(k) = F /\ R \subseteq Rules /\ IsTree(t, R, o)
    BY RuleFacts, KeyType, KeyLen
  <1>2. at \in Seq(Box) /\ Len(at) = F /\ OnWay(at, k)
    BY <1>1, UptoShorter
  <1>3. DOMAIN t = Paths(R, o) /\ DOMAIN u = DOMAIN t
    BY DEF IsTree, PassedFor
  <1>4. Busy(S, o, k, F)
    <2>1. \A i \in 0 .. F - 1 : Many(AlongIn(S, o, Upto(k, i)))
      BY DEF Crowded
    <2>2. ASSUME NEW i \in 1 .. F PROVE Some(AlongIn(S, o, Upto(k, i)))
      <3>1. CASE i = F
        BY <3>1
      <3>2. CASE i # F
        <4>1. i \in 0 .. F - 1
          BY <1>1, <3>2
        <4>2. Many(AlongIn(S, o, Upto(k, i)))
          BY <2>1, <4>1
        <4> QED BY <4>2 DEF Many, Some
      <3> QED BY <3>1, <3>2
    <2> QED BY <2>2 DEF Busy
  <1>5. Paths(S, o) = Paths(R, o)
    <2>1. ASSUME NEW q \in Paths(R, o), q \notin Paths(S, o) PROVE FALSE
      <3>1. Len(q) \in F + 1 .. F
        BY <1>1, <1>4, <2>1, NewPaths
      <3> QED BY <1>1, <3>1
    <2> QED BY <2>1, StillPaths
  <1>6. Holds(t[at], W, o, at) /\ t[at].count \in Nat /\ Many(W) /\ u[at] = t[at]
    <2>1. Many(W)
      BY <1>2, AlongMany DEF Some
    <2>2. u[at] = t[at]
      BY <1>1, <1>2 DEF PassedFor
    <2> HIDE DEF R, W
    <2>3. Holds(t[at], W, o, at)
      BY <1>1, CountTells DEF W
    <2>4. t[at].count \in Nat
      BY <1>1, CountTells
    <2> QED BY <2>1, <2>2, <2>3, <2>4
  <1>7. /\ Cardinality(W) = Cardinality(V) + 1 /\ Cardinality(V) \in Nat
        /\ W = V \cup {r} /\ r \notin V /\ V \subseteq Rules
    <2>1. Cardinality(V) \in Nat
      BY AlongFinite, FS_CardinalityType
    <2>2. Cardinality(W) = Cardinality(V) + 1
      BY <1>2, AlongCount
    <2>3. W = V \cup {r}
      BY <1>2, AlongUnion
    <2>4. r \notin V /\ V \subseteq Rules
      BY DEF AlongIn
    <2> QED BY <2>1, <2>2, <2>3, <2>4
  <1> HIDE DEF R, W, V
  <1>8. Holds(T, V, o, at)
    <2>1. t[at].count = Cardinality(W) /\ t[at].priority_list = {Prio[x] : x \in W} /\ t[at] \in TreeType
      BY <1>2, <1>6 DEF Holds
    <2> DEFINE P == t[at].priority_list \ {Prio[r]}
    <2>2. P = {Prio[x] : x \in V} /\ P \in SUBSET Nat
      BY <1>7, <2>1, RuleFacts
    <2>3. t[at].count - 1 = Cardinality(V)
      BY <1>7, <2>1
    <2>4. T = Tree(Cardinality(V), <<>>, P)
      BY <1>6, <2>3
    <2> HIDE DEF P
    <2>5. T \in TreeType /\ T.count = Cardinality(V) /\ T.chain_boxes = <<>> /\ T.priority_list = P
      <3>1. <<>> \in Seq(Box)
        OBVIOUS
      <3> QED BY <1>7, <2>2, <2>4, <3>1 DEF Tree, TreeType
    <2>6. \A x : V = {x} => Rest(KeyOf(x, o), Len(at)) = <<>>
      <3>1. ASSUME NEW x, V = {x} PROVE Rest(KeyOf(x, o), F) = <<>>
        <4>1. x \in Rules
          BY <1>7, <3>1
        <4>2. KeyOf(x, o) \in Seq(Box) /\ Len(KeyOf(x, o)) = F
          BY <4>1, KeyType, KeyLen
        <4> QED BY <1>1, <4>2, RestType
      <3> QED BY <1>2, <3>1
    <2> QED BY <2>2, <2>5, <2>6 DEF Holds
  <1>9. DOMAIN g = DOMAIN u /\ g[at] = T /\ \A q \in DOMAIN u : q # at => g[q] = u[q]
    BY <1>3 DEF Replaces
  <1>10. ASSUME NEW q \in DOMAIN u, q # at PROVE Holds(u[q], AlongIn(S, o, q), o, q)
    <2>1. q \in DOMAIN t /\ q \in Seq(Box)
      BY <1>3 DEF Paths
    <2>2. ASSUME OnWay(q, k), ~(Len(q) < F) PROVE FALSE
      <3>1. Len(q) \in 0 .. F /\ q = Upto(k, Len(q))
        BY <2>1, <2>2, OnWayLen
      <3>2. Len(q) = F
        BY <1>1, <2>2, <3>1
      <3> QED BY <1>10, <3>1, <3>2
    <2> QED BY <2>1, <2>2 DEF PassedFor
  <1> QED BY <1>3, <1>5, <1>8, <1>9, <1>10 DEF IsTree, V

\* Of two rules one goes.
LEMMA DeleteApart ==
  ASSUME SortAssumption, NEW S, S \subseteq Rules, NEW o \in Orders, NEW r \in Rules, r \notin S,
         NEW s \in Rules, NEW t, IsTree(t, S \cup {r}, o), NEW k, k = KeyOf(r, o),
         NEW l \in 0 .. F, l # F, NEW at, at = Upto(k, l), at \in DOMAIN t,
         Only(AlongIn(S, o, at), s), Crowded(S, o, k, l), NEW u, PassedFor(u, t, S, o, k, l)
  PROVE  IsTree(Collapse(u, k, Prio[r], at), S, o)
PROOF
  <1> DEFINE R == S \cup {r}
             m == KeyOf(s, o)
             n == Agreement(k, m)
             j == Fork(n)
             B == Upto(m, j)
             h == Collapse(u, k, Prio[r], at)
  <1>1. /\ F \in Nat /\ l \in 0 .. l /\ k \in Seq(Box) /\ Len(k) = F /\ m \in Seq(Box) /\ Len(m) = F
        /\ s \in S
    <2>1. s \in S
      BY DEF Only, AlongIn
    <2> QED BY <2>1, RuleFacts, KeyType, KeyLen
  <1>2. DOMAIN t = Paths(R, o) /\ DOMAIN u = DOMAIN t /\ Len(at) = l /\ at \in Seq(Box)
    BY <1>1, UptoType DEF IsTree, PassedFor
  <1> HIDE DEF m, n, j
  <1>3. m = KeyOf(s, o) /\ n = Agreement(k, m) /\ j = Fork(n)
    BY DEF m, n, j
  <1>4. Forked(S, o, r, k, m, n, l, at, j)
    BY <1>3, ForkPaths
  <1>5. (CHOOSE q \in Ends(u, at, k) : OnWay(q, k) => Ends(u, at, k) = {q}) = B
    BY <1>3, LastIs
  <1>6. u[B] = t[B] /\ B \in DOMAIN t /\ Len(B) = j
    <2>1. B \in DOMAIN t /\ Len(B) = j
      BY <1>2, <1>4 DEF Forked
    <2>2. ~(Len(B) < l)
      BY <1>1, <1>4, <2>1 DEF Forked
    <2> QED BY <2>1, <2>2 DEF PassedFor
  <1>7. Left(t[B], B, m, l, Prio[s], Prio[r])
    <2> DEFINE T == t[B]
    <2> HIDE DEF T
    <2>1. T = t[Upto(m, j)]
      BY DEF T
    <2> QED BY <1>3, <2>1, LeftIs DEF T
  <1> DEFINE T == Tree(1, Rest(m, l), {Prio[s]})
             Gone == Below(u, at)
  <1>8. h = [q \in DOMAIN u \ Gone |-> IF q = at THEN T ELSE u[q]]
    <2> DEFINE last == CHOOSE q \in Ends(u, at, k) : OnWay(q, k) => Ends(u, at, k) = {q}
               left == IF u[last].count = 2 THEN u[last].priority_list \ {Prio[r]} ELSE u[last].priority_list
               X == Tree(1, Rest(last, Len(at)) \o u[last].chain_boxes, left)
    <2>1. h = [q \in DOMAIN u \ Gone |-> IF q = at THEN X ELSE u[q]]
      BY Zenon DEF Collapse
    <2>2. last = B
      BY <1>5
    <2> HIDE DEF h, last, B
    <2>3. X = T
      BY <1>2, <1>6, <1>7, <2>2 DEF Left
    <2> HIDE DEF X, T, Gone
    <2> QED BY <2>1, <2>3
  <1>9. Gone = {q \in DOMAIN t : OnWay(at, q) /\ q # at}
    BY <1>2 DEF Below
  <1>10. ASSUME NEW q \in DOMAIN t PROVE q \in Gone <=> q \notin Paths(S, o)
    <2>1. q \in Paths(S \cup {r}, o) /\ Only(AlongIn(S, o, Upto(k, l)), s)
      BY <1>2
    <2>2. q \notin Paths(S, o) <=> OnWay(Upto(k, l), q) /\ q # Upto(k, l)
      BY <1>3, <2>1, BelowTwo
    <2> QED BY <1>9, <2>2
  <1>11. Paths(S, o) \subseteq DOMAIN t
    BY <1>2, StillPaths
  <1> HIDE DEF h, Gone, T
  <1>12. DOMAIN h = DOMAIN u \ Gone /\ \A q \in DOMAIN u \ Gone : h[q] = IF q = at THEN T ELSE u[q]
    BY <1>8
  <1>13. DOMAIN h = Paths(S, o)
    BY <1>2, <1>10, <1>11, <1>12
  <1>14. ASSUME NEW q \in Paths(S, o) PROVE Holds(h[q], AlongIn(S, o, q), o, q)
    <2>1. q \in DOMAIN t /\ q \in Seq(Box) /\ q \notin Gone /\ h[q] = IF q = at THEN T ELSE u[q]
      BY <1>2, <1>10, <1>11, <1>12 DEF Paths
    <2>2. CASE q = at
      <3>1. h[q] = T
        BY <2>1, <2>2
      <3>2. Holds(T, AlongIn(S, o, q), o, q)
        BY <1>2, <2>2, HoldsOne DEF T, m
      <3> QED BY <3>1, <3>2
    <2>3. CASE q # at
      <3>1. h[q] = u[q]
        BY <2>1, <2>3
      <3>2. ASSUME OnWay(q, k), ~(Len(q) < l) PROVE FALSE
        <4> DEFINE i == Len(q)
        <4>1. i \in 0 .. F /\ q = Upto(k, i) /\ l \in 0 .. i
          BY <1>1, <2>1, <3>2, OnWayLen
        <4> HIDE DEF i
        <4>2. Upto(q, l) = at /\ Len(q) = i
          BY <4>1, UptoShorter
        <4>3. OnWay(at, q)
          BY <1>2, <4>1, <4>2 DEF OnWay
        <4> QED BY <1>9, <2>1, <2>3, <4>3
      <3> QED BY <2>1, <3>1, <3>2 DEF PassedFor
    <2> QED BY <2>2, <2>3
  <1> QED BY <1>13, <1>14 DEF IsTree, h

\* The delete keeps the tree the path compression of its rules.
LEMMA DeleteTree ==
  ASSUME SortAssumption, NEW S, S \subseteq Rules, NEW o \in Orders, NEW r \in Rules, r \notin S,
         NEW t, IsTree(t, S \cup {r}, o), NEW k, k = KeyOf(r, o)
  PROVE  IsTree(RBTreeDelete(t, k, Prio[r]), S, o)
PROOF
  <1> DEFINE l == Depth(t, k, 2)
             at == Upto(k, l)
             u == Passed(t, k, l, -1)
             V == AlongIn(S, o, at)
             g == RBTreeDelete(t, k, Prio[r])
  <1>1. F \in Nat \ {0} /\ k \in Seq(Box) /\ Len(k) = F /\ 0 \in 0 .. F
    BY RuleFacts, KeyType, KeyLen
  <1>2. /\ l \in 0 .. F /\ at \in DOMAIN t /\ Crowded(S, o, k, l)
        /\ t[at].count \in Nat \ {0} /\ (l = F \/ t[at].count <= 2)
        /\ t[at].count = Cardinality(V) + 1
    <2> HIDE DEF l
    <2>1. l = Depth(t, k, 2)
      BY DEF l
    <2>2. l \in 0 .. F /\ at \in DOMAIN t /\ Crowded(S, o, k, l)
      BY <2>1, DeleteDepth
    <2>3. t[at].count \in Nat \ {0} /\ (l = F \/ t[at].count <= 2)
      BY <2>1, DeleteDepth
    <2>4. t[at].count = Cardinality(V) + 1
      <3>1. Cardinality(V) \in Nat
        BY AlongFinite, FS_CardinalityType
      <3> QED BY <2>1, <2>3, <3>1, DeleteDepth
    <2> QED BY <2>2, <2>3, <2>4
  <1>3. g = IF t[at].count = 1 THEN IF l = 0 THEN RBTreeCreate ELSE Without(u, {at})
            ELSE IF l = F
            THEN [u EXCEPT ![at] = Tree(@.count - 1, <<>>, @.priority_list \ {Prio[r]})]
            ELSE Collapse(u, k, Prio[r], at)
    BY <1>1 DEF RBTreeDelete
  <1> HIDE DEF l, g
  <1>4. PassedFor(u, t, S, o, k, l)
    BY <1>2, PassedDelete
  <1>5. IsFiniteSet(V) /\ Cardinality(V) \in Nat
    BY AlongFinite, FS_CardinalityType
  <1>6. Cardinality(V) = 0 <=> ~Some(V)
    BY <1>5, FS_EmptySet DEF Some
  <1> HIDE DEF V
  <1>7. CASE t[at].count = 1
    <2>1. ~Some(V)
      BY <1>2, <1>5, <1>6, <1>7
    <2>2. CASE l = 0
      <3>1. S = {}
        <4>1. \A q \in S : OnWay(<<>>, KeyOf(q, o))
          <5>1. ASSUME NEW q \in S PROVE OnWay(<<>>, KeyOf(q, o))
            <6>1. KeyOf(q, o) \in Seq(Box) /\ Len(KeyOf(q, o)) = F
              BY KeyType, KeyLen
            <6>2. Upto(KeyOf(q, o), 0) = <<>>
              BY <1>1, <6>1, UptoType
            <6>3. OnWay(Upto(KeyOf(q, o), 0), KeyOf(q, o))
              BY <1>1, AlongWay
            <6> QED BY <6>2, <6>3
          <5> QED BY <5>1
        <4>2. at = <<>>
          BY <1>1, <2>2, UptoType
        <4> QED BY <2>1, <4>1, <4>2 DEF V, AlongIn, Some
      <3>2. g = RBTreeCreate
        BY <1>3, <1>7, <2>2
      <3> QED BY <3>1, <3>2, EmptyTree DEF g
    <2>3. CASE l # 0
      <3>1. g = Without(u, {at})
        BY <1>3, <1>7, <2>3
      <3> HIDE DEF u, at
      <3>2. at = Upto(k, l)
        BY DEF at
      <3> QED BY <1>2, <1>4, <2>1, <2>3, <3>1, <3>2, DeleteAlone DEF g, V
    <2> QED BY <2>2, <2>3
  <1>8. CASE t[at].count # 1 /\ l = F
    <2> DEFINE T == Tree(u[at].count - 1, <<>>, u[at].priority_list \ {Prio[r]})
    <2>1. Some(V)
      BY <1>2, <1>5, <1>6, <1>8
    <2>2. Replaces(g, u, at, T)
      BY <1>3, <1>8 DEF Replaces
    <2> HIDE DEF u, at, T
    <2>3. at = Upto(k, F) /\ PassedFor(u, t, S, o, k, F) /\ Crowded(S, o, k, F) /\ at \in DOMAIN t
      BY <1>2, <1>4, <1>8 DEF at
    <2>4. T = Tree(u[at].count - 1, <<>>, u[at].priority_list \ {Prio[r]}) /\ Some(AlongIn(S, o, at))
      BY <2>1 DEF T, V
    <2>5. IsTree(g, S, o)
      BY <2>2, <2>3, <2>4, DeleteLeaf
    <2> QED BY <2>5 DEF g
  <1>9. CASE t[at].count # 1 /\ l # F
    <2>1. Cardinality(V) = 1
      BY <1>2, <1>5, <1>9
    <2>2. PICK s : V = {s}
      BY <1>5, <2>1, FS_Singleton
    <2>3. Only(AlongIn(S, o, at), s) /\ s \in Rules
      BY <2>2 DEF Only, V, AlongIn
    <2>4. g = Collapse(u, k, Prio[r], at)
      BY <1>3, <1>9
    <2> HIDE DEF u, at
    <2>5. at = Upto(k, l)
      BY DEF at
    <2>6. IsTree(Collapse(u, k, Prio[r], at), S, o)
      BY <1>2, <1>4, <1>9, <2>3, <2>5, DeleteApart
    <2> QED BY <2>4, <2>6 DEF g
  <1> QED BY <1>7, <1>8, <1>9

-----------------------------------------------------------------------------
(***************************************************************************)
(* Rules that are comparable: where their ways part their boxes do.        *)
(***************************************************************************)
Disjoint(b, c) == b[2] < c[1] \/ c[2] < b[1]
ApartAt(k, m) == Agreement(k, m) < F => Disjoint(k[Agreement(k, m) + 1], m[Agreement(k, m) + 1])
Comparable(S, o) == \A r, q \in S : ApartAt(KeyOf(r, o), KeyOf(q, o))

\* The boxes of the rules have a low and a high end, and the cut to unsigned confuses
\* no two of them.
LEMMA BoxesAre ==
  ASSUME SortAssumption, NEW o \in Orders, NEW r \in Rules, NEW s \in Rules,
         NEW k, k = KeyOf(r, o), NEW m, m = KeyOf(s, o), NEW i \in 1 .. F
  PROVE  /\ IsIntersect(k[i], m[i]) <=> ~Disjoint(k[i], m[i])
         /\ IsIdentical(k[i], m[i]) <=> k[i] = m[i]
         /\ k[i] = m[i] => ~Disjoint(k[i], m[i])
         /\ Disjoint(k[i], m[i]) <=> Disjoint(m[i], k[i])
PROOF
  <1>1. o[i] \in Fields /\ DOMAIN o = 1 .. F
    BY DEF Orders
  <1> DEFINE f == o[i]
  <1>2. k[i] = <<Lo[r][f], Hi[r][f]>> /\ m[i] = <<Lo[s][f], Hi[s][f]>>
    BY <1>1 DEF KeyOf
  <1> HIDE DEF f
  <1>3. /\ Lo[r][f] \in Nat /\ Hi[r][f] \in Nat /\ Lo[r][f] <= Hi[r][f]
        /\ Lo[s][f] \in Nat /\ Hi[s][f] \in Nat /\ Lo[s][f] <= Hi[s][f]
    BY <1>1, RuleFacts DEF f
  <1>4. /\ k[i][1] = Lo[r][f] /\ k[i][2] = Hi[r][f]
        /\ m[i][1] = Lo[s][f] /\ m[i][2] = Hi[s][f]
    BY <1>2
  <1>5. /\ IsIntersect(k[i], m[i]) <=> Lo[r][f] <= Hi[s][f] /\ Lo[s][f] <= Hi[r][f]
        /\ IsIdentical(k[i], m[i]) => k[i] = m[i]
    BY <1>1, <1>2 DEF f, SortAssumption, CutHarmless
  <1>6. IsIntersect(k[i], m[i]) <=> ~Disjoint(k[i], m[i])
    BY <1>3, <1>4, <1>5 DEF Disjoint
  <1>7. IsIdentical(k[i], m[i]) <=> k[i] = m[i]
    BY <1>5 DEF IsIdentical
  <1>8. k[i] = m[i] => ~Disjoint(k[i], m[i])
    BY <1>3, <1>4 DEF Disjoint
  <1> QED BY <1>6, <1>7, <1>8 DEF Disjoint

\* Both ways round.
LEMMA AgreementSame ==
  ASSUME SortAssumption, NEW o \in Orders, NEW r \in Rules, NEW s \in Rules,
         NEW k, k = KeyOf(r, o), NEW m, m = KeyOf(s, o)
  PROVE  Agreement(k, m) = Agreement(m, k) /\ (ApartAt(k, m) <=> ApartAt(m, k))
PROOF
  <1> DEFINE n == Agreement(k, m)
             i == Agreement(m, k)
  <1>1. n \in 0 .. F /\ i \in 0 .. F /\ F \in Nat
    BY RuleFacts, Parting
  <1> HIDE DEF n, i
  <1>2. Upto(m, n) = Upto(k, n) <=> n <= n
    BY <1>1, Parting DEF n
  <1>3. Upto(k, n) = Upto(m, n) <=> n <= i
    BY <1>1, Parting DEF i
  <1>4. Upto(k, i) = Upto(m, i) <=> i <= i
    BY <1>1, Parting DEF i
  <1>5. Upto(m, i) = Upto(k, i) <=> i <= n
    BY <1>1, Parting DEF n
  <1>6. n = i
    BY <1>1, <1>2, <1>3, <1>4, <1>5
  <1>7. ASSUME n < F PROVE Disjoint(k[n + 1], m[n + 1]) <=> Disjoint(m[n + 1], k[n + 1])
    <2>1. n + 1 \in 1 .. F
      BY <1>1, <1>7
    <2> QED BY <2>1, BoxesAre
  <1> QED BY <1>6, <1>7 DEF ApartAt, n, i

\* Two keys part at the first box that differs.
LEMMA PartsAt ==
  ASSUME SortAssumption, NEW o \in Orders, NEW r \in Rules, NEW s \in Rules,
         NEW k, k = KeyOf(r, o), NEW m, m = KeyOf(s, o),
         NEW i \in 0 .. F - 1, Upto(m, i) = Upto(k, i), k[i + 1] # m[i + 1]
  PROVE  Agreement(k, m) = i
PROOF
  <1> DEFINE n == Agreement(k, m)
             j == i + 1
  <1>1. /\ F \in Nat /\ i \in 0 .. F /\ j \in 0 .. F /\ j \in 1 .. j
        /\ k \in Seq(Box) /\ Len(k) = F /\ m \in Seq(Box) /\ Len(m) = F
    BY RuleFacts, KeyType, KeyLen
  <1>2. n \in 0 .. F
    BY Parting
  <1>3. Upto(m, i) = Upto(k, i) <=> i <= n
    BY <1>1, Parting
  <1> HIDE DEF j
  <1>4. Upto(m, j) = Upto(k, j) <=> j <= n
    BY <1>1, Parting
  <1>5. Upto(m, j) # Upto(k, j)
    <2>1. Upto(m, j) = Upto(k, j) <=> \A x \in 1 .. j : m[x] = k[x]
      BY <1>1, UptoSame
    <2> QED BY <1>1, <2>1 DEF j
  <1> HIDE DEF n
  <1>6. i <= n /\ ~(j <= n)
    BY <1>3, <1>4, <1>5
  <1>7. n = i
    BY <1>1, <1>2, <1>6 DEF j
  <1> QED BY <1>7 DEF n

\* A rule that parts from s above where the tree has no rule like it any more is
\* apart from s, since another one that went on its way so far is.
LEMMA ApartAbove ==
  ASSUME SortAssumption, NEW S, S \subseteq Rules, NEW o \in Orders, Comparable(S, o),
         NEW r \in Rules, NEW s \in S, NEW k, k = KeyOf(r, o), NEW m, m = KeyOf(s, o),
         NEW n, n = Agreement(k, m), NEW j, j = n + 1, j \in 1 .. F, Some(AlongIn(S, o, Upto(k, j)))
  PROVE  Disjoint(k[j], m[j])
PROOF
  <1>1. PICK x \in S : OnWay(Upto(k, j), KeyOf(x, o))
    BY DEF Some, AlongIn
  <1> DEFINE y == KeyOf(x, o)
  <1>2. /\ F \in Nat /\ x \in Rules /\ s \in Rules /\ k \in Seq(Box) /\ Len(k) = F
        /\ y \in Seq(Box) /\ Len(y) = F /\ j \in 0 .. F /\ j \in 1 .. j /\ n \in 0 .. F - 1
        /\ n \in 0 .. j /\ n \in 0 .. F
    <2>1. x \in Rules /\ s \in Rules /\ F \in Nat
      BY RuleFacts
    <2>2. n \in 0 .. F
      BY <2>1, Parting
    <2> QED BY <2>1, <2>2, KeyType, KeyLen
  <1> HIDE DEF y
  <1>3. Upto(y, j) = Upto(k, j)
    BY <1>1, <1>2, UptoSame DEF y
  <1>4. y[j] = k[j] /\ Upto(y, n) = Upto(k, n)
    <2>1. \A i \in 1 .. j : y[i] = k[i]
      BY <1>2, <1>3, UptoSame
    <2>2. \A i \in 0 .. j : Upto(y, i) = Upto(k, i)
      BY <1>2, <1>3, UptoSame
    <2> QED BY <1>2, <2>1, <2>2
  <1>5. Upto(m, n) = Upto(k, n) /\ k[j] # m[j]
    <2>1. Upto(m, n) = Upto(k, n) <=> n <= n
      BY <1>2, Parting
    <2>2. n # F => k[n + 1] # m[n + 1]
      BY <1>2, Parting
    <2> QED BY <1>2, <2>1, <2>2
  <1>6. Agreement(y, m) = n
    <2>1. Upto(m, n) = Upto(y, n) /\ y[n + 1] # m[n + 1]
      BY <1>4, <1>5
    <2> QED BY <1>2, <2>1, PartsAt DEF y
  <1>7. Agreement(y, m) < F => Disjoint(y[Agreement(y, m) + 1], m[Agreement(y, m) + 1])
    BY DEF Comparable, ApartAt, y
  <1>8. n < F /\ n + 1 = j
    BY <1>2
  <1>9. Disjoint(y[j], m[j])
    BY <1>6, <1>7, <1>8
  <1> QED BY <1>4, <1>9

\* A rule that may go into a tree of comparable rules is comparable to them all.
LEMMA CanInsertApart ==
  ASSUME SortAssumption, NEW S, S \subseteq Rules, NEW o \in Orders, Comparable(S, o),
         NEW t, IsTree(t, S, o), NEW r \in Rules, NEW s \in S,
         NEW k, k = KeyOf(r, o), NEW m, m = KeyOf(s, o), RBTreeCanInsert(t, k)
  PROVE  ApartAt(k, m)
PROOF
  <1> DEFINE n == Agreement(k, m)
             j == n + 1
             l == Depth(t, k, 1)
             at == Upto(k, l)
             W == AlongIn(S, o, at)
  <1>1. /\ F \in Nat /\ k \in Seq(Box) /\ Len(k) = F /\ s \in Rules
        /\ m \in Seq(Box) /\ Len(m) = F /\ n \in 0 .. F
    <2>1. s \in Rules
      OBVIOUS
    <2> QED BY <2>1, RuleFacts, KeyType, KeyLen, Parting
  <1>2. RBTreeCanInsert(t, k) <=>
          \/ l = F \/ t[at].count = 0
          \/ /\ t[at].count = 1
             /\ \A i \in FirstOther(Rest(k, l), t[at].chain_boxes) :
                  ~IsIntersect(Rest(k, l)[i], t[at].chain_boxes[i])
          \/ t[at].count > 1 /\ \A b \in Boxes(t, at) : ~IsIntersect(b, k[l + 1])
    BY <1>1 DEF RBTreeCanInsert
  <1> HIDE DEF l, n
  <1>3. l \in 0 .. F /\ at \in DOMAIN t /\ Busy(S, o, k, l)
    <2>1. l = Depth(t, k, 1)
      BY DEF l
    <2> QED BY <2>1, InsertDepth
  <1>4. /\ t[at].count \in Nat
        /\ t[at].count = 0 <=> ~Some(W)
        /\ t[at].count = 1 <=> \E x \in S : Only(W, x)
        /\ t[at].count > 1 <=> Many(W)
        /\ Holds(t[at], W, o, at)
    <2> HIDE DEF at, W
    <2>1. W = AlongIn(S, o, at) /\ at \in DOMAIN t
      BY <1>3 DEF W
    <2> QED BY <2>1, CountTells
  <1>5. /\ \A i \in 0 .. F : (Upto(m, i) = Upto(k, i) <=> i <= n)
        /\ \A i \in 0 .. F : (OnWay(Upto(k, i), m) <=> i <= n)
        /\ n # F => k[n + 1] # m[n + 1]
    BY <1>1, Parting DEF n
  <1>6. SUFFICES ASSUME n < F PROVE Disjoint(k[j], m[j])
    BY DEF ApartAt, n
  <1>7. j \in 1 .. F /\ l \in Nat /\ n \in Nat
    BY <1>1, <1>3, <1>6
  <1>8. CASE n < l
    <2>1. j \in 1 .. l
      BY <1>7, <1>8
    <2>2. Some(AlongIn(S, o, Upto(k, j)))
      <3> HIDE DEF j
      <3> QED BY <1>3, <2>1 DEF Busy
    <2>3. n = Agreement(k, m) /\ j = n + 1
      BY DEF n
    <2> HIDE DEF j
    <2> QED BY <1>1, <1>7, <2>2, <2>3, ApartAbove
  <1>9. CASE ~(n < l)
    <2>1. l <= n /\ l < F /\ l \in 0 .. F
      BY <1>1, <1>3, <1>6, <1>7, <1>9
    <2>2. s \in W
      BY <1>5, <2>1 DEF AlongIn
    <2>3. t[at].count # 0
      <3> HIDE DEF W, at
      <3> QED BY <1>4, <2>2 DEF Some
    <2>4. CASE t[at].count = 1
      <3> DEFINE rest == Rest(k, l)
                 chain == t[at].chain_boxes
                 i == j - l
      <3>1. W = {s}
        <4> HIDE DEF W, at
        <4> QED BY <1>4, <2>2, <2>4 DEF Only
      <3>2. chain = Rest(m, l)
        <4>1. Len(at) = l
          BY <1>1, <2>1, UptoType
        <4> HIDE DEF W, at
        <4> QED BY <1>4, <3>1, <4>1 DEF Holds
      <3>3. \A x \in FirstOther(rest, chain) : ~IsIntersect(rest[x], chain[x])
        BY <1>2, <2>1, <2>3, <2>4
      <3>4. /\ rest \in Seq(Box) /\ Len(rest) = F - l /\ \A x \in 1 .. F - l : rest[x] = k[l + x]
            /\ chain \in Seq(Box) /\ Len(chain) = F - l /\ \A x \in 1 .. F - l : chain[x] = m[l + x]
        <4> HIDE DEF rest, chain
        <4>1. l \in 0 .. Len(k) /\ l \in 0 .. Len(m)
          BY <1>1, <2>1
        <4>2. rest \in Seq(Box) /\ Len(rest) = Len(k) - l /\ \A x \in 1 .. Len(k) - l : rest[x] = k[l + x]
          BY <1>1, <4>1, RestType DEF rest
        <4>3. chain \in Seq(Box) /\ Len(chain) = Len(m) - l /\ \A x \in 1 .. Len(m) - l : chain[x] = m[l + x]
          BY <1>1, <3>2, <4>1, RestType
        <4> QED BY <1>1, <4>2, <4>3
      <3>5. i \in 1 .. F - l /\ l + i = j
        BY <1>1, <1>7, <2>1
      <3> HIDE DEF rest, chain, i
      <3>6. rest[i] = k[j] /\ chain[i] = m[j]
        BY <3>4, <3>5
      <3>7. ~IsIdentical(rest[i], chain[i])
        <4>1. k[j] # m[j]
          BY <1>5, <1>6, <1>7
        <4> QED BY <1>1, <1>7, <3>6, <4>1, BoxesAre
      <3>8. ASSUME NEW x \in 1 .. i - 1 PROVE IsIdentical(rest[x], chain[x])
        <4>1. x \in 1 .. F - l /\ l + x \in 1 .. F /\ l + x <= n
          BY <1>1, <1>7, <2>1, <3>5 DEF i
        <4>2. Upto(m, n) = Upto(k, n)
          BY <1>1, <1>5, <1>7
        <4>3. \A y \in 1 .. n : m[y] = k[y]
          BY <1>1, <4>2, UptoSame
        <4>4. l + x \in 1 .. n
          BY <1>7, <4>1
        <4>5. k[l + x] = m[l + x]
          BY <4>3, <4>4
        <4> DEFINE y == l + x
        <4> HIDE DEF y
        <4>6. y \in 1 .. F /\ rest[x] = k[y] /\ chain[x] = m[y] /\ k[y] = m[y]
          BY <3>4, <4>1, <4>5 DEF y
        <4> QED BY <1>1, <4>6, BoxesAre
      <3>9. i \in FirstOther(rest, chain)
        <4>1. DOMAIN rest = 1 .. F - l
          BY <3>4
        <4> QED BY <3>5, <3>7, <3>8, <4>1 DEF FirstOther
      <3>10. ~IsIntersect(k[j], m[j])
        BY <3>3, <3>6, <3>9
      <3> QED BY <1>1, <1>7, <3>10, BoxesAre
    <2>5. CASE t[at].count > 1
      <3> DEFINE q == Upto(m, l + 1)
      <3>1. l + 1 \in 0 .. F /\ l + 1 \in 1 .. F /\ l + 1 # 0 /\ l \in 0 .. l + 1
        BY <1>1, <2>1, <1>7
      <3>2. /\ q \in Seq(Box) /\ Len(q) = l + 1 /\ q # <<>> /\ Upto(q, l) = Upto(m, l)
            /\ OnWay(q, m) /\ q[l + 1] = m[l + 1]
        <4> DEFINE i == l + 1
        <4>1. i \in 0 .. F /\ i # 0 /\ l \in 0 .. i /\ i \in 1 .. i /\ i \in 0 .. Len(m)
          BY <1>1, <3>1
        <4> HIDE DEF i
        <4>2. /\ Upto(m, i) \in Seq(Box) /\ Len(Upto(m, i)) = i /\ Upto(m, i) # <<>>
              /\ Upto(Upto(m, i), l) = Upto(m, l) /\ OnWay(Upto(m, i), m)
          BY <1>1, <4>1, UptoShorter
        <4>3. Upto(m, i)[i] = m[i]
          BY <1>1, <4>1, UptoType
        <4> QED BY <4>2, <4>3 DEF i
      <3>3. Upto(m, l) = at
        BY <1>5, <2>1
      <3> HIDE DEF q
      <3>4. q \in DOMAIN t
        <4>1. s \in AlongIn(S, o, q)
          BY <3>2 DEF AlongIn
        <4>2. Len(q) - 1 = l /\ Many(W)
          <5> HIDE DEF W, at
          <5> QED BY <1>4, <1>7, <2>5, <3>2
        <4>3. Many(AlongIn(S, o, Upto(q, Len(q) - 1)))
          BY <3>2, <3>3, <4>2
        <4> QED BY <3>2, <4>1, <4>3 DEF IsTree, Paths
      <3>5. m[l + 1] \in Boxes(t, at)
        <4>1. Len(q) - 1 = l
          BY <1>7, <3>2
        <4>2. q \in {p \in DOMAIN t : p # <<>> /\ Upto(p, Len(p) - 1) = at} /\ q[Len(q)] = m[l + 1]
          BY <3>2, <3>3, <3>4, <4>1
        <4> HIDE DEF at
        <4> QED BY <4>2 DEF Boxes
      <3>6. ~IsIntersect(m[l + 1], k[l + 1])
        BY <1>2, <2>1, <2>3, <2>5, <3>5
      <3> DEFINE i == l + 1
      <3>7. i \in 1 .. F /\ ~IsIntersect(m[i], k[i])
        BY <3>1, <3>6
      <3> HIDE DEF i
      <3>8. Disjoint(m[i], k[i]) /\ m[i] # k[i]
        BY <1>1, <3>7, BoxesAre
      <3>9. Disjoint(k[i], m[i])
        BY <1>1, <3>7, <3>8, BoxesAre
      <3>10. n = l
        <4>1. ASSUME l < n PROVE FALSE
          <5>1. i \in 1 .. n /\ n \in 0 .. F
            BY <1>1, <1>7, <4>1 DEF i
          <5>2. Upto(m, n) = Upto(k, n)
            BY <1>5, <1>7, <5>1
          <5>3. m[i] = k[i]
            BY <1>1, <5>1, <5>2, UptoSame
          <5> QED BY <3>8, <5>3
        <4> QED BY <1>7, <2>1, <4>1
      <3> QED BY <3>9, <3>10 DEF i
    <2> QED BY <1>4, <2>3, <2>4, <2>5
  <1> QED BY <1>8, <1>9

-----------------------------------------------------------------------------
(***************************************************************************)
(* Queries.                                                                *)
(***************************************************************************)
PriosOf(S) == {Prio[r] : r \in S}

\* The best priority of a set of rules.
LEMMA TopIs ==
  ASSUME SortAssumption, NEW S \in SUBSET Rules
  PROVE  /\ Top(PriosOf(S)) \in {-1} \cup PriosOf(S) /\ PriosOf(S) \subseteq Nat \ {0}
         /\ \A n \in PriosOf(S) : n <= Top(PriosOf(S))
         /\ \A x \in {-1} \cup PriosOf(S) : (\A n \in PriosOf(S) : n <= x) => x = Top(PriosOf(S))
         /\ S # {} => Top(PriosOf(S)) \in PriosOf(S)
PROOF
  <1> DEFINE P == PriosOf(S)
             Best(x) == x \in {-1} \cup P /\ \A n \in P : n <= x
  <1>1. P \subseteq Nat \ {0}
    BY RuleFacts DEF PriosOf
  <1>2. \E x : Best(x)
    <2>1. CASE S = {}
      <3>1. P = {}
        BY <2>1 DEF PriosOf
      <3> QED BY <3>1
    <2>2. CASE S # {}
      <3>1. IsFiniteSet(S) /\ \A r \in S : Prio[r] \in Int
        BY RuleFacts, FS_Subset
      <3>2. PICK m \in S : \A r \in S : Prio[r] <= Prio[m]
        BY <2>2, <3>1, SomeBest
      <3>3. Best(Prio[m])
        BY <3>2 DEF PriosOf
      <3> QED BY <3>3
    <2> QED BY <2>1, <2>2
  <1>3. S # {} => P # {}
    BY DEF PriosOf
  <1> HIDE DEF P
  <1>4. Top(P) = CHOOSE x \in {-1} \cup P : \A n \in P : n <= x
    BY DEF Top
  <1>5. Best(Top(P))
    BY <1>2, <1>4
  <1> HIDE DEF P
  <1>6. ASSUME NEW x, Best(x) PROVE x = Top(P)
    <2> DEFINE y == Top(P)
    <2>1. x \in {-1} \cup P /\ y \in {-1} \cup P /\ \A n \in P : n <= x /\ n <= y
      BY <1>5, <1>6
    <2> HIDE DEF y
    <2>2. x \in Int /\ y \in Int
      BY <1>1, <2>1
    <2>3. CASE P = {}
      BY <2>1, <2>3 DEF y
    <2>4. CASE P # {}
      <3>1. PICK n \in P : TRUE
        BY <2>4
      <3>2. x # -1 /\ y # -1
        <4>1. n <= x /\ n <= y /\ n \in Nat \ {0}
          BY <1>1, <2>1
        <4> QED BY <4>1
      <3>3. x <= y /\ y <= x
        BY <2>1, <3>2
      <3> QED BY <2>2, <3>3 DEF y
    <2> QED BY <2>3, <2>4
  <1>7. S # {} => Top(P) \in P
    <2>1. ASSUME S # {} PROVE Top(P) \in P
      <3>1. PICK n \in P : n <= Top(P) /\ n \in Nat
        BY <1>1, <1>3, <1>5, <2>1
      <3> QED BY <1>5, <3>1
    <2> QED BY <2>1
  <1> QED BY <1>1, <1>5, <1>6, <1>7 DEF P

\* The order of the fields has them all.
LEMMA OrderOnto ==
  ASSUME SortAssumption, NEW o \in Orders, NEW f \in Fields
  PROVE  \E i \in 1 .. F : o[i] = f
PROOF
  <1>1. o \in Injection(1 .. F, Fields)
    BY DEF Orders, Injection, IsInjective
  <1>2. IsFiniteSet(Fields) /\ Cardinality(1 .. F) = Cardinality(Fields)
    <2>1. F \in Nat
      BY RuleFacts
    <2>2. Cardinality(1 .. F) = F
      BY <2>1, FS_Interval
    <2> QED BY <2>2 DEF SortAssumption, F
  <1>3. o \in Surjection(1 .. F, Fields)
    BY <1>1, <1>2, FS_Injection
  <1> QED BY <1>3 DEF Surjection

\* a packet in the order of the fields, and whether it is in all boxes of a key
PointsOf(o, p) == [i \in DOMAIN o |-> p[o[i]]]
InAll(key, pts) == \A i \in DOMAIN key : InBox(key[i], pts[i])

\* The points of a packet.
LEMMA PointsAre ==
  ASSUME SortAssumption, NEW o \in Orders, NEW p \in Packets
  PROVE  Len(PointsOf(o, p)) = F /\ \A i \in 1 .. F : PointsOf(o, p)[i] \in Nat
PROOF
  <1>1. /\ DOMAIN o = 1 .. F /\ \A i \in 1 .. F : o[i] \in Fields
        /\ F \in Nat /\ p \in [Fields -> Nat]
    BY RuleFacts, PrefixAssumption DEF Orders
  <1>2. PointsOf(o, p) \in [1 .. F -> Nat] /\ PointsOf(o, p) \in Seq(Nat)
    <2>1. PointsOf(o, p) \in [1 .. F -> Nat]
      BY <1>1 DEF PointsOf
    <2> QED BY <1>1, <2>1
  <1> QED BY <1>1, <1>2

\* A packet matches a rule when its points lie in the boxes of the rule's key.
LEMMA InAllMatches ==
  ASSUME SortAssumption, NEW o \in Orders, NEW r \in Rules, NEW p \in Packets
  PROVE  InAll(KeyOf(r, o), PointsOf(o, p)) <=> Matches(r, p)
PROOF
  <1>1. /\ DOMAIN o = 1 .. F /\ \A i \in 1 .. F : o[i] \in Fields
        /\ \A f \in Fields : \E i \in 1 .. F : o[i] = f
    BY OrderOnto DEF Orders
  <1>2. ASSUME NEW i \in 1 .. F
        PROVE  InBox(KeyOf(r, o)[i], PointsOf(o, p)[i]) <=> Lo[r][o[i]] <= p[o[i]] /\ p[o[i]] <= Hi[r][o[i]]
    BY <1>1 DEF KeyOf, PointsOf, InBox
  <1>3. DOMAIN KeyOf(r, o) = 1 .. F
    BY <1>1 DEF KeyOf
  <1>4. InAll(KeyOf(r, o), PointsOf(o, p)) <=> Matches(r, p)
    BY <1>1, <1>2, <1>3 DEF InAll, Matches
  <1> QED BY <1>4

\* Of comparable rules a packet is in the boxes of one key at most.
LEMMA OneKey ==
  ASSUME SortAssumption, NEW S, S \subseteq Rules, NEW o \in Orders, Comparable(S, o),
         NEW r \in S, NEW s \in S, NEW p \in Packets, Matches(r, p), Matches(s, p)
  PROVE  KeyOf(r, o) = KeyOf(s, o)
PROOF
  <1> DEFINE k == KeyOf(r, o)
             m == KeyOf(s, o)
             n == Agreement(k, m)
             i == n + 1
  <1>1. /\ r \in Rules /\ s \in Rules /\ F \in Nat /\ k \in Seq(Box) /\ Len(k) = F
        /\ m \in Seq(Box) /\ Len(m) = F /\ n \in 0 .. F
    <2>1. r \in Rules /\ s \in Rules
      OBVIOUS
    <2> QED BY <2>1, RuleFacts, KeyType, KeyLen, Parting
  <1>2. CASE n = F
    <2>1. Upto(m, F) = Upto(k, F) <=> F <= n
      <3>1. F \in 0 .. F
        BY <1>1
      <3> QED BY <1>1, <3>1, Parting
    <2>2. Upto(m, F) = m /\ Upto(k, F) = k
      BY <1>1, UptoType
    <2> QED BY <1>1, <1>2, <2>1, <2>2
  <1>3. CASE n # F
    <2>1. i \in 1 .. F
      BY <1>1, <1>3
    <2>2. Disjoint(k[i], m[i])
      <3>1. n < F
        BY <1>1, <1>3
      <3> QED BY <3>1 DEF Comparable, ApartAt
    <2> HIDE DEF i, k, m
    <2>3. PointsOf(o, p)[i] \in Nat /\ InBox(k[i], PointsOf(o, p)[i]) /\ InBox(m[i], PointsOf(o, p)[i])
      <3>1. InAll(k, PointsOf(o, p)) /\ InAll(m, PointsOf(o, p))
        BY <1>1, InAllMatches DEF k, m
      <3>2. DOMAIN k = 1 .. F /\ DOMAIN m = 1 .. F
        BY <1>1
      <3> QED BY <1>1, <2>1, <3>1, <3>2, PointsAre DEF InAll
    <2>4. k[i] \in Box /\ m[i] \in Box
      BY <1>1, <2>1
    <2> QED BY <2>2, <2>3, <2>4 DEF Disjoint, InBox, Box
  <1> QED BY <1>2, <1>3

\* Where a query may end: the rules there have one key, which matches.
EndOf(t, q, pts) == /\ t[q].count = 1 \/ Len(q) = Len(pts)
                    /\ InAll(q \o t[q].chain_boxes, pts)

\* the path and the chain of tree q are the key of all its rules
Whole(t, S, o, q) == \A s \in AlongIn(S, o, q) : q \o t[q].chain_boxes = KeyOf(s, o)

\* The end of a way has the whole key of its rules, and their priorities.
LEMMA EndHas ==
  ASSUME SortAssumption, NEW S, S \subseteq Rules, NEW o \in Orders, NEW t, IsTree(t, S, o),
         NEW q \in DOMAIN t, t[q].count = 1 \/ Len(q) = F
  PROVE  /\ \E s \in S : s \in AlongIn(S, o, q)
         /\ Whole(t, S, o, q)
         /\ t[q].priority_list = PriosOf(AlongIn(S, o, q))
PROOF
  <1> DEFINE W == AlongIn(S, o, q)
  <1>1. /\ F \in Nat \ {0} /\ q \in Seq(Box) /\ Holds(t[q], W, o, q) /\ t[q].count \in Nat
        /\ t[q].count = 1 <=> \E s \in S : Only(W, s)
        /\ t[q].count > 1 <=> Many(W)
    BY RuleFacts, CountTells
  <1>2. ASSUME NEW s \in W
        PROVE  /\ s \in S /\ s \in Rules /\ KeyOf(s, o) \in Seq(Box) /\ Len(KeyOf(s, o)) = F
               /\ Len(q) \in 0 .. F /\ q = Upto(KeyOf(s, o), Len(q))
    <2>1. s \in S /\ s \in Rules /\ OnWay(q, KeyOf(s, o))
      BY DEF AlongIn
    <2> QED BY <1>1, <2>1, KeyType, KeyLen, OnWayLen
  <1>3. CASE t[q].count = 1
    <2>1. PICK s \in S : Only(W, s)
      <3> HIDE DEF W
      <3> QED BY <1>1, <1>3
    <2>2. W = {s}
      BY <2>1 DEF Only
    <2> HIDE DEF W
    <2>3. ~Many(W)
      BY <2>2 DEF Many
    <2>4. t[q].chain_boxes = Rest(KeyOf(s, o), Len(q)) /\ t[q].priority_list = {Prio[x] : x \in W}
      BY <1>1, <2>2, <2>3 DEF Holds
    <2>5. q \o Rest(KeyOf(s, o), Len(q)) = KeyOf(s, o)
      BY <1>2, <2>2, RestType
    <2> QED BY <2>2, <2>4, <2>5 DEF W, PriosOf, Whole
  <1>4. CASE t[q].count # 1
    <2>1. Len(q) = F /\ q # <<>>
      BY <1>1, <1>4
    <2>2. W # {}
      BY <2>1, AlongSome
    <2>3. t[q].count # 0
      <3>1. t[q].count = Cardinality(W) /\ IsFiniteSet(W)
        <4>1. IsFiniteSet(W)
          BY AlongFinite
        <4> HIDE DEF W
        <4> QED BY <1>1, <4>1 DEF Holds
      <3> HIDE DEF W
      <3> QED BY <2>2, <3>1, FS_EmptySet
    <2>4. Many(W)
      <3> HIDE DEF W
      <3> QED BY <1>1, <1>4, <2>3
    <2>5. t[q].chain_boxes = <<>> /\ t[q].priority_list = {Prio[x] : x \in W}
      <3> HIDE DEF W
      <3> QED BY <1>1, <2>1, <2>4 DEF Holds
    <2>6. q \o <<>> = q
      BY <1>1
    <2>7. \A s \in W : q = KeyOf(s, o)
      <3>1. ASSUME NEW s \in W PROVE q = KeyOf(s, o)
        <4>1. Upto(KeyOf(s, o), F) = KeyOf(s, o)
          BY <1>2, UptoType
        <4> QED BY <1>2, <2>1, <4>1
      <3> QED BY <3>1
    <2>8. \E s \in S : s \in W
      BY <2>2, <1>2
    <2> QED BY <2>5, <2>6, <2>7, <2>8 DEF PriosOf, Whole
  <1> QED BY <1>3, <1>4

\* Where a query may end are exactly the rules that match.
LEMMA EndIs ==
  ASSUME SortAssumption, NEW S, S \subseteq Rules, NEW o \in Orders, NEW t, IsTree(t, S, o),
         Comparable(S, o), NEW p \in Packets, NEW q \in DOMAIN t, EndOf(t, q, PointsOf(o, p))
  PROVE  /\ {r \in S : Matches(r, p)} # {}
         /\ t[q].priority_list = PriosOf({r \in S : Matches(r, p)})
PROOF
  <1>1. t[q].count = 1 \/ Len(q) = F
    <2>1. t[q].count = 1 \/ Len(q) = Len(PointsOf(o, p))
      BY DEF EndOf
    <2>2. Len(PointsOf(o, p)) = F
      BY PointsAre
    <2> QED BY <2>1, <2>2
  <1>2. /\ \E s \in S : s \in AlongIn(S, o, q)
        /\ \A s \in AlongIn(S, o, q) : q \o t[q].chain_boxes = KeyOf(s, o)
        /\ t[q].priority_list = PriosOf(AlongIn(S, o, q))
    BY <1>1, EndHas DEF Whole
  <1>3. InAll(q \o t[q].chain_boxes, PointsOf(o, p))
    BY DEF EndOf
  <1>4. ASSUME NEW s \in AlongIn(S, o, q) PROVE s \in S /\ s \in Rules /\ Matches(s, p)
    <2>1. s \in S /\ s \in Rules
      BY DEF AlongIn
    <2>2. InAll(KeyOf(s, o), PointsOf(o, p))
      BY <1>2, <1>3
    <2> QED BY <2>1, <2>2, InAllMatches
  <1>5. PICK s \in S : s \in AlongIn(S, o, q)
    BY <1>2
  <1>6. ASSUME NEW r \in S, Matches(r, p) PROVE r \in AlongIn(S, o, q)
    <2>1. KeyOf(r, o) = KeyOf(s, o)
      BY <1>4, <1>5, <1>6, OneKey
    <2> QED BY <1>5, <2>1 DEF AlongIn
  <1>7. AlongIn(S, o, q) = {r \in S : Matches(r, p)}
    BY <1>4, <1>6
  <1> QED BY <1>2, <1>5, <1>7

\* A rule that matches has an end the query reaches.
LEMMA EndThere ==
  ASSUME SortAssumption, NEW S, S \subseteq Rules, NEW o \in Orders, NEW t, IsTree(t, S, o),
         NEW p \in Packets, NEW s \in S, Matches(s, p)
  PROVE  \E q \in DOMAIN t : EndOf(t, q, PointsOf(o, p))
PROOF
  <1> DEFINE k == KeyOf(s, o)
             l == Depth(t, k, 1)
             q == Upto(k, l)
  <1>1. s \in Rules /\ F \in Nat \ {0} /\ k \in Seq(Box) /\ Len(k) = F
    <2>1. s \in Rules
      OBVIOUS
    <2> QED BY <2>1, RuleFacts, KeyType, KeyLen
  <1>2. /\ l \in 0 .. F /\ \A i \in 0 .. l : Upto(k, i) \in DOMAIN t
        /\ l = F \/ t[q].count <= 1 \/ Upto(k, l + 1) \notin DOMAIN t
    BY <1>1, DepthIs
  <1> HIDE DEF l
  <1>3. q \in DOMAIN t /\ Len(q) = l
    <2>1. l \in 0 .. l
      BY <1>2
    <2>2. q \in DOMAIN t
      BY <1>2, <2>1
    <2> QED BY <1>1, <1>2, <2>2, UptoType
  <1>4. s \in AlongIn(S, o, q)
    BY <1>1, <1>2, AlongWay DEF AlongIn
  <1>5. /\ t[q].count \in Nat /\ (t[q].count = 0 <=> ~Some(AlongIn(S, o, q)))
        /\ (t[q].count > 1 <=> Many(AlongIn(S, o, q)))
    BY <1>3, CountTells
  <1>6. t[q].count # 0
    BY <1>4, <1>5 DEF Some
  <1>7. t[q].count = 1 \/ l = F
    <2> SUFFICES ASSUME t[q].count # 1, l # F PROVE FALSE
      OBVIOUS
    <2> DEFINE i == l + 1
    <2>1. i \in 1 .. F /\ i \in 0 .. F /\ l \in 0 .. i /\ i # 0 /\ i - 1 = l
      BY <1>1, <1>2
    <2> HIDE DEF q
    <2>2. t[q].count > 1
      BY <1>5, <1>6
    <2>3. Many(AlongIn(S, o, q)) /\ Upto(k, i) \notin DOMAIN t
      BY <1>2, <1>5, <2>2
    <2> HIDE DEF i, k
    <2>4. /\ Upto(k, i) \in Seq(Box) /\ Len(Upto(k, i)) = i /\ OnWay(Upto(k, i), k)
          /\ Upto(k, i) # <<>> /\ Upto(Upto(k, i), l) = Upto(k, l)
      BY <1>1, <2>1, UptoType, OnWayIs DEF k
    <2>5. s \in AlongIn(S, o, Upto(k, i))
      BY <2>4 DEF AlongIn, k
    <2>6. Upto(k, i) \in Paths(S, o)
      BY <2>1, <2>3, <2>4, <2>5 DEF Paths, q
    <2> QED BY <2>3, <2>6 DEF IsTree
  <1>8. q \o t[q].chain_boxes = k
    <2> HIDE DEF q
    <2>1. t[q].count = 1 \/ Len(q) = F
      BY <1>3, <1>7
    <2>2. Whole(t, S, o, q)
      BY <1>3, <2>1, EndHas
    <2> QED BY <1>4, <2>2 DEF Whole
  <1>9. InAll(q \o t[q].chain_boxes, PointsOf(o, p)) /\ Len(PointsOf(o, p)) = F
    BY <1>1, <1>8, InAllMatches, PointsAre
  <1> QED BY <1>3, <1>7, <1>9 DEF EndOf

\* The query of a tree finds the best priority of its rules that match.
LEMMA QueryExact ==
  ASSUME SortAssumption, NEW S, S \subseteq Rules, NEW o \in Orders, NEW t, IsTree(t, S, o),
         Comparable(S, o), NEW p \in Packets
  PROVE  RBExactQuery(t, PointsOf(o, p)) = Top(PriosOf({r \in S : Matches(r, p)}))
PROOF
  <1> DEFINE M == {r \in S : Matches(r, p)}
             ends == {q \in DOMAIN t : EndOf(t, q, PointsOf(o, p))}
             P == PriosOf(M)
  <1>1. RBExactQuery(t, PointsOf(o, p)) =
          IF ends = {} THEN -1 ELSE GetMaxPriority(t[CHOOSE q \in ends : TRUE])
    BY DEF RBExactQuery, EndOf, InAll
  <1>2. M \in SUBSET Rules
    OBVIOUS
  <1>3. /\ Top(P) \in {-1} \cup P /\ \A n \in P : n <= Top(P)
        /\ \A x \in {-1} \cup P : (\A n \in P : n <= x) => x = Top(P)
        /\ M # {} => Top(P) \in P
    <2> HIDE DEF M
    <2> QED BY <1>2, TopIs
  <1>4. CASE ends = {}
    <2>1. M = {}
      BY <1>4, EndThere
    <2>2. P = {}
      BY <2>1 DEF PriosOf
    <2> HIDE DEF P, ends
    <2>3. RBExactQuery(t, PointsOf(o, p)) = -1 /\ Top(P) = -1
      BY <1>1, <1>3, <1>4, <2>2
    <2> QED BY <2>3 DEF P
  <1>5. CASE ends # {}
    <2> DEFINE e == CHOOSE q \in ends : TRUE
    <2>1. e \in ends
      BY <1>5
    <2> HIDE DEF e
    <2>2. e \in DOMAIN t /\ EndOf(t, e, PointsOf(o, p))
      BY <2>1
    <2>3. M # {} /\ t[e].priority_list = P
      BY <2>2, EndIs
    <2> HIDE DEF ends, M
    <2>4. P # {}
      BY <1>3, <2>3
    <2> HIDE DEF P
    <2> DEFINE Best(m) == \A n \in P : n <= m
    <2>5. GetMaxPriority(t[e]) = CHOOSE m \in P : Best(m)
      BY <2>3, <2>4 DEF GetMaxPriority
    <2>6. Top(P) \in P /\ Best(Top(P)) /\ \A m \in P : Best(m) => m = Top(P)
      BY <1>3, <2>3
    <2> HIDE DEF Best
    <2>7. GetMaxPriority(t[e]) = Top(P)
      BY <2>5, <2>6
    <2>8. RBExactQuery(t, PointsOf(o, p)) = GetMaxPriority(t[e])
      BY <1>1, <1>5 DEF e
    <2> QED BY <2>7, <2>8 DEF P, M
  <1> QED BY <1>4, <1>5 DEF P, M

\* what a lookup answers of the rules in S: their best priority, or 0
IsBest(x, S) == x \in {0} \cup PriosOf(S) /\ \A n \in PriosOf(S) : n <= x

\* The best of a set of rules, 0 when there is none, is the one the properties choose.
LEMMA BestIs ==
  ASSUME SortAssumption, NEW S \in SUBSET Rules, NEW x, IsBest(x, S)
  PROVE  x \in Nat /\ x = Top(PriosOf(S) \cup {0})
         /\ x = CHOOSE m \in {0} \cup {Prio[r] : r \in S} : \A r \in S : Prio[r] <= m
PROOF
  <1> DEFINE P == PriosOf(S)
             Best(m) == m \in {0} \cup P /\ \A n \in P : n <= m
             Best0(m) == m \in {-1} \cup (P \cup {0}) /\ \A n \in P \cup {0} : n <= m
  <1>1. P \subseteq Nat \ {0}
    BY RuleFacts DEF PriosOf
  <1>2. x \in {0} \cup P /\ \A n \in P : n <= x
    BY DEF IsBest
  <1>3. (CHOOSE m \in {0} \cup {Prio[r] : r \in S} : \A r \in S : Prio[r] <= m)
        = CHOOSE m : Best(m)
    BY DEF PriosOf
  <1>4. Top(P \cup {0}) = CHOOSE m : Best0(m)
    BY DEF Top
  <1> HIDE DEF P
  <1>5. x \in Nat
    BY <1>1, <1>2
  <1>6. Best(x) /\ Best0(x)
    BY <1>2, <1>5
  <1>7. ASSUME NEW m, Best(m) PROVE m = x
    <2>1. m \in Nat
      BY <1>1, <1>7
    <2>2. m <= x
      <3>1. CASE m = 0
        BY <1>5, <3>1
      <3>2. CASE m \in P
        BY <1>2, <3>2
      <3> QED BY <1>7, <3>1, <3>2
    <2>3. x <= m
      <3>1. CASE x = 0
        BY <2>1, <3>1
      <3>2. CASE x \in P
        BY <1>7, <3>2
      <3> QED BY <1>2, <3>1, <3>2
    <2> QED BY <1>5, <2>1, <2>2, <2>3
  <1>8. ASSUME NEW m, Best0(m) PROVE Best(m)
    <2>1. m # -1
      <3>1. 0 <= m
        BY <1>8
      <3> QED BY <3>1
    <2> QED BY <1>8, <2>1
  <1> HIDE DEF Best, Best0
  <1>9. (CHOOSE m : Best(m)) = x /\ (CHOOSE m : Best0(m)) = x
    <2>1. Best(CHOOSE m : Best(m))
      BY <1>6
    <2>2. Best0(CHOOSE m : Best0(m))
      BY <1>6
    <2> QED BY <1>7, <1>8, <2>1, <2>2
  <1> QED BY <1>3, <1>4, <1>5, <1>9 DEF P

\* The best of what is found in a tree and of what was found before.
LEMMA BestUnion ==
  ASSUME SortAssumption, NEW A \in SUBSET Rules, NEW B \in SUBSET Rules, NEW x, IsBest(x, A),
         NEW y, y = Top(PriosOf(B)), NEW z, z = IF y > x THEN y ELSE x
  PROVE  IsBest(z, A \cup B)
PROOF
  <1> DEFINE P == PriosOf(A)
             Q == PriosOf(B)
  <1>1. PriosOf(A \cup B) = P \cup Q
    BY DEF PriosOf
  <1>2. x \in {0} \cup P /\ \A n \in P : n <= x
    BY DEF IsBest
  <1>3. y \in {-1} \cup Q /\ \A n \in Q : n <= y
    BY TopIs
  <1>4. P \subseteq Nat \ {0} /\ Q \subseteq Nat \ {0}
    BY TopIs
  <1> HIDE DEF P, Q
  <1>5. x \in Nat /\ y \in Int
    BY <1>2, <1>3, <1>4
  <1>6. z \in {0} \cup (P \cup Q)
    <2>1. CASE y > x
      <3>1. y # -1
        BY <1>5, <2>1
      <3> QED BY <1>3, <2>1, <3>1
    <2>2. CASE ~(y > x)
      BY <1>2, <2>2
    <2> QED BY <2>1, <2>2
  <1>7. z \in Int /\ x <= z /\ y <= z
    BY <1>5
  <1>8. ASSUME NEW n \in P \cup Q PROVE n <= z
    <2>1. n \in Nat
      BY <1>4
    <2>2. n <= x \/ n <= y
      BY <1>2, <1>3
    <2> QED BY <1>5, <1>7, <2>1, <2>2
  <1> QED BY <1>1, <1>6, <1>8 DEF IsBest

\* Rules that are no better do not count.
LEMMA BestOfPart ==
  ASSUME SortAssumption, NEW A \in SUBSET Rules, NEW S \in SUBSET Rules, A \subseteq S,
         NEW x, IsBest(x, A), \A r \in S : r \in A \/ Prio[r] <= x
  PROVE  IsBest(x, S)
BY DEF IsBest, PriosOf

-----------------------------------------------------------------------------
(***************************************************************************)
(* A tree with its order of the fields and its priorities.                 *)
(***************************************************************************)
In(T) == {r \in Rules : Prio[r] \in T.priorityContainer}
Cached(T) == T.priorityContainer = PriosOf(In(T)) /\ T.maxPriority = Top(PriosOf(In(T)))
TreeOK(T) ==
  /\ T = [fieldOrder |-> T.fieldOrder, root |-> T.root,
          priorityContainer |-> T.priorityContainer, maxPriority |-> T.maxPriority]
  /\ T.fieldOrder \in Orders
  /\ IsTree(T.root, In(T), T.fieldOrder)
  /\ Comparable(In(T), T.fieldOrder)
  /\ Cached(T)
GoodTree(T) == TreeOK(T) /\ In(T) # {}

\* A tree has the rules whose priorities it lists.
LEMMA InIs ==
  ASSUME SortAssumption, NEW S \in SUBSET Rules, NEW T, T.priorityContainer = PriosOf(S)
  PROVE  In(T) = S
BY RuleFacts DEF In, PriosOf

\* The best priority when a rule is added.
LEMMA TopAdd ==
  ASSUME SortAssumption, NEW S \in SUBSET Rules, NEW r \in Rules
  PROVE  Top(PriosOf(S \cup {r})) = IF Prio[r] > Top(PriosOf(S)) THEN Prio[r] ELSE Top(PriosOf(S))
PROOF
  <1> DEFINE P == PriosOf(S)
             a == Top(P)
             b == IF Prio[r] > a THEN Prio[r] ELSE a
  <1>1. PriosOf(S \cup {r}) = P \cup {Prio[r]}
    BY DEF PriosOf
  <1>2. a \in {-1} \cup P /\ P \subseteq Nat \ {0} /\ \A n \in P : n <= a
    BY TopIs
  <1>3. Prio[r] \in Nat \ {0}
    BY RuleFacts
  <1>4. \A x \in {-1} \cup PriosOf(S \cup {r}) :
          (\A n \in PriosOf(S \cup {r}) : n <= x) => x = Top(PriosOf(S \cup {r}))
    <2> DEFINE R == S \cup {r}
    <2>1. R \in SUBSET Rules
      OBVIOUS
    <2> HIDE DEF R
    <2> QED BY <2>1, TopIs DEF R
  <1> HIDE DEF P, a
  <1>5. a \in Int
    BY <1>2
  <1>6. b \in {-1} \cup (P \cup {Prio[r]}) /\ b \in Int /\ a <= b /\ Prio[r] <= b
    BY <1>2, <1>3, <1>5
  <1>7. ASSUME NEW n \in P \cup {Prio[r]} PROVE n <= b
    <2>1. CASE n = Prio[r]
      BY <1>6, <2>1
    <2>2. CASE n \in P
      <3>1. n <= a /\ n \in Nat
        BY <1>2, <2>2
      <3> HIDE DEF b
      <3> QED BY <1>5, <1>6, <3>1
    <2> QED BY <2>1, <2>2
  <1> HIDE DEF b
  <1>8. b = Top(PriosOf(S \cup {r}))
    BY <1>1, <1>4, <1>6, <1>7
  <1> QED BY <1>8 DEF a, b, P

\* A tree takes a rule that it may.
LEMMA InsertionOK ==
  ASSUME SortAssumption, NEW T, TreeOK(T), NEW r \in Rules, r \notin In(T),
         \A s \in In(T) : ApartAt(KeyOf(r, T.fieldOrder), KeyOf(s, T.fieldOrder))
  PROVE  LET U == TreeInsertion(T, r) IN
         /\ GoodTree(U) /\ In(U) = In(T) \cup {r}
         /\ ~(Prio[r] > T.maxPriority) => U.maxPriority = T.maxPriority
PROOF
  <1> DEFINE o == T.fieldOrder
             S == In(T)
             R == S \cup {r}
             root == RBTreeInsert(T.root, KeyOf(r, o), Prio[r])
             container == T.priorityContainer \cup {Prio[r]}
             max == IF Prio[r] > T.maxPriority THEN Prio[r] ELSE T.maxPriority
             U == TreeInsertion(T, r)
  <1>1. /\ T = [fieldOrder |-> o, root |-> T.root,
                priorityContainer |-> T.priorityContainer, maxPriority |-> T.maxPriority]
        /\ o \in Orders /\ IsTree(T.root, S, o) /\ Comparable(S, o)
        /\ T.priorityContainer = PriosOf(S) /\ T.maxPriority = Top(PriosOf(S))
    BY DEF TreeOK, Cached
  <1>2. S \subseteq Rules /\ R \in SUBSET Rules
    BY DEF In
  <1>3. U = [T EXCEPT !.root = root, !.priorityContainer = container, !.maxPriority = max]
    BY DEF TreeInsertion
  <1> HIDE DEF U, S, root, container, max
  <1>4. /\ U = [fieldOrder |-> o, root |-> root, priorityContainer |-> container, maxPriority |-> max]
        /\ U.fieldOrder = o /\ U.root = root /\ U.priorityContainer = container /\ U.maxPriority = max
    BY <1>1, <1>3
  <1> HIDE DEF o
  <1>5. container = PriosOf(R) /\ max = Top(PriosOf(R))
    <2>1. container = PriosOf(R)
      BY <1>1 DEF PriosOf, container
    <2>2. max = Top(PriosOf(R))
      BY <1>1, <1>2, TopAdd DEF max
    <2> QED BY <2>1, <2>2
  <1> HIDE DEF R
  <1>6. In(U) = R
    BY <1>2, <1>4, <1>5, InIs
  <1>7. IsTree(root, R, o)
    <2>1. r \notin S
      BY DEF S
    <2> QED BY <1>1, <1>2, <2>1, InsertTree DEF root, R
  <1>8. Comparable(R, o)
    <2>1. ASSUME NEW s \in S
          PROVE  ApartAt(KeyOf(r, o), KeyOf(s, o)) /\ ApartAt(KeyOf(s, o), KeyOf(r, o))
      <3>1. ApartAt(KeyOf(r, o), KeyOf(s, o)) /\ s \in Rules
        BY <1>2 DEF S, o
      <3> QED BY <1>1, <3>1, AgreementSame
    <2>2. ApartAt(KeyOf(r, o), KeyOf(r, o))
      <3> DEFINE k == KeyOf(r, o)
      <3>1. Agreement(k, k) \in 0 .. F /\ (Agreement(k, k) # F => k[Agreement(k, k) + 1] # k[Agreement(k, k) + 1])
        BY <1>1, Parting
      <3>2. F \in Nat
        BY RuleFacts
      <3> HIDE DEF k
      <3>3. ~(Agreement(k, k) < F)
        BY <3>1, <3>2
      <3> QED BY <3>3 DEF ApartAt, k
    <2> QED BY <1>1, <2>1, <2>2 DEF Comparable, R
  <1>9. GoodTree(U)
    <2>1. R # {}
      BY DEF R
    <2> QED BY <1>1, <1>4, <1>5, <1>6, <1>7, <1>8, <2>1 DEF GoodTree, TreeOK, Cached
  <1>10. ~(Prio[r] > T.maxPriority) => U.maxPriority = T.maxPriority
    BY <1>4 DEF max
  <1> QED BY <1>6, <1>9, <1>10 DEF R, S, U

\* So does the empty tree, and any tree that says so.
LEMMA CanInsertOK ==
  ASSUME SortAssumption, NEW T, TreeOK(T), NEW r \in Rules, CanInsertRule(T, r)
  PROVE  \A s \in In(T) : ApartAt(KeyOf(r, T.fieldOrder), KeyOf(s, T.fieldOrder))
PROOF
  <1>1. In(T) \subseteq Rules
    BY DEF In
  <1>2. T.fieldOrder \in Orders /\ IsTree(T.root, In(T), T.fieldOrder) /\ Comparable(In(T), T.fieldOrder)
    BY DEF TreeOK
  <1>3. RBTreeCanInsert(T.root, KeyOf(r, T.fieldOrder))
    BY DEF CanInsertRule
  <1> QED BY <1>1, <1>2, <1>3, CanInsertApart

\* A new tree is right and empty.
LEMMA NewTreeOK ==
  ASSUME SortAssumption, NEW r \in Rules, NEW o \in FieldOrders(r)
  PROVE  TreeOK(NewTree(o)) /\ In(NewTree(o)) = {}
PROOF
  <1> DEFINE T == NewTree(o)
  <1>1. o \in Orders
    <2>1. F \in Nat
      BY RuleFacts
    <2>2. o \in [1 .. F -> Fields] /\ \A i, j \in 1 .. F : i < j => o[i] # o[j]
      BY DEF FieldOrders, F
    <2>3. \A i, j \in 1 .. F : i # j => i < j \/ j < i
      BY <2>1
    <2> QED BY <2>2, <2>3 DEF Orders
  <1>2. /\ T = [fieldOrder |-> T.fieldOrder, root |-> T.root,
                priorityContainer |-> T.priorityContainer, maxPriority |-> T.maxPriority]
        /\ T.fieldOrder = o /\ T.root = RBTreeCreate /\ T.priorityContainer = {}
        /\ T.maxPriority = -1
    BY DEF NewTree
  <1>3. In(T) = {} /\ PriosOf({}) = {}
    BY <1>2 DEF In, PriosOf
  <1>4. Top(PriosOf({})) = -1
    BY <1>3, TopIs
  <1>5. IsTree(RBTreeCreate, {}, o)
    BY <1>1, EmptyTree
  <1>6. Comparable({}, o)
    BY DEF Comparable
  <1> HIDE DEF T
  <1> QED BY <1>1, <1>2, <1>3, <1>4, <1>5, <1>6 DEF TreeOK, Cached, T

\* A tree gives up a rule.
LEMMA DeletionOK ==
  ASSUME SortAssumption, NEW T, TreeOK(T), NEW r \in In(T)
  PROVE  LET U == TreeDeletion(T, r) IN
         /\ TreeOK(U) /\ In(U) = In(T) \ {r}
         /\ U.priorityContainer = {} <=> In(U) = {}
         /\ Prio[r] # T.maxPriority /\ U.priorityContainer # {} => U.maxPriority = T.maxPriority
PROOF
  <1> DEFINE o == T.fieldOrder
             S == In(T)
             R == S \ {r}
             root == RBTreeDelete(T.root, KeyOf(r, o), Prio[r])
             container == T.priorityContainer \ {Prio[r]}
             best == Top(container)
             max == IF Prio[r] = T.maxPriority \/ T.priorityContainer = {Prio[r]}
                    THEN best ELSE T.maxPriority
             U == TreeDeletion(T, r)
  <1>1. /\ T = [fieldOrder |-> o, root |-> T.root,
                priorityContainer |-> T.priorityContainer, maxPriority |-> T.maxPriority]
        /\ o \in Orders /\ IsTree(T.root, S, o) /\ Comparable(S, o)
        /\ T.priorityContainer = PriosOf(S) /\ T.maxPriority = Top(PriosOf(S))
    BY DEF TreeOK, Cached
  <1>2. S \in SUBSET Rules /\ R \in SUBSET Rules /\ r \in Rules /\ r \in S /\ r \notin R /\ R \cup {r} = S
    BY DEF In
  <1>3. U = [T EXCEPT !.root = root, !.priorityContainer = container, !.maxPriority = max]
    BY DEF TreeDeletion
  <1> HIDE DEF U, S, root, container, max
  <1>4. /\ U = [fieldOrder |-> o, root |-> root, priorityContainer |-> container, maxPriority |-> max]
        /\ U.fieldOrder = o /\ U.root = root /\ U.priorityContainer = container /\ U.maxPriority = max
    BY <1>1, <1>3
  <1> HIDE DEF o
  <1>5. container = PriosOf(R)
    <2>1. \A s \in S : Prio[s] = Prio[r] => s = r
      BY <1>2, RuleFacts
    <2> QED BY <1>1, <1>2, <2>1 DEF PriosOf, container
  <1>6. container = {} <=> R = {}
    BY <1>5 DEF PriosOf
  <1> HIDE DEF R
  <1>7. max = Top(PriosOf(R))
    <2>1. CASE Prio[r] = T.maxPriority \/ T.priorityContainer = {Prio[r]}
      BY <1>5, <2>1 DEF max
    <2>2. CASE ~(Prio[r] = T.maxPriority \/ T.priorityContainer = {Prio[r]})
      <3> DEFINE m == T.maxPriority
      <3>1. /\ m \in PriosOf(S) /\ \A n \in PriosOf(S) : n <= m
        <4>1. S # {}
          BY <1>2
        <4> QED BY <1>1, <1>2, <4>1, TopIs
      <3>2. PriosOf(R) = PriosOf(S) \ {Prio[r]}
        BY <1>1, <1>5 DEF container
      <3>3. m \in PriosOf(R) /\ \A n \in PriosOf(R) : n <= m
        BY <2>2, <3>1, <3>2
      <3>4. m = Top(PriosOf(R))
        <4> HIDE DEF m
        <4> QED BY <1>2, <3>3, TopIs
      <3> QED BY <2>2, <3>4 DEF max
    <2> QED BY <2>1, <2>2
  <1>8. In(U) = R
    BY <1>2, <1>4, <1>5, InIs
  <1>9. IsTree(root, R, o)
    <2>1. IsTree(T.root, R \cup {r}, o)
      BY <1>1, <1>2
    <2> QED BY <1>1, <1>2, <2>1, DeleteTree DEF root
  <1>10. Comparable(R, o)
    BY <1>1 DEF Comparable, R
  <1>11. TreeOK(U)
    BY <1>1, <1>4, <1>5, <1>7, <1>8, <1>9, <1>10 DEF TreeOK, Cached
  <1>12. Prio[r] # T.maxPriority /\ U.priorityContainer # {} => U.maxPriority = T.maxPriority
    <2>1. T.priorityContainer = {Prio[r]} => container = {}
      BY DEF container
    <2> QED BY <1>4, <2>1 DEF max
  <1> QED BY <1>4, <1>6, <1>8, <1>11, <1>12 DEF R, S, U

-----------------------------------------------------------------------------
(***************************************************************************)
(* The inductive invariant.  The trees are right and not empty, the map    *)
(* names the tree of each stored rule, the vector lists the live trees in  *)
(* order, and a lookup in progress has the best of the trees queried.      *)
(***************************************************************************)
GoodTrees(h) == \A t \in DOMAIN h : t \in Nat /\ GoodTree(h[t])
RulesIn(h) == UNION {In(h[t]) : t \in DOMAIN h}
MapGood(h, map) ==
  /\ DOMAIN map \subseteq Rules
  /\ \A t \in DOMAIN h : \A r \in In(h[t]) : r \in DOMAIN map /\ map[r] = t
TreesGood == Lists(mitrees, DOMAIN mitree) /\ Descends(mitree, mitrees)
Queried(h, arr, n) == UNION {In(h[arr[i]]) : i \in 1 .. n}
ScanTyped ==
  scan = NoScan \/ scan \in [packet : Packets, query : 0 .. Len(mitrees), result : Nat]
ScanBest ==
  scan # NoScan =>
    IsBest(scan.result, {r \in Queried(mitree, mitrees, scan.query) : Matches(r, scan.packet)})

SortInv ==
  GoodTrees(mitree) /\ MapGood(mitree, rule_tree_map) /\ TreesGood /\ ScanTyped /\ ScanBest

\* The rules stored are those of the trees.
LEMMA StoredIs == Stored = RulesIn(mitree) /\ Stored \in SUBSET Rules
BY DEF Stored, RulesOf, RulesIn, In

\* Sorting keeps the trees of the vector.
LEMMA SortedTrees ==
  ASSUME NEW h, NEW D, NEW arr, Lists(arr, D), NEW s \in Sorted(h, arr)
  PROVE  Lists(s, D) /\ Len(s) = Len(arr) /\ Descends(h, s)
PROOF
  <1>1. PICK f \in [DOMAIN arr -> DOMAIN arr] :
          /\ {f[i] : i \in DOMAIN arr} = DOMAIN arr
          /\ s = [i \in DOMAIN arr |-> arr[f[i]]] /\ Descends(h, s)
    BY DEF Sorted
  <1>2. \A j \in DOMAIN arr : \E i \in DOMAIN arr : f[i] = j
    BY <1>1
  <1>3. InOrder(s, arr, f)
    BY <1>1, <1>2 DEF InOrder
  <1>4. Lists(s, D) /\ Len(s) = Len(arr)
    BY <1>3, PermutedLists
  <1> QED BY <1>1, <1>4

\* The vector descends still when no best priority changes.
LEMMA StillDescends ==
  ASSUME NEW h, NEW D, NEW g, NEW arr, Lists(arr, D), Descends(h, arr),
         \A k \in D : g[k].maxPriority = h[k].maxPriority
  PROVE  Descends(g, arr)
PROOF
  <1>1. \A i \in DOMAIN arr : arr[i] \in D
    BY DEF Lists
  <1> QED BY <1>1 DEF Descends

\* The invariant after an update that leaves the trees h.
LEMMA Join ==
  ASSUME NEW h, GoodTrees(h), mitree' = h, scan' = NoScan, MapGood(h, rule_tree_map'),
         Lists(mitrees', DOMAIN h), Descends(h, mitrees')
  PROVE  SortInv'
BY DEF SortInv, GoodTrees, GoodTree, TreeOK, In, IsTree, Comparable, Cached, MapGood, TreesGood,
       ScanTyped, ScanBest

\* the trees h are those of g, but for tree t, which is U and has the rules R
Changed(h, g, t, U, R) ==
  /\ DOMAIN h = DOMAIN g \cup {t} /\ h[t] = U /\ \A u \in DOMAIN g : u # t => h[u] = g[u]
  /\ In(U) = R
RulesAt(g, t) == IF t \in DOMAIN g THEN In(g[t]) ELSE {}

\* the map "more" remembers tree t for rule r besides
Remembers(more, map, r, t) ==
  more = [q \in DOMAIN map \cup {r} |-> IF q = r THEN t ELSE map[q]]

\* The trees when tree t, with rule r more, is now U.
LEMMA GoodAfter ==
  ASSUME NEW g, GoodTrees(g), NEW map, MapGood(g, map), NEW r \in Rules, r \notin RulesIn(g),
         NEW t \in Nat, NEW U, GoodTree(U), NEW h, Changed(h, g, t, U, RulesAt(g, t) \cup {r}),
         NEW more, Remembers(more, map, r, t)
  PROVE  GoodTrees(h) /\ MapGood(h, more) /\ RulesIn(h) = RulesIn(g) \cup {r}
PROOF
  <1> USE DEF Changed, RulesAt
  <1>1. GoodTrees(h)
    BY DEF GoodTrees
  <1>2. ASSUME NEW u \in DOMAIN h, NEW q \in In(h[u]) PROVE q \in DOMAIN more /\ more[q] = u
    <2>1. CASE q = r
      <3>1. u = t
        <4> SUFFICES ASSUME u # t PROVE FALSE
          OBVIOUS
        <4>1. u \in DOMAIN g /\ r \in In(g[u])
          BY <1>2, <2>1
        <4> QED BY <4>1 DEF RulesIn
      <3> QED BY <2>1, <3>1 DEF Remembers
    <2>2. CASE q # r
      <3>1. u \in DOMAIN g /\ q \in In(g[u])
        <4>1. CASE u = t
          BY <1>2, <2>2, <4>1
        <4>2. CASE u # t
          BY <1>2, <4>2
        <4> QED BY <4>1, <4>2
      <3>2. q \in DOMAIN map /\ map[q] = u
        BY <3>1 DEF MapGood
      <3> QED BY <2>2, <3>2 DEF Remembers
    <2> QED BY <2>1, <2>2
  <1>3. MapGood(h, more)
    BY <1>2 DEF MapGood, Remembers
  <1>4. RulesIn(h) = RulesIn(g) \cup {r}
    <2>1. ASSUME NEW q \in RulesIn(h) PROVE q \in RulesIn(g) \cup {r}
      <3>1. PICK u \in DOMAIN h : q \in In(h[u])
        BY DEF RulesIn
      <3>2. CASE u = t
        BY <3>1, <3>2 DEF RulesIn
      <3>3. CASE u # t
        BY <3>1, <3>3 DEF RulesIn
      <3> QED BY <3>2, <3>3
    <2>2. ASSUME NEW q \in RulesIn(g) PROVE q \in RulesIn(h)
      <3>1. PICK u \in DOMAIN g : q \in In(g[u])
        BY DEF RulesIn
      <3>2. u \in DOMAIN h /\ q \in In(h[u])
        BY <3>1
      <3> QED BY <3>2 DEF RulesIn
    <2>3. r \in RulesIn(h)
      BY DEF RulesIn
    <2> QED BY <2>1, <2>2, <2>3
  <1> QED BY <1>1, <1>3, <1>4

\* An insert into a tree that takes the rule.
LEMMA InsertIntoInv ==
  ASSUME SortAssumption, SortInv, scan' = NoScan, NEW r \in Rules, r \notin Stored, InsertInto(r)
  PROVE  SortInv' /\ Stored' = Stored \cup {r}
PROOF
  <1> DEFINE i == CHOOSE i \in Takers(r) : \A j \in Takers(r) : i <= j
             t == mitrees[i]
             T == mitree[t]
             U == TreeInsertion(T, r)
             h == [mitree EXCEPT ![t] = U]
             more == [q \in DOMAIN rule_tree_map \cup {r} |-> IF q = r THEN t ELSE rule_tree_map[q]]
  <1>1. /\ Takers(r) # {} /\ mitree' = h /\ rule_tree_map' = more
        /\ mitrees' \in IF Prio[r] > T.maxPriority THEN Sorted(h, mitrees) ELSE {mitrees}
    BY DEF InsertInto, Remember
  <1>2. /\ GoodTrees(mitree) /\ MapGood(mitree, rule_tree_map)
        /\ Lists(mitrees, DOMAIN mitree) /\ Descends(mitree, mitrees) /\ r \notin RulesIn(mitree)
    BY StoredIs DEF SortInv, TreesGood
  <1>3. i \in Takers(r)
    <2>1. Len(mitrees) \in Nat /\ Takers(r) \in SUBSET (1 .. Len(mitrees))
      BY <1>2, ListsCount DEF Takers
    <2>2. \E n \in Takers(r) : \A j \in Takers(r) : n <= j
      BY <1>1, <2>1, LeastIndex
    <2> QED BY <2>2
  <1> HIDE DEF i
  <1>4. t \in DOMAIN mitree /\ CanInsertRule(T, r)
    BY <1>2, <1>3 DEF Takers, Lists
  <1> HIDE DEF t
  <1>5. t \in Nat /\ GoodTree(T)
    BY <1>2, <1>4 DEF GoodTrees
  <1>6. TreeOK(T) /\ r \notin In(T)
    BY <1>2, <1>4, <1>5 DEF GoodTree, RulesIn
  <1> HIDE DEF T
  <1>7. \A s \in In(T) : ApartAt(KeyOf(r, T.fieldOrder), KeyOf(s, T.fieldOrder))
    BY <1>4, <1>6, CanInsertOK
  <1>8. GoodTree(U) /\ In(U) = In(T) \cup {r} /\ (~(Prio[r] > T.maxPriority) => U.maxPriority = T.maxPriority)
    BY <1>6, <1>7, InsertionOK
  <1> HIDE DEF U
  <1>9. DOMAIN h = DOMAIN mitree /\ h[t] = U /\ \A u \in DOMAIN mitree : u # t => h[u] = mitree[u]
    BY <1>4
  <1>10. Remembers(more, rule_tree_map, r, t)
    BY DEF Remembers
  <1> HIDE DEF h, more
  <1>11. GoodTrees(h) /\ MapGood(h, more) /\ RulesIn(h) = RulesIn(mitree) \cup {r}
    <2>1. Changed(h, mitree, t, U, RulesAt(mitree, t) \cup {r})
      BY <1>4, <1>8, <1>9 DEF Changed, RulesAt, T
    <2>2. GoodTrees(mitree) /\ MapGood(mitree, rule_tree_map) /\ r \notin RulesIn(mitree)
      BY <1>2
    <2>3. t \in Nat /\ GoodTree(U)
      BY <1>5, <1>8
    <2>4. GoodTrees(h)
      BY <1>10, <2>1, <2>2, <2>3, GoodAfter
    <2>5. MapGood(h, more)
      BY <1>10, <2>1, <2>2, <2>3, GoodAfter
    <2>6. RulesIn(h) = RulesIn(mitree) \cup {r}
      BY <1>10, <2>1, <2>2, <2>3, GoodAfter
    <2> QED BY <2>4, <2>5, <2>6
  <1>12. Lists(mitrees', DOMAIN h) /\ Descends(h, mitrees')
    <2>1. CASE Prio[r] > T.maxPriority
      <3>1. mitrees' \in Sorted(h, mitrees)
        BY <1>1, <2>1
      <3> QED BY <1>2, <1>9, <3>1, SortedTrees
    <2>2. CASE ~(Prio[r] > T.maxPriority)
      <3>1. \A u \in DOMAIN mitree : h[u].maxPriority = mitree[u].maxPriority
        BY <1>8, <1>9, <2>2 DEF T
      <3>2. mitrees' = mitrees
        BY <1>1, <2>2
      <3>3. Descends(h, mitrees)
        BY <1>2, <3>1, StillDescends
      <3> QED BY <1>2, <1>9, <3>2, <3>3
    <2> QED BY <2>1, <2>2
  <1>13. SortInv'
    BY <1>1, <1>11, <1>12, Join
  <1>14. Stored' = RulesIn(h)
    BY <1>1 DEF Stored, RulesOf, RulesIn, In
  <1> QED BY <1>11, <1>13, <1>14, StoredIs

\* The allocator has an address left.
LEMMA AddressFree ==
  ASSUME SortInv
  PROVE  Address \in Nat /\ Address \notin DOMAIN mitree
PROOF
  <1> DEFINE D == DOMAIN mitree  n == Cardinality(D)
  <1>1. IsFiniteSet(D) /\ n \in Nat
    BY ListsCount DEF SortInv, TreesGood
  <1>2. ~(1 .. n + 1 \subseteq D)
    <2>1. Cardinality(1 .. n + 1) = n + 1
      BY <1>1, FS_Interval
    <2>2. ASSUME 1 .. n + 1 \subseteq D PROVE Cardinality(1 .. n + 1) <= n
      BY <1>1, <2>2, FS_Subset
    <2> HIDE DEF n, D
    <2> QED BY <1>1, <2>1, <2>2
  <1>3. Address \in 1 .. n + 1 /\ Address \notin D
    BY <1>2 DEF Address
  <1> HIDE DEF n, D
  <1>4. Address \in Nat
    BY <1>1, <1>3
  <1> QED BY <1>3, <1>4 DEF D

\* An insert into a new tree.
LEMMA InsertNewTreeInv ==
  ASSUME SortAssumption, SortInv, scan' = NoScan, NEW r \in Rules, r \notin Stored,
         InsertNewTree(r)
  PROVE  SortInv' /\ Stored' = Stored \cup {r}
PROOF
  <1> DEFINE t == Address
             more == [q \in DOMAIN rule_tree_map \cup {r} |-> IF q = r THEN t ELSE rule_tree_map[q]]
             list == Append(mitrees, t)
             With(order) == [u \in DOMAIN mitree \cup {t} |->
                               IF u = t THEN TreeInsertion(NewTree(order), r) ELSE mitree[u]]
  <1>1. PICK order \in FieldOrders(r) :
          /\ mitree' = With(order) /\ mitrees' \in Sorted(With(order), list)
          /\ rule_tree_map' = more
    BY DEF InsertNewTree, Remember
  <1> DEFINE N == NewTree(order)
             U == TreeInsertion(N, r)
             h == With(order)
  <1>2. /\ GoodTrees(mitree) /\ MapGood(mitree, rule_tree_map)
        /\ Lists(mitrees, DOMAIN mitree) /\ r \notin RulesIn(mitree)
    BY StoredIs DEF SortInv, TreesGood
  <1>3. t \in Nat /\ t \notin DOMAIN mitree
    BY AddressFree
  <1> HIDE DEF t
  <1>4. GoodTree(U) /\ In(U) = {r}
    <2>1. TreeOK(N) /\ In(N) = {}
      BY NewTreeOK
    <2> HIDE DEF N
    <2>2. GoodTree(U) /\ In(U) = In(N) \cup {r}
      BY <2>1, InsertionOK
    <2> QED BY <2>1, <2>2
  <1> HIDE DEF U
  <1>5. /\ DOMAIN h = DOMAIN mitree \cup {t} /\ h[t] = U
        /\ \A u \in DOMAIN mitree : u # t => h[u] = mitree[u]
    BY <1>3 DEF U, N
  <1>6. Remembers(more, rule_tree_map, r, t)
    BY DEF Remembers
  <1>7. mitree' = h /\ mitrees' \in Sorted(h, list) /\ rule_tree_map' = more
    BY <1>1
  <1> HIDE DEF h, more
  <1>8. GoodTrees(h) /\ MapGood(h, more) /\ RulesIn(h) = RulesIn(mitree) \cup {r}
    <2>1. Changed(h, mitree, t, U, RulesAt(mitree, t) \cup {r})
      BY <1>3, <1>4, <1>5 DEF Changed, RulesAt
    <2>2. GoodTrees(mitree) /\ MapGood(mitree, rule_tree_map) /\ r \notin RulesIn(mitree)
      BY <1>2
    <2>3. t \in Nat /\ GoodTree(U)
      BY <1>3, <1>4
    <2>4. GoodTrees(h)
      BY <1>6, <2>1, <2>2, <2>3, GoodAfter
    <2>5. MapGood(h, more)
      BY <1>6, <2>1, <2>2, <2>3, GoodAfter
    <2>6. RulesIn(h) = RulesIn(mitree) \cup {r}
      BY <1>6, <2>1, <2>2, <2>3, GoodAfter
    <2> QED BY <2>4, <2>5, <2>6
  <1>9. Lists(mitrees', DOMAIN h) /\ Descends(h, mitrees')
    <2>1. Lists(list, DOMAIN h)
      BY <1>2, <1>3, <1>5, AppendLists
    <2> HIDE DEF list
    <2> QED BY <1>7, <2>1, SortedTrees
  <1>10. SortInv'
    BY <1>7, <1>8, <1>9, Join
  <1>11. Stored' = RulesIn(h)
    BY <1>7 DEF Stored, RulesOf, RulesIn, In
  <1> QED BY <1>8, <1>10, <1>11, StoredIs

\* The trees when tree t has lost rule r and is now U.
LEMMA GoodWithout ==
  ASSUME NEW g, GoodTrees(g), NEW map, MapGood(g, map), NEW t \in DOMAIN g, NEW r \in In(g[t]),
         NEW U, GoodTree(U), NEW h, Changed(h, g, t, U, RulesAt(g, t) \ {r})
  PROVE  GoodTrees(h) /\ MapGood(h, map) /\ RulesIn(h) = RulesIn(g) \ {r}
PROOF
  <1> USE DEF Changed, RulesAt
  <1>1. GoodTrees(h)
    BY DEF GoodTrees
  <1>2. ASSUME NEW u \in DOMAIN h, NEW q \in In(h[u]) PROVE u \in DOMAIN g /\ q \in In(g[u]) /\ q # r
    <2>1. CASE u = t
      BY <1>2, <2>1
    <2>2. CASE u # t
      <3>1. u \in DOMAIN g /\ q \in In(g[u])
        BY <1>2, <2>2
      <3>2. map[q] = u /\ map[r] = t
        BY <3>1 DEF MapGood
      <3> QED BY <2>2, <3>1, <3>2
    <2> QED BY <2>1, <2>2
  <1>3. MapGood(h, map)
    BY <1>2 DEF MapGood
  <1>4. ASSUME NEW q \in RulesIn(g), q # r PROVE q \in RulesIn(h)
    <2>1. PICK u \in DOMAIN g : q \in In(g[u])
      BY DEF RulesIn
    <2>2. u \in DOMAIN h /\ q \in In(h[u])
      BY <1>4, <2>1
    <2> QED BY <2>2 DEF RulesIn
  <1>5. RulesIn(h) \subseteq RulesIn(g) \ {r}
    BY <1>2 DEF RulesIn
  <1> QED BY <1>1, <1>3, <1>4, <1>5

\* What is known of the tree that a delete finds.
LEMMA DeleteFinds ==
  ASSUME SortAssumption, SortInv, NEW r \in Rules, r \in Stored, NEW t, t = rule_tree_map[r]
  PROVE  /\ t \in DOMAIN mitree /\ t \in Nat /\ r \in In(mitree[t]) /\ GoodTree(mitree[t])
         /\ TreeOK(mitree[t])
PROOF
  <1>1. PICK u \in DOMAIN mitree : r \in In(mitree[u])
    BY StoredIs DEF RulesIn
  <1>2. u = t
    BY <1>1 DEF SortInv, MapGood
  <1> QED BY <1>1, <1>2 DEF SortInv, GoodTrees, GoodTree

\* A rule goes, and its tree stays.
LEMMA DeleteKeepInv ==
  ASSUME SortAssumption, SortInv, scan' = NoScan, NEW r \in Rules, r \in Stored,
         NEW t, t = rule_tree_map[r], NEW T, T = mitree[t], NEW U, U = TreeDeletion(T, r),
         U.priorityContainer # {}, NEW h, h = [mitree EXCEPT ![t] = U],
         mitree' = h, rule_tree_map' = rule_tree_map,
         mitrees' \in IF Prio[r] = T.maxPriority THEN Sorted(h, mitrees) ELSE {mitrees}
  PROVE  SortInv' /\ Stored' = Stored \ {r}
PROOF
  <1>1. /\ GoodTrees(mitree) /\ MapGood(mitree, rule_tree_map)
        /\ Lists(mitrees, DOMAIN mitree) /\ Descends(mitree, mitrees)
    BY DEF SortInv, TreesGood
  <1>2. t \in DOMAIN mitree /\ r \in In(T) /\ TreeOK(T)
    BY DeleteFinds
  <1>3. /\ TreeOK(U) /\ In(U) = In(T) \ {r} /\ (U.priorityContainer = {} <=> In(U) = {})
        /\ Prio[r] # T.maxPriority /\ U.priorityContainer # {} => U.maxPriority = T.maxPriority
    BY <1>2, DeletionOK
  <1>4. GoodTree(U)
    BY <1>3 DEF GoodTree
  <1>5. DOMAIN h = DOMAIN mitree /\ h[t] = U /\ \A u \in DOMAIN mitree : u # t => h[u] = mitree[u]
    BY <1>2
  <1>6. Changed(h, mitree, t, U, RulesAt(mitree, t) \ {r})
    BY <1>2, <1>3, <1>5 DEF Changed, RulesAt
  <1>7. GoodTrees(h) /\ MapGood(h, rule_tree_map) /\ RulesIn(h) = RulesIn(mitree) \ {r}
    <2>1. GoodTrees(mitree) /\ MapGood(mitree, rule_tree_map) /\ r \in In(mitree[t])
      BY <1>1, <1>2
    <2>2. GoodTrees(h)
      BY <1>2, <1>4, <1>6, <2>1, GoodWithout
    <2>3. MapGood(h, rule_tree_map)
      BY <1>2, <1>4, <1>6, <2>1, GoodWithout
    <2>4. RulesIn(h) = RulesIn(mitree) \ {r}
      BY <1>2, <1>4, <1>6, <2>1, GoodWithout
    <2> QED BY <2>2, <2>3, <2>4
  <1>8. Lists(mitrees', DOMAIN h) /\ Descends(h, mitrees')
    <2>1. CASE Prio[r] = T.maxPriority
      <3>1. mitrees' \in Sorted(h, mitrees)
        BY <2>1
      <3> QED BY <1>1, <1>5, <3>1, SortedTrees
    <2>2. CASE Prio[r] # T.maxPriority
      <3>1. \A u \in DOMAIN mitree : h[u].maxPriority = mitree[u].maxPriority
        BY <1>3, <1>5, <2>2
      <3>2. mitrees' = mitrees
        BY <2>2
      <3>3. Descends(h, mitrees)
        BY <1>1, <3>1, StillDescends
      <3> QED BY <1>1, <1>5, <3>2, <3>3
    <2> QED BY <2>1, <2>2
  <1>9. SortInv'
    BY <1>7, <1>8, Join
  <1>10. Stored' = RulesIn(h)
    BY DEF Stored, RulesOf, RulesIn, In
  <1> QED BY <1>7, <1>9, <1>10, StoredIs

\* the trees h are those of g, but tree t is empty
Emptied(h, g, t) == /\ DOMAIN h = DOMAIN g /\ h[t].maxPriority = -1
                    /\ \A u \in DOMAIN g : u # t => h[u] = g[u]

\* Only an emptied tree has no best priority, so it is last.
LEMMA EmptiedLast ==
  ASSUME SortAssumption, NEW g, GoodTrees(g), NEW t \in DOMAIN g, NEW h, Emptied(h, g, t),
         NEW s, Lists(s, DOMAIN g), Descends(h, s)
  PROVE  Len(s) \in DOMAIN s /\ s[Len(s)] = t
PROOF
  <1> USE DEF Emptied
  <1>1. Len(s) \in Nat /\ DOMAIN s = 1 .. Len(s) /\ Len(s) \in DOMAIN s
    BY ListsCount, FrontLists
  <1> SUFFICES ASSUME s[Len(s)] # t PROVE FALSE
    BY <1>1
  <1> DEFINE last == s[Len(s)]
  <1>2. PICK i \in DOMAIN s : s[i] = t
    BY DEF Lists
  <1>3. i < Len(s)
    BY <1>1, <1>2
  <1>4. h[t].maxPriority >= h[last].maxPriority
    BY <1>1, <1>2, <1>3 DEF Descends
  <1>5. last \in DOMAIN g /\ last # t
    BY <1>1 DEF Lists
  <1> HIDE DEF last
  <1>6. In(g[last]) # {} /\ Cached(g[last]) /\ In(g[last]) \in SUBSET Rules
    BY <1>5 DEF GoodTrees, GoodTree, TreeOK, In
  <1>7. h[last].maxPriority \in Nat \ {0}
    <2>1. h[last].maxPriority = Top(PriosOf(In(g[last])))
      BY <1>5, <1>6 DEF Cached
    <2>2. Top(PriosOf(In(g[last]))) \in PriosOf(In(g[last])) /\ PriosOf(In(g[last])) \subseteq Nat \ {0}
      BY <1>6, TopIs
    <2> QED BY <2>1, <2>2
  <1> QED BY <1>4, <1>7

\* A rule goes, and its tree with it.
LEMMA DeleteTreeInv ==
  ASSUME SortAssumption, SortInv, scan' = NoScan, NEW r \in Rules, r \in Stored,
         NEW t, t = rule_tree_map[r], NEW T, T = mitree[t], NEW U, U = TreeDeletion(T, r),
         U.priorityContainer = {}, NEW h, h = [mitree EXCEPT ![t] = U],
         NEW list \in Sorted(h, mitrees), mitree' = [u \in DOMAIN mitree \ {t} |-> mitree[u]],
         rule_tree_map' = rule_tree_map, mitrees' = SubSeq(list, 1, Len(list) - 1)
  PROVE  SortInv' /\ Stored' = Stored \ {r}
PROOF
  <1> DEFINE g == [u \in DOMAIN mitree \ {t} |-> mitree[u]]
  <1>1. /\ GoodTrees(mitree) /\ MapGood(mitree, rule_tree_map) /\ Lists(mitrees, DOMAIN mitree)
    BY DEF SortInv, TreesGood
  <1>2. t \in DOMAIN mitree /\ r \in In(T) /\ TreeOK(T)
    BY DeleteFinds
  <1>3. TreeOK(U) /\ In(U) = In(T) \ {r} /\ In(U) = {}
    BY <1>2, DeletionOK
  <1>4. In(T) = {r}
    BY <1>2, <1>3
  <1>5. U.maxPriority = -1
    <2>1. U.maxPriority = Top(PriosOf({})) /\ PriosOf({}) = {}
      BY <1>3 DEF TreeOK, Cached, PriosOf
    <2> QED BY <2>1, TopIs
  <1>6. /\ DOMAIN h = DOMAIN mitree /\ h[t].maxPriority = -1
        /\ \A u \in DOMAIN mitree : u # t => h[u] = mitree[u]
    BY <1>2, <1>5
  <1>7. mitree' = g /\ DOMAIN g = DOMAIN mitree \ {t} /\ \A u \in DOMAIN g : g[u] = mitree[u] /\ g[u] = h[u]
    BY <1>6
  <1> HIDE DEF g
  <1>8. Lists(list, DOMAIN mitree) /\ Descends(h, list)
    BY <1>1, SortedTrees
  <1>9. Len(list) \in DOMAIN list /\ list[Len(list)] = t
    <2>1. Emptied(h, mitree, t)
      BY <1>6 DEF Emptied
    <2>2. GoodTrees(mitree) /\ t \in DOMAIN mitree
      BY <1>1, <1>2
    <2> QED BY <1>8, <2>1, <2>2, EmptiedLast
  <1>10. /\ Lists(mitrees', DOMAIN g)
         /\ \A i \in DOMAIN mitrees' : i \in DOMAIN list /\ mitrees'[i] = list[i]
    BY <1>2, <1>7, <1>8, <1>9, FrontLists
  <1>11. Descends(g, mitrees')
    <2>1. \A i \in DOMAIN mitrees' : g[mitrees'[i]] = h[list[i]] /\ i \in DOMAIN list
      <3>1. \A i \in DOMAIN mitrees' : mitrees'[i] \in DOMAIN g
        BY <1>10 DEF Lists
      <3> QED BY <1>7, <1>10, <3>1
    <2> QED BY <1>8, <2>1 DEF Descends
  <1>12. GoodTrees(g) /\ MapGood(g, rule_tree_map)
    BY <1>1, <1>7 DEF GoodTrees, MapGood
  <1>13. RulesIn(g) = RulesIn(mitree) \ {r}
    <2>1. \A u \in DOMAIN mitree : r \in In(mitree[u]) => u = t
      BY <1>1 DEF MapGood
    <2> QED BY <1>2, <1>4, <1>7, <2>1 DEF RulesIn
  <1>14. SortInv'
    BY <1>7, <1>10, <1>11, <1>12, Join
  <1>15. Stored' = RulesIn(g)
    <2>1. mitree' = g
      BY <1>7
    <2>2. Stored' = RulesIn(mitree')
      BY DEF Stored, RulesOf, RulesIn, In
    <2> QED BY <2>1, <2>2
  <1> QED BY <1>13, <1>14, <1>15, StoredIs

\* An update keeps the invariant and does what it was called for.
LEMMA UpdateInv ==
  ASSUME SortAssumption, SortInv, NEW r \in Rules, InsertRule(r) \/ DeleteRule(r)
  PROVE  /\ SortInv' /\ answer' = <<>>
         /\ \/ r \notin Stored /\ Stored' = Stored \cup {r}
            \/ r \in Stored /\ Stored' = Stored \ {r}
PROOF
  <1>1. CASE InsertRule(r)
    <2>1. scan' = NoScan /\ r \notin Stored /\ answer' = <<>> /\ (InsertInto(r) \/ InsertNewTree(r))
      BY <1>1 DEF InsertRule
    <2> HIDE DEF SortInv
    <2> QED BY <2>1, InsertIntoInv, InsertNewTreeInv
  <1>2. CASE DeleteRule(r)
    <2> DEFINE t == rule_tree_map[r]
               T == mitree[t]
               U == TreeDeletion(T, r)
               h == [mitree EXCEPT ![t] = U]
    <2>1. /\ scan' = NoScan /\ r \in Stored /\ answer' = <<>> /\ rule_tree_map' = rule_tree_map
          /\ \E list \in IF Prio[r] = T.maxPriority \/ U.priorityContainer = {}
                         THEN Sorted(h, mitrees) ELSE {mitrees} :
               IF U.priorityContainer = {}
               THEN /\ mitree' = [u \in DOMAIN mitree \ {t} |-> mitree[u]]
                    /\ mitrees' = SubSeq(list, 1, Len(list) - 1)
               ELSE mitree' = h /\ mitrees' = list
      BY <1>2 DEF DeleteRule
    <2>2. CASE U.priorityContainer = {}
      <3>1. PICK list \in Sorted(h, mitrees) :
              /\ mitree' = [u \in DOMAIN mitree \ {t} |-> mitree[u]]
              /\ mitrees' = SubSeq(list, 1, Len(list) - 1)
        BY <2>1, <2>2
      <3> HIDE DEF SortInv
      <3> QED BY <2>1, <2>2, <3>1, DeleteTreeInv
    <2>3. CASE U.priorityContainer # {}
      <3>1. /\ mitree' = h
            /\ mitrees' \in IF Prio[r] = T.maxPriority THEN Sorted(h, mitrees) ELSE {mitrees}
        BY <2>1, <2>3
      <3> HIDE DEF SortInv
      <3> QED BY <2>1, <2>3, <3>1, DeleteKeepInv
    <2> QED BY <2>2, <2>3
  <1> QED BY <1>1, <1>2

-----------------------------------------------------------------------------
(***************************************************************************)
(* Lookups.                                                                *)
(***************************************************************************)

\* The trees that stay as they are stay right.
LEMMA StoreStays ==
  ASSUME SortInv, UNCHANGED store, ScanTyped', ScanBest'
  PROVE  SortInv' /\ Stored' = Stored
PROOF
  <1>1. mitree' = mitree /\ mitrees' = mitrees /\ rule_tree_map' = rule_tree_map
    BY DEF store
  <1>2. GoodTrees(mitree)' /\ MapGood(mitree, rule_tree_map)' /\ TreesGood'
    BY <1>1 DEF SortInv, GoodTrees, GoodTree, TreeOK, In, IsTree, Comparable, Cached, MapGood, TreesGood
  <1> QED BY <1>1, <1>2 DEF SortInv, Stored, RulesOf

\* The rules of the first n trees.
LEMMA QueriedIs ==
  ASSUME NEW h, NEW arr, Lists(arr, DOMAIN h), NEW n \in 0 .. Len(arr)
  PROVE  /\ Len(arr) \in Nat /\ DOMAIN arr = 1 .. Len(arr) /\ n \in Nat
         /\ Queried(h, arr, n) \subseteq RulesIn(h) /\ RulesIn(h) \subseteq Rules
         /\ Queried(h, arr, 0) = {}
         /\ n < Len(arr) => /\ arr[n + 1] \in DOMAIN h
                            /\ Queried(h, arr, n + 1) = Queried(h, arr, n) \cup In(h[arr[n + 1]])
PROOF
  <1>1. Len(arr) \in Nat /\ DOMAIN arr = 1 .. Len(arr) /\ n \in Nat
        /\ \A i \in DOMAIN arr : arr[i] \in DOMAIN h
    BY DEF Lists
  <1>2. RulesIn(h) \subseteq Rules
    BY DEF RulesIn, In
  <1>3. Queried(h, arr, n) \subseteq RulesIn(h)
    BY <1>1 DEF Queried, RulesIn
  <1>4. Queried(h, arr, 0) = {}
    BY DEF Queried
  <1>5. 1 .. n + 1 = 1 .. n \cup {n + 1}
    BY <1>1
  <1>6. n < Len(arr) => n + 1 \in DOMAIN arr
    BY <1>1
  <1>7. Queried(h, arr, n + 1) = Queried(h, arr, n) \cup In(h[arr[n + 1]])
    BY <1>5 DEF Queried
  <1> QED BY <1>1, <1>2, <1>3, <1>4, <1>6, <1>7

\* When the best priority of the next tree is below x, so is all that is left.
LEMMA NothingBetter ==
  ASSUME SortAssumption, NEW h, GoodTrees(h), NEW arr, Lists(arr, DOMAIN h), Descends(h, arr),
         NEW n \in 0 .. Len(arr), NEW x \in Nat, n < Len(arr) => x > h[arr[n + 1]].maxPriority
  PROVE  \A r \in RulesIn(h) : r \in Queried(h, arr, n) \/ Prio[r] <= x
PROOF
  <1>1. Len(arr) \in Nat /\ DOMAIN arr = 1 .. Len(arr) /\ n \in Nat
    BY QueriedIs
  <1> SUFFICES ASSUME NEW r \in RulesIn(h), r \notin Queried(h, arr, n) PROVE Prio[r] <= x
    OBVIOUS
  <1>2. PICK t \in DOMAIN h : r \in In(h[t])
    BY DEF RulesIn
  <1>3. PICK i \in DOMAIN arr : arr[i] = t
    BY <1>2 DEF Lists
  <1>4. i \in Nat /\ i >= n + 1 /\ n < Len(arr) /\ n + 1 \in DOMAIN arr
    <2>1. i \notin 1 .. n
      BY <1>2, <1>3 DEF Queried
    <2> QED BY <1>1, <1>3, <2>1
  <1>5. ASSUME NEW u \in DOMAIN h
        PROVE  h[u].maxPriority \in Nat /\ \A q \in In(h[u]) : Prio[q] <= h[u].maxPriority /\ Prio[q] \in Nat
    <2> DEFINE S == In(h[u])
    <2>1. S \in SUBSET Rules /\ S # {} /\ h[u].maxPriority = Top(PriosOf(S))
      BY DEF GoodTrees, GoodTree, TreeOK, Cached, In
    <2> HIDE DEF S
    <2>2. /\ Top(PriosOf(S)) \in PriosOf(S) /\ PriosOf(S) \subseteq Nat \ {0}
          /\ \A m \in PriosOf(S) : m <= Top(PriosOf(S))
      BY <2>1, TopIs
    <2>3. \A q \in S : Prio[q] \in PriosOf(S)
      BY DEF PriosOf
    <2> QED BY <2>1, <2>2, <2>3 DEF S
  <1>6. arr[n + 1] \in DOMAIN h
    BY <1>4 DEF Lists
  <1>7. h[arr[n + 1]].maxPriority >= h[t].maxPriority
    <2>1. CASE i = n + 1
      BY <1>2, <1>3, <1>5, <2>1
    <2>2. CASE i # n + 1
      BY <1>1, <1>3, <1>4, <2>2 DEF Descends
    <2> QED BY <2>1, <2>2
  <1>8. x > h[arr[n + 1]].maxPriority
    BY <1>4
  <1>9. /\ h[t].maxPriority \in Nat /\ h[arr[n + 1]].maxPriority \in Nat
        /\ Prio[r] <= h[t].maxPriority /\ Prio[r] \in Nat
    BY <1>2, <1>5, <1>6
  <1> DEFINE a == h[t].maxPriority
             b == h[arr[n + 1]].maxPriority
  <1>10. a \in Nat /\ b \in Nat /\ Prio[r] \in Nat /\ Prio[r] <= a /\ a <= b /\ b < x
    BY <1>7, <1>8, <1>9
  <1> HIDE DEF a, b
  <1> QED BY <1>10

\* What the invariant says of a lookup in progress.
LEMMA ScanIs ==
  ASSUME SortAssumption, SortInv, scan # NoScan
  PROVE  /\ scan \in [packet : Packets, query : 0 .. Len(mitrees), result : Nat]
         /\ scan.packet \in Packets /\ scan.query \in 0 .. Len(mitrees) /\ scan.query \in Nat
         /\ scan.result \in Nat /\ Len(mitrees) \in Nat
         /\ IsBest(scan.result, {r \in Queried(mitree, mitrees, scan.query) : Matches(r, scan.packet)})
         /\ Queried(mitree, mitrees, scan.query) \subseteq Stored
         /\ scan.query < Len(mitrees) =>
              /\ mitrees[scan.query + 1] \in DOMAIN mitree
              /\ Queried(mitree, mitrees, scan.query + 1)
                 = Queried(mitree, mitrees, scan.query) \cup In(NextTree)
PROOF
  <1>1. scan \in [packet : Packets, query : 0 .. Len(mitrees), result : Nat]
    BY DEF SortInv, ScanTyped
  <1>2. scan.packet \in Packets /\ scan.query \in 0 .. Len(mitrees) /\ scan.result \in Nat
    BY <1>1
  <1>3. IsBest(scan.result, {r \in Queried(mitree, mitrees, scan.query) : Matches(r, scan.packet)})
    BY DEF SortInv, ScanBest
  <1>4. Lists(mitrees, DOMAIN mitree)
    BY DEF SortInv, TreesGood
  <1>5. /\ Len(mitrees) \in Nat /\ scan.query \in Nat
        /\ Queried(mitree, mitrees, scan.query) \subseteq RulesIn(mitree)
        /\ scan.query < Len(mitrees) =>
             /\ mitrees[scan.query + 1] \in DOMAIN mitree
             /\ Queried(mitree, mitrees, scan.query + 1)
                = Queried(mitree, mitrees, scan.query) \cup In(mitree[mitrees[scan.query + 1]])
    BY <1>2, <1>4, QueriedIs
  <1> QED BY <1>1, <1>2, <1>3, <1>5, StoredIs DEF NextTree

\* A lookup starts.
LEMMA StartInv ==
  ASSUME SortAssumption, SortInv, NEW p \in Packets, ClassifyStart(p)
  PROVE  SortInv' /\ Stored' = Stored /\ answer' = answer
PROOF
  <1>1. scan' = [packet |-> p, query |-> 0, result |-> 0] /\ UNCHANGED store /\ answer' = answer
    BY DEF ClassifyStart, NoScan
  <1>2. Len(mitrees) \in Nat /\ mitrees' = mitrees
    BY <1>1, ListsCount DEF SortInv, TreesGood, store
  <1>3. ScanTyped'
    BY <1>1, <1>2 DEF ScanTyped
  <1>4. ScanBest'
    <2>1. Queried(mitree', mitrees', 0) = {}
      BY DEF Queried
    <2>2. {r \in Queried(mitree', mitrees', scan'.query) : Matches(r, scan'.packet)} = {}
      BY <1>1, <2>1
    <2>3. IsBest(0, {})
      BY DEF IsBest, PriosOf
    <2>4. IsBest(scan'.result, {r \in Queried(mitree', mitrees', scan'.query) : Matches(r, scan'.packet)})
      BY <1>1, <2>2, <2>3
    <2> QED BY <2>4 DEF ScanBest, IsBest, Queried, In, PriosOf
  <1> QED BY <1>1, <1>3, <1>4, StoreStays

\* A lookup queries one more tree.
LEMMA ProbeInv ==
  ASSUME SortAssumption, SortInv, ClassifyProbe
  PROVE  SortInv' /\ Stored' = Stored /\ answer' = answer
PROOF
  <1> DEFINE n == scan.query + 1
             T == NextTree
             p == scan.packet
             x == scan.result
             found == RBExactQuery(T.root, Points(T, p))
             y == IF found > x THEN found ELSE x
             Q == Queried(mitree, mitrees, scan.query)
             A == {r \in Q : Matches(r, p)}
             B == {r \in In(T) : Matches(r, p)}
  <1>1. /\ scan # NoScan /\ scan.query < Len(mitrees) /\ UNCHANGED store /\ answer' = answer
        /\ scan' = [scan EXCEPT !.query = n, !.result = y]
    BY DEF ClassifyProbe, ScanOver
  <1>2. /\ scan \in [packet : Packets, query : 0 .. Len(mitrees), result : Nat]
        /\ p \in Packets /\ x \in Nat /\ Len(mitrees) \in Nat /\ n \in 0 .. Len(mitrees)
        /\ IsBest(x, A) /\ mitrees[n] \in DOMAIN mitree
        /\ Queried(mitree, mitrees, n) = Q \cup In(T) /\ Q \subseteq Stored
    BY <1>1, ScanIs
  <1>3. GoodTree(T)
    BY <1>2 DEF SortInv, GoodTrees, NextTree
  <1> HIDE DEF T
  <1>4. /\ In(T) \subseteq Rules /\ T.fieldOrder \in Orders /\ IsTree(T.root, In(T), T.fieldOrder)
        /\ Comparable(In(T), T.fieldOrder)
    BY <1>3 DEF GoodTree, TreeOK, In
  <1>5. A \in SUBSET Rules /\ B \in SUBSET Rules
    BY <1>2, <1>4, StoredIs
  <1>6. found = Top(PriosOf(B))
    <2>1. Points(T, p) = PointsOf(T.fieldOrder, p)
      BY DEF Points, PointsOf
    <2> QED BY <1>2, <1>4, <2>1, QueryExact
  <1>7. IsBest(y, A \cup B) /\ y \in Nat
    <2> HIDE DEF A, B, found, x
    <2>1. A \cup B \in SUBSET Rules
      BY <1>5
    <2>2. IsBest(y, A \cup B)
      BY <1>2, <1>5, <1>6, BestUnion
    <2> QED BY <2>1, <2>2, BestIs
  <1>8. mitree' = mitree /\ mitrees' = mitrees
    BY <1>1 DEF store
  <1> HIDE DEF y
  <1>9. scan'.packet = p /\ scan'.result = y /\ scan'.query = n /\ ScanTyped'
    <2> HIDE DEF n
    <2> QED BY <1>1, <1>2, <1>7, <1>8 DEF ScanTyped
  <1>10. ScanBest'
    <2>1. {r \in Queried(mitree', mitrees', scan'.query) : Matches(r, scan'.packet)} = A \cup B
      BY <1>2, <1>8, <1>9
    <2>2. IsBest(scan'.result, {r \in Queried(mitree', mitrees', scan'.query) : Matches(r, scan'.packet)})
      BY <1>7, <1>9, <2>1
    <2> QED BY <2>2 DEF ScanBest, IsBest, Queried, In, PriosOf
  <1> QED BY <1>1, <1>9, <1>10, StoreStays

\* A lookup that ends has the best match of all stored rules.
LEMMA ScanOverIs ==
  ASSUME SortAssumption, SortInv, scan # NoScan, ScanOver
  PROVE  IsBest(scan.result, {r \in Stored : Matches(r, scan.packet)})
PROOF
  <1> DEFINE x == scan.result
             n == scan.query
             Q == Queried(mitree, mitrees, n)
             A == {r \in Q : Matches(r, scan.packet)}
             S == {r \in Stored : Matches(r, scan.packet)}
  <1>1. x \in Nat /\ n \in 0 .. Len(mitrees) /\ IsBest(x, A) /\ Q \subseteq Stored
    BY ScanIs
  <1>2. n < Len(mitrees) => x > mitree[mitrees[n + 1]].maxPriority
    BY DEF ScanOver, NextTree
  <1>3. Lists(mitrees, DOMAIN mitree) /\ Descends(mitree, mitrees) /\ GoodTrees(mitree)
    BY DEF SortInv, TreesGood
  <1> HIDE DEF x, n
  <1>4. \A r \in RulesIn(mitree) : r \in Q \/ Prio[r] <= x
    BY <1>1, <1>2, <1>3, NothingBetter
  <1>5. \A r \in S : r \in A \/ Prio[r] <= x
    BY <1>4, StoredIs
  <1>6. A \in SUBSET Rules /\ S \in SUBSET Rules /\ A \subseteq S
    BY <1>1, StoredIs
  <1> HIDE DEF A, S
  <1>7. IsBest(x, S)
    BY <1>1, <1>5, <1>6, BestOfPart
  <1> QED BY <1>7 DEF x, S

\* A lookup ends with the best match of all rules, though it may not have queried all trees.
LEMMA EndInv ==
  ASSUME SortAssumption, SortInv, ClassifyEnd
  PROVE  /\ SortInv' /\ Stored' = Stored
         /\ \E p \in Packets, x \in Nat :
              answer' = <<p, x>> /\ IsBest(x, {r \in Stored : Matches(r, p)})
PROOF
  <1>1. /\ scan # NoScan /\ ScanOver /\ scan' = NoScan /\ UNCHANGED store
        /\ answer' = <<scan.packet, scan.result>>
    BY DEF ClassifyEnd
  <1>2. scan.packet \in Packets /\ scan.result \in Nat
    BY <1>1, ScanIs
  <1>3. IsBest(scan.result, {r \in Stored : Matches(r, scan.packet)})
    BY <1>1, ScanOverIs
  <1>4. ScanTyped' /\ ScanBest'
    BY <1>1 DEF ScanTyped, ScanBest
  <1> QED BY <1>1, <1>2, <1>3, <1>4, StoreStays

-----------------------------------------------------------------------------
(***************************************************************************)
(* All steps.                                                              *)
(***************************************************************************)

\* No tree at first.
LEMMA SortInitInv == SortAssumption /\ Init => SortInv /\ Stored = {} /\ answer = <<>>
PROOF
  <1> SUFFICES ASSUME SortAssumption, Init PROVE SortInv /\ Stored = {} /\ answer = <<>>
    OBVIOUS
  <1>1. /\ DOMAIN mitree = {} /\ mitrees = <<>> /\ DOMAIN rule_tree_map = {}
        /\ scan = NoScan /\ answer = <<>>
    BY DEF Init
  <1>2. Lists(mitrees, DOMAIN mitree)
    BY <1>1, EmptyLists
  <1>3. Descends(mitree, mitrees)
    BY <1>1 DEF Descends
  <1>4. Stored = {}
    BY <1>1 DEF Stored
  <1> QED BY <1>1, <1>2, <1>3, <1>4 DEF SortInv, GoodTrees, MapGood, TreesGood, ScanTyped, ScanBest

\* What a step means to the classifier.
SortMeaning ==
  \/ Stored' = Stored /\ answer' = answer
  \/ \E r \in Rules : r \notin Stored /\ Stored' = Stored \cup {r} /\ answer' = <<>>
  \/ \E r \in Rules : r \in Stored /\ Stored' = Stored \ {r} /\ answer' = <<>>
  \/ \E p \in Packets, x \in Nat :
       answer' = <<p, x>> /\ IsBest(x, {r \in Stored : Matches(r, p)}) /\ Stored' = Stored

\* Every step keeps the invariant and is one of the classifier's.
LEMMA SortStepInv == SortAssumption /\ SortInv /\ [Next]_vars => SortInv' /\ SortMeaning
PROOF
  <1> SUFFICES ASSUME SortAssumption, SortInv, [Next]_vars PROVE SortInv' /\ SortMeaning
    OBVIOUS
  <1>1. CASE UNCHANGED vars
    <2>1. UNCHANGED store /\ scan' = scan /\ answer' = answer /\ mitree' = mitree /\ mitrees' = mitrees
      BY <1>1 DEF vars, store
    <2>2. ScanTyped' /\ ScanBest'
      BY <2>1 DEF SortInv, ScanTyped, ScanBest, IsBest, Queried, In, PriosOf
    <2> QED BY <2>1, <2>2, StoreStays DEF SortMeaning
  <1>2. ASSUME NEW r \in Rules, InsertRule(r) \/ DeleteRule(r) PROVE SortInv' /\ SortMeaning
    BY <1>2, UpdateInv DEF SortMeaning
  <1>3. ASSUME NEW p \in Packets, ClassifyStart(p) PROVE SortInv' /\ SortMeaning
    BY <1>3, StartInv DEF SortMeaning
  <1>4. CASE ClassifyProbe
    BY <1>4, ProbeInv DEF SortMeaning
  <1>5. CASE ClassifyEnd
    BY <1>5, EndInv DEF SortMeaning
  <1> QED BY <1>1, <1>2, <1>3, <1>4, <1>5 DEF Next

-----------------------------------------------------------------------------
(***************************************************************************)
(* The properties.                                                         *)
(***************************************************************************)

\* Types.
LEMMA TypeHolds ==
  ASSUME SortAssumption, SortInv
  PROVE  TypeOK
PROOF
  <1>1. GoodTrees(mitree) /\ MapGood(mitree, rule_tree_map) /\ Lists(mitrees, DOMAIN mitree)
    BY DEF SortInv, TreesGood
  <1>2. ASSUME NEW t \in DOMAIN mitree
        PROVE  /\ mitree[t].fieldOrder \in [1 .. Cardinality(Fields) -> Fields]
               /\ mitree[t].priorityContainer \subseteq Nat /\ mitree[t].maxPriority \in Nat
    <2> DEFINE S == In(mitree[t])
    <2>1. /\ mitree[t].fieldOrder \in Orders /\ S # {} /\ S \in SUBSET Rules
          /\ mitree[t].priorityContainer = PriosOf(S) /\ mitree[t].maxPriority = Top(PriosOf(S))
      BY <1>1 DEF GoodTrees, GoodTree, TreeOK, Cached, In
    <2> HIDE DEF S
    <2>2. PriosOf(S) \subseteq Nat \ {0} /\ Top(PriosOf(S)) \in PriosOf(S)
      BY <2>1, TopIs
    <2> QED BY <2>1, <2>2 DEF Orders, F
  <1>3. {mitrees[i] : i \in DOMAIN mitrees} = DOMAIN mitree /\ Len(mitrees) = Cardinality(DOMAIN mitree)
    BY <1>1, ListsCount
  <1>4. scan = NoScan \/ scan \in [packet : Packets, query : 0 .. Len(mitrees), result : Nat]
    BY DEF SortInv, ScanTyped
  <1> QED BY <1>1, <1>2, <1>3, <1>4 DEF TypeOK, MapGood

\* Two rules of a tree are apart where their keys part.
LEMMA SortableHolds ==
  ASSUME SortAssumption, SortInv
  PROVE  Sortable
PROOF
  <1> SUFFICES ASSUME NEW t \in DOMAIN mitree, NEW r \in In(mitree[t]), NEW q \in In(mitree[t])
               PROVE  LET u == KeyOf(r, mitree[t].fieldOrder)
                          v == KeyOf(q, mitree[t].fieldOrder)
                          n == Agreement(u, v) + 1
                      IN  n <= Len(u) => u[n][2] < v[n][1] \/ v[n][2] < u[n][1]
    BY DEF Sortable, RulesOf, In
  <1> DEFINE o == mitree[t].fieldOrder
             u == KeyOf(r, o)
             v == KeyOf(q, o)
             a == Agreement(u, v)
  <1>1. o \in Orders /\ Comparable(In(mitree[t]), o) /\ r \in Rules /\ q \in Rules
    BY DEF SortInv, GoodTrees, GoodTree, TreeOK, In
  <1>2. ApartAt(u, v)
    BY <1>1 DEF Comparable
  <1> HIDE DEF o
  <1>3. Len(u) = F /\ F \in Nat /\ a \in 0 .. F
    BY <1>1, KeyType, KeyLen, RuleFacts, Parting
  <1> HIDE DEF u, v
  <1>4. a < F => Disjoint(u[a + 1], v[a + 1])
    BY <1>2 DEF ApartAt
  <1> HIDE DEF a
  <1>5. a + 1 <= Len(u) => a < F
    BY <1>3
  <1>6. a + 1 <= Len(u) => u[a + 1][2] < v[a + 1][1] \/ v[a + 1][2] < u[a + 1][1]
    BY <1>4, <1>5 DEF Disjoint
  <1> QED BY <1>6 DEF a, u, v, o

\* Each tree is the path compression of its rules.
LEMMA CompressedHolds ==
  ASSUME SortAssumption, SortInv
  PROVE  Compressed
PROOF
  <1> SUFFICES ASSUME NEW t \in DOMAIN mitree
        PROVE
    LET root == mitree[t].root
        keys == {KeyOf(r, mitree[t].fieldOrder) : r \in RulesOf(t)}
    IN  /\ DOMAIN root = {<<>>} \cup {q \in UNION {{Upto(k, l) : l \in 1 .. Len(k)} : k \in keys} :
                                        Cardinality(Along(t, Upto(q, Len(q) - 1))) > 1}
        /\ \A q \in DOMAIN root :
             /\ root[q].count = Cardinality(Along(t, q))
             /\ root[q].count = 1 => \A r \in Along(t, q) : q \o root[q].chain_boxes = KeyOf(r, mitree[t].fieldOrder)
             /\ root[q].count > 1 => root[q].chain_boxes = <<>>
             /\ root[q].count = 1 \/ Len(q) = Cardinality(Fields) =>
                  root[q].priority_list = {Prio[r] : r \in Along(t, q)}
    BY DEF Compressed
  <1> DEFINE o == mitree[t].fieldOrder
             S == In(mitree[t])
             root == mitree[t].root
             keys == {KeyOf(r, o) : r \in RulesOf(t)}
             ways == UNION {{Upto(k, l) : l \in 1 .. Len(k)} : k \in keys}
  <1>1. o \in Orders /\ IsTree(root, S, o) /\ S \subseteq Rules
    BY DEF SortInv, GoodTrees, GoodTree, TreeOK, In
  <1>2. RulesOf(t) = S /\ \A q : Along(t, q) = AlongIn(S, o, q)
    BY DEF RulesOf, In, Along, AlongIn
  <1> HIDE DEF o, S, root
  <1>3. ASSUME NEW q PROVE IsFiniteSet(AlongIn(S, o, q)) /\ (Cardinality(AlongIn(S, o, q)) > 1 <=> Many(AlongIn(S, o, q)))
    <2> DEFINE W == AlongIn(S, o, q)
    <2>1. IsFiniteSet(W)
      BY <1>1, AlongFinite
    <2> HIDE DEF W
    <2>2. Cardinality(W) > 1 <=> Many(W)
      BY <2>1, Counts
    <2> QED BY <2>1, <2>2 DEF W
  <1>4. DOMAIN root = {<<>>} \cup {q \in ways : Cardinality(Along(t, Upto(q, Len(q) - 1))) > 1}
    <2>1. DOMAIN root = Paths(S, o)
      BY <1>1 DEF IsTree
    <2>2. ASSUME NEW r \in S
          PROVE  /\ KeyOf(r, o) \in Seq(Box) /\ Len(KeyOf(r, o)) = F /\ F \in Nat /\ KeyOf(r, o) \in keys
      BY <1>1, <1>2, KeyType, KeyLen, RuleFacts
    <2>3. ASSUME NEW q \in Paths(S, o), q # <<>>
          PROVE  q \in ways /\ Cardinality(Along(t, Upto(q, Len(q) - 1))) > 1
      <3>1. q \in Seq(Box) /\ AlongIn(S, o, q) # {} /\ Many(AlongIn(S, o, Upto(q, Len(q) - 1)))
        BY <2>3 DEF Paths
      <3>2. PICK r \in S : OnWay(q, KeyOf(r, o))
        BY <3>1 DEF AlongIn
      <3>3. Len(q) \in 1 .. Len(KeyOf(r, o)) /\ q = Upto(KeyOf(r, o), Len(q))
        <4>1. Len(q) \in Nat /\ Len(q) # 0
          BY <2>3, <3>1
        <4> QED BY <2>2, <3>2, <4>1 DEF OnWay
      <3>4. q \in ways
        BY <2>2, <3>3
      <3> QED BY <1>2, <1>3, <3>1, <3>4
    <2>4. ASSUME NEW q \in ways, Cardinality(Along(t, Upto(q, Len(q) - 1))) > 1
          PROVE  q \in Paths(S, o)
      <3>0. PICK r \in S : \E l \in 1 .. Len(KeyOf(r, o)) : q = Upto(KeyOf(r, o), l)
        BY <1>2, <2>4
      <3>1. PICK l \in 1 .. Len(KeyOf(r, o)) : q = Upto(KeyOf(r, o), l)
        BY <3>0
      <3>2. l \in 0 .. F /\ r \in Rules
        BY <1>1, <2>2, <3>1
      <3>3. q \in Seq(Box) /\ OnWay(q, KeyOf(r, o))
        BY <1>1, <3>1, <3>2, AlongWay
      <3>4. AlongIn(S, o, q) # {}
        BY <3>3 DEF AlongIn
      <3>5. Many(AlongIn(S, o, Upto(q, Len(q) - 1)))
        BY <1>2, <1>3, <2>4
      <3> QED BY <3>3, <3>4, <3>5 DEF Paths
    <2>5. <<>> \in Paths(S, o)
      BY DEF Paths
    <2> HIDE DEF ways
    <2> QED BY <2>1, <2>3, <2>4, <2>5
  <1>5. ASSUME NEW q \in DOMAIN root
        PROVE  /\ root[q].count = Cardinality(Along(t, q))
               /\ root[q].count = 1 => \A r \in Along(t, q) : q \o root[q].chain_boxes = KeyOf(r, o)
               /\ root[q].count > 1 => root[q].chain_boxes = <<>>
               /\ root[q].count = 1 \/ Len(q) = F => root[q].priority_list = {Prio[r] : r \in Along(t, q)}
    <2>1. Holds(root[q], AlongIn(S, o, q), o, q)
      BY <1>1 DEF IsTree
    <2>2. root[q].count = Cardinality(Along(t, q))
      BY <1>2, <2>1 DEF Holds
    <2>3. root[q].count > 1 => root[q].chain_boxes = <<>>
      BY <1>2, <1>3, <2>1, <2>2 DEF Holds
    <2>4. ASSUME root[q].count = 1 \/ Len(q) = F
          PROVE  Whole(root, S, o, q) /\ root[q].priority_list = PriosOf(AlongIn(S, o, q))
      BY <1>1, <2>4, EndHas
    <2>5. root[q].count = 1 => \A r \in Along(t, q) : q \o root[q].chain_boxes = KeyOf(r, o)
      BY <1>2, <2>4 DEF Whole
    <2>6. root[q].count = 1 \/ Len(q) = F => root[q].priority_list = {Prio[r] : r \in Along(t, q)}
      BY <1>2, <2>4 DEF PriosOf
    <2> QED BY <2>2, <2>3, <2>5, <2>6
  <1> QED BY <1>4, <1>5 DEF o, root, F

\* Each rule's tree is known, and each tree's best priority is.
LEMMA ListedHolds ==
  ASSUME SortAssumption, SortInv
  PROVE  TreesListed
PROOF
  <1>1. ASSUME NEW t \in DOMAIN mitree
        PROVE  /\ \A r \in RulesOf(t) : rule_tree_map[r] = t
               /\ RulesOf(t) # {}
               /\ mitree[t].maxPriority = Top(mitree[t].priorityContainer)
    <2>1. RulesOf(t) = In(mitree[t])
      BY DEF RulesOf, In
    <2> QED BY <2>1 DEF SortInv, MapGood, GoodTrees, GoodTree, TreeOK, Cached
  <1> QED BY <1>1 DEF TreesListed, SortInv, TreesGood

\* A lookup has the best match of the trees it has queried, in the end of all.
LEMMA ScanHolds ==
  ASSUME SortAssumption, SortInv
  PROVE  ScanExact
PROOF
  <1> SUFFICES ASSUME scan # NoScan
               PROVE  /\ scan.result = Matched(UNION {RulesOf(mitrees[i]) : i \in 1 .. scan.query})
                      /\ ScanOver => scan.result = Matched(Stored)
    BY DEF ScanExact
  <1>1. ASSUME NEW S \in SUBSET Rules, IsBest(scan.result, {r \in S : Matches(r, scan.packet)})
        PROVE  scan.result = Matched(S)
    <2> DEFINE M == {r \in S : Matches(r, scan.packet)}
    <2>1. M \in SUBSET Rules /\ IsBest(scan.result, M)
      BY <1>1
    <2>2. Matched(S) = Top(PriosOf(M) \cup {0})
      BY DEF Matched, PriosOf
    <2> HIDE DEF M
    <2> QED BY <2>1, <2>2, BestIs
  <1>2. UNION {RulesOf(mitrees[i]) : i \in 1 .. scan.query} = Queried(mitree, mitrees, scan.query)
    BY DEF RulesOf, Queried, In
  <1>3. Queried(mitree, mitrees, scan.query) \in SUBSET Rules
    BY ScanIs, StoredIs
  <1>4. scan.result = Matched(UNION {RulesOf(mitrees[i]) : i \in 1 .. scan.query})
    BY <1>1, <1>2, <1>3, ScanIs
  <1>5. ASSUME ScanOver PROVE scan.result = Matched(Stored)
    BY <1>1, <1>5, ScanOverIs, StoredIs
  <1> QED BY <1>4, <1>5

\* The invariant implies the properties.
LEMMA SortInvSound == SortAssumption /\ SortInv => TypeOK /\ TreesSound
BY TypeHolds, SortableHolds, CompressedHolds, ListedHolds, ScanHolds DEF TreesSound

\* PartitionSort's trees stay in order and listed, each the path compression of the
\* comparable rules it has, whatever was inserted and deleted before, and a lookup has the
\* best match of the trees it has queried, for all rules of which the cut to unsigned
\* confuses no two ranges (red_black_tree.cpp:399-489, 1191-1280; PartitionSort.cpp).
THEOREM Sound == SortAssumption => (Spec => [](TypeOK /\ TreesSound))
PROOF
  <1> SUFFICES ASSUME SortAssumption PROVE Spec => [](TypeOK /\ TreesSound)
    OBVIOUS
  <1>1. Init => SortInv
    BY SortInitInv
  <1>2. SortInv /\ [Next]_vars => SortInv'
    BY SortStepInv
  <1>3. SortInv => TypeOK /\ TreesSound
    BY SortInvSound
  <1> QED BY <1>1, <1>2, <1>3, PTL DEF Spec

\* PartitionSort is a classifier: an update adds or removes one rule, a lookup answers
\* with the best match of the rules stored.  The points may have 64 bits; the cut to
\* unsigned confuses no two ranges of the rules (SortAssumption).
THEOREM Refinement == SortAssumption => (Spec => ClassifierSpec)
PROOF
  <1> SUFFICES ASSUME SortAssumption PROVE Spec => ClassifierSpec
    OBVIOUS
  <1>1. Init => SortInv /\ Abstract!Init
    BY SortInitInv DEF Abstract!Init
  <1>2. SortInv /\ [Next]_vars => SortInv'
    BY SortStepInv
  <1>3. SortInv /\ SortMeaning => [Abstract!Next]_<<Stored, answer>>
    <2> SUFFICES ASSUME SortInv, SortMeaning PROVE [Abstract!Next]_<<Stored, answer>>
      OBVIOUS
    <2>1. ASSUME NEW r \in Rules, r \notin Stored, Stored' = Stored \cup {r}, answer' = <<>>
          PROVE  Abstract!Next
      BY <2>1 DEF Abstract!Next, Abstract!Insert
    <2>2. ASSUME NEW r \in Rules, r \in Stored, Stored' = Stored \ {r}, answer' = <<>>
          PROVE  Abstract!Next
      BY <2>2 DEF Abstract!Next, Abstract!Delete
    <2>3. ASSUME NEW p \in Packets, NEW x \in Nat, Stored' = Stored, answer' = <<p, x>>,
                 IsBest(x, {r \in Stored : Matches(r, p)})
          PROVE  Abstract!Next
      <3> DEFINE S == {r \in Stored : Matches(r, p)}
      <3>1. S \in SUBSET Rules
        BY StoredIs
      <3> HIDE DEF S
      <3>2. x = Abstract!Best(S)
        BY <2>3, <3>1, BestIs DEF Abstract!Best, S
      <3>3. answer' = <<p, Abstract!Best(S)>>
        BY <2>3, <3>2
      <3> QED BY <2>3, <3>3 DEF Abstract!Next, Abstract!Lookup, S
    <2> QED BY <2>1, <2>2, <2>3 DEF SortMeaning
  <1>4. SortInv /\ [Next]_vars => [Abstract!Next]_<<Stored, answer>>
    BY <1>3, SortStepInv
  <1> QED BY <1>1, <1>2, <1>4, PTL DEF Spec, ClassifierSpec, Abstract!Spec
=============================================================================
