--------------------------- MODULE HashTable_proofs ---------------------------
(***************************************************************************)
(* Proofs about the hash table, for every rule set, key, hash and size:    *)
(* what its operations do to chains and lists, the inductive invariant,    *)
(* and from it the properties the runs check, the refinement of the set of *)
(* rules and the lookup.                                                   *)
(***************************************************************************)
EXTENDS HashTable, FiniteSetTheorems, TLAPS

(***************************************************************************)
(* The list operations.                                                    *)
(***************************************************************************)

\* Put makes room at position i and shifts the rest by one.
LEMMA PutElements ==
  ASSUME NEW S, NEW s \in Seq(S), NEW e \in S, NEW i \in 1 .. Len(s) + 1
  PROVE  /\ Put(s, i, e) \in Seq(S)
         /\ Len(Put(s, i, e)) = Len(s) + 1
         /\ DOMAIN Put(s, i, e) = 1 .. Len(s) + 1
         /\ \A j \in 1 .. Len(s) + 1 :
              Put(s, i, e)[j] = IF j < i THEN s[j] ELSE IF j = i THEN e ELSE s[j - 1]
  BY DEF Put

\* Cut drops position i and shifts the rest by one.
LEMMA CutElements ==
  ASSUME NEW S, NEW s \in Seq(S), NEW i \in 1 .. Len(s)
  PROVE  /\ Cut(s, i) \in Seq(S)
         /\ Len(Cut(s, i)) = Len(s) - 1
         /\ DOMAIN Cut(s, i) = 1 .. Len(s) - 1
         /\ \A j \in 1 .. Len(s) - 1 : Cut(s, i)[j] = IF j < i THEN s[j] ELSE s[j + 1]
  BY DEF Cut

\* Where an element of a cut list was: positions keep their order.
After(i, j) == IF j < i THEN j ELSE j + 1
LEMMA CutOrder ==
  ASSUME NEW S, NEW s \in Seq(S), NEW i \in 1 .. Len(s)
  PROVE  /\ \A j \in DOMAIN Cut(s, i) : j \in Int /\ After(i, j) \in DOMAIN s
                                     /\ Cut(s, i)[j] = s[After(i, j)]
         /\ \A j, k \in Int : j < k => After(i, j) < After(i, k)
         /\ \A j, k \in Int : After(i, j) = After(i, k) => j = k
PROOF
  <1>1. \A j \in DOMAIN Cut(s, i) : j \in Int /\ After(i, j) \in DOMAIN s
                                 /\ Cut(s, i)[j] = s[After(i, j)]
    <2> DEFINE t == Cut(s, i)
    <2>1. /\ DOMAIN t = 1 .. Len(s) - 1
          /\ \A j \in 1 .. Len(s) - 1 : t[j] = IF j < i THEN s[j] ELSE s[j + 1]
      BY CutElements
    <2> HIDE DEF t
    <2>2. \A j \in DOMAIN t : j \in Int /\ After(i, j) \in DOMAIN s /\ t[j] = s[After(i, j)]
      BY <2>1 DEF After
    <2> QED BY <2>2 DEF t
  <1>2. /\ \A j, k \in Int : j < k => After(i, j) < After(i, k)
        /\ \A j, k \in Int : After(i, j) = After(i, k) => j = k
    BY DEF After
  <1> QED BY <1>1, <1>2

\* What Put and Cut do to the set of elements.
LEMMA ElementsOfPut ==
  ASSUME NEW S, NEW s \in Seq(S), NEW e \in S, NEW i \in 1 .. Len(s) + 1
  PROVE  Elements(Put(s, i, e)) = Elements(s) \cup {e}
PROOF
  <1> DEFINE t == Put(s, i, e)
  <1>1. /\ DOMAIN t = 1 .. Len(s) + 1
        /\ \A j \in 1 .. Len(s) + 1 :
              t[j] = IF j < i THEN s[j] ELSE IF j = i THEN e ELSE s[j - 1]
    BY PutElements
  <1> HIDE DEF t
  <1>2. ASSUME NEW j \in DOMAIN t PROVE t[j] \in Elements(s) \cup {e}
    BY <1>1, <1>2 DEF Elements
  <1>3. ASSUME NEW j \in DOMAIN s PROVE s[j] \in Elements(t)
    <2>1. CASE j < i
      <3>1. j \in DOMAIN t /\ t[j] = s[j]
        BY <1>1, <2>1
      <3> QED BY <3>1 DEF Elements
    <2>2. CASE j >= i
      <3>1. j + 1 \in DOMAIN t /\ t[j + 1] = s[j]
        BY <1>1, <2>2
      <3> QED BY <3>1 DEF Elements
    <2> QED BY <2>1, <2>2
  <1>4. e \in Elements(t)
    BY <1>1 DEF Elements
  <1>5. Elements(t) = Elements(s) \cup {e}
    BY <1>2, <1>3, <1>4 DEF Elements
  <1> QED BY <1>5 DEF t

LEMMA ElementsOfCut ==
  ASSUME NEW S, NEW s \in Seq(S), NEW i \in 1 .. Len(s)
  PROVE  /\ Elements(Cut(s, i)) = {s[j] : j \in (1 .. Len(s)) \ {i}}
         /\ (\A j \in 1 .. Len(s) : j # i => s[j] # s[i]) =>
               Elements(Cut(s, i)) = Elements(s) \ {s[i]}
PROOF
  <1> DEFINE t == Cut(s, i)
  <1>1. /\ DOMAIN t = 1 .. Len(s) - 1
        /\ \A j \in 1 .. Len(s) - 1 : t[j] = IF j < i THEN s[j] ELSE s[j + 1]
    BY CutElements
  <1> HIDE DEF t
  <1>2. ASSUME NEW j \in DOMAIN t
        PROVE  \E k \in (1 .. Len(s)) \ {i} : t[j] = s[k]
    <2>1. CASE j < i
      BY <1>1, <2>1
    <2>2. CASE j >= i
      <3>1. j + 1 \in (1 .. Len(s)) \ {i} /\ t[j] = s[j + 1]
        BY <1>1, <2>2
      <3> QED BY <3>1
    <2> QED BY <1>1, <2>1, <2>2
  <1>3. ASSUME NEW k \in (1 .. Len(s)) \ {i}
        PROVE  \E j \in DOMAIN t : t[j] = s[k]
    <2>1. CASE k < i
      BY <1>1, <2>1
    <2>2. CASE k > i
      <3>1. k - 1 \in DOMAIN t /\ t[k - 1] = s[k]
        BY <1>1, <2>2
      <3> QED BY <3>1
    <2> QED BY <2>1, <2>2
  <1>4. Elements(t) = {s[j] : j \in (1 .. Len(s)) \ {i}}
    BY <1>2, <1>3 DEF Elements
  <1>5. (\A j \in 1 .. Len(s) : j # i => s[j] # s[i]) =>
            {s[j] : j \in (1 .. Len(s)) \ {i}} = Elements(s) \ {s[i]}
    BY DEF Elements
  <1> QED BY <1>4, <1>5 DEF t
(***************************************************************************)
(* The same for a table: one chain changes.                                *)
(***************************************************************************)
Becomes(a, c, b, list) == c = [a EXCEPT ![b] = list]

LEMMA BecomesMeaning ==
  ASSUME NEW a, a \in [DOMAIN a -> Seq(Node)], NEW b \in DOMAIN a,
         NEW list \in Seq(Node), NEW c, Becomes(a, c, b, list)
  PROVE  /\ DOMAIN c = DOMAIN a /\ c \in [DOMAIN c -> Seq(Node)]
         /\ c[b] = list
         /\ \A d \in DOMAIN a : d # b => c[d] = a[d]
  BY DEF Becomes

LEMMA InNodesOf ==
  ASSUME NEW a, NEW n
  PROVE  n \in NodesOf(a) <=> \E b \in DOMAIN a : n \in Elements(a[b])
  BY DEF NodesOf

LEMMA NodesOfPut ==
  ASSUME NEW a, a \in [DOMAIN a -> Seq(Node)], NEW b \in DOMAIN a, NEW n \in Node,
         NEW i \in 1 .. Len(a[b]) + 1, NEW c, Becomes(a, c, b, Put(a[b], i, n))
  PROVE  /\ c \in [DOMAIN c -> Seq(Node)] /\ DOMAIN c = DOMAIN a
         /\ NodesOf(c) = NodesOf(a) \cup {n}
PROOF
  <1>1. /\ Put(a[b], i, n) \in Seq(Node)
        /\ Elements(Put(a[b], i, n)) = Elements(a[b]) \cup {n}
    BY PutElements, ElementsOfPut
  <1>2. /\ DOMAIN c = DOMAIN a /\ c \in [DOMAIN c -> Seq(Node)]
        /\ Elements(c[b]) = Elements(a[b]) \cup {n}
        /\ \A d \in DOMAIN a : d # b => c[d] = a[d]
    BY <1>1, BecomesMeaning
  <1>3. ASSUME NEW m PROVE m \in NodesOf(c) <=> m \in NodesOf(a) \/ m = n
    BY <1>2, InNodesOf
  <1> QED BY <1>2, <1>3

LEMMA NodesOfCut ==
  ASSUME NEW a, a \in [DOMAIN a -> Seq(Node)], NEW b \in DOMAIN a, NEW i \in DOMAIN a[b],
         \A d \in DOMAIN a : \A j \in DOMAIN a[d] : a[d][j] = a[b][i] => d = b /\ j = i,
         NEW c, Becomes(a, c, b, Cut(a[b], i))
  PROVE  /\ c \in [DOMAIN c -> Seq(Node)] /\ DOMAIN c = DOMAIN a
         /\ NodesOf(c) = NodesOf(a) \ {a[b][i]}
PROOF
  <1>1. i \in 1 .. Len(a[b]) /\ DOMAIN a[b] = 1 .. Len(a[b]) /\ a[b] \in Seq(Node)
    OBVIOUS
  <1>2. /\ Cut(a[b], i) \in Seq(Node)
        /\ Elements(Cut(a[b], i)) = Elements(a[b]) \ {a[b][i]}
    <2>1. \A j \in 1 .. Len(a[b]) : j # i => a[b][j] # a[b][i]
      BY <1>1
    <2> QED BY <1>1, <2>1, CutElements, ElementsOfCut
  <1>3. /\ DOMAIN c = DOMAIN a /\ c \in [DOMAIN c -> Seq(Node)]
        /\ Elements(c[b]) = Elements(a[b]) \ {a[b][i]}
        /\ \A d \in DOMAIN a : d # b => c[d] = a[d]
    BY <1>2, BecomesMeaning, SMTT(30)
  <1>4. \A d \in DOMAIN a : d # b => a[b][i] \notin Elements(a[d])
    BY DEF Elements
  <1>5. ASSUME NEW m PROVE m \in NodesOf(c) <=> m \in NodesOf(a) /\ m # a[b][i]
    <2>1. \A d \in DOMAIN a : m \in Elements(c[d]) <=> m \in Elements(a[d]) /\ m # a[b][i]
      BY <1>3, <1>4
    <2> QED BY <1>3, <2>1, InNodesOf
  <1> QED BY <1>3, <1>5

LEMMA NodesOfEmptyTable ==
  ASSUME NEW size \in Nat
  PROVE  /\ EmptyTable(size) \in [0 .. size - 1 -> Seq(Node)]
         /\ NodesOf(EmptyTable(size)) = {}
  BY DEF EmptyTable, NodesOf, Elements

----------------------------------------------------------------------------
(***************************************************************************)
(* What is true of the array of buckets and of the old array alike: chains *)
(* of nodes in order, no key twice.                                        *)
(***************************************************************************)
TableOK(a) ==
  /\ a \in [DOMAIN a -> Seq(Node)]
  /\ \A b \in DOMAIN a : ChainOrdered(a[b])
  /\ KeysOnce(a)
  /\ IsFiniteSet(Keys(a))

\* Taking a node out of a chain takes its key out of the table.
WithoutNode(a, c, n) ==
  /\ TableOK(c) /\ DOMAIN c = DOMAIN a
  /\ n \in Node /\ n \in NodesOf(a)
  /\ NodesOf(c) = NodesOf(a) \ {n}
  /\ Keys(c) = Keys(a) \ {n.key} /\ n.key \in Keys(a)
  /\ Cardinality(Keys(a)) \in Nat \ {0}
  /\ Cardinality(Keys(c)) = Cardinality(Keys(a)) - 1
  /\ \A d \in DOMAIN c : \A j \in DOMAIN c[d] : \E k \in DOMAIN a[d] : c[d][j] = a[d][k]

LEMMA CutTable ==
  ASSUME NEW a, TableOK(a), NEW b \in DOMAIN a, NEW i \in DOMAIN a[b],
         NEW c, Becomes(a, c, b, Cut(a[b], i))
  PROVE  WithoutNode(a, c, a[b][i])
PROOF
  <1> DEFINE n == a[b][i]
  <1>1. a \in [DOMAIN a -> Seq(Node)] /\ KeysOnce(a) /\ IsFiniteSet(Keys(a))
    BY DEF TableOK
  <1>2. /\ i \in 1 .. Len(a[b]) /\ DOMAIN a[b] = 1 .. Len(a[b]) /\ n \in Node
        /\ a[b] \in Seq(Node)
    BY <1>1
  <1>3. \A d \in DOMAIN a : \A j \in DOMAIN a[d] : a[d][j].key = n.key => d = b /\ j = i
    BY <1>1, <1>2 DEF KeysOnce
  <1>4. c \in [DOMAIN c -> Seq(Node)] /\ DOMAIN c = DOMAIN a /\ NodesOf(c) = NodesOf(a) \ {n}
    <2>1. \A d \in DOMAIN a : \A j \in DOMAIN a[d] : a[d][j] = a[b][i] => d = b /\ j = i
      BY <1>3
    <2> QED BY <1>1, <2>1, NodesOfCut
  <1>5. n \in NodesOf(a)
    BY <1>2 DEF NodesOf, Elements
  <1>6. \A m \in NodesOf(a) : m.key = n.key => m = n
    BY <1>3 DEF NodesOf, Elements
  <1>7. Keys(c) = Keys(a) \ {n.key} /\ n.key \in Keys(a)
    BY <1>4, <1>5, <1>6 DEF Keys
  <1>8. /\ IsFiniteSet(Keys(c)) /\ Cardinality(Keys(a)) \in Nat \ {0}
        /\ Cardinality(Keys(c)) = Cardinality(Keys(a)) - 1
    <2>1. IsFiniteSet(Keys(c)) /\ Cardinality(Keys(c)) = Cardinality(Keys(a)) - 1
      <3>1. /\ IsFiniteSet(Keys(a) \ {n.key})
            /\ Cardinality(Keys(a) \ {n.key}) =
                  IF n.key \in Keys(a) THEN Cardinality(Keys(a)) - 1 ELSE Cardinality(Keys(a))
        BY <1>1, FS_RemoveElement
      <3> QED BY <1>7, <3>1
    <2>2. Cardinality(Keys(a)) \in Nat
      BY <1>1, FS_CardinalityType
    <2>3. Cardinality(Keys(a)) # 0
      BY <1>1, <1>7, FS_EmptySet
    <2> QED BY <2>1, <2>2, <2>3
  <1>9. /\ \A j \in DOMAIN c[b] : j \in Int /\ After(i, j) \in DOMAIN a[b]
                                  /\ c[b][j] = a[b][After(i, j)]
        /\ \A j, k \in Int : j < k => After(i, j) < After(i, k)
        /\ \A j, k \in Int : After(i, j) = After(i, k) => j = k
        /\ \A d \in (DOMAIN a) \ {b} : c[d] = a[d]
    <2>1. c[b] = Cut(a[b], i) /\ \A d \in (DOMAIN a) \ {b} : c[d] = a[d]
      BY <1>1, <1>2, CutElements, BecomesMeaning
    <2>2. ASSUME NEW j \in DOMAIN c[b]
          PROVE  j \in Int /\ After(i, j) \in DOMAIN a[b] /\ c[b][j] = a[b][After(i, j)]
      BY <1>2, <2>1, CutOrder
    <2>3. /\ \A j, k \in Int : j < k => After(i, j) < After(i, k)
          /\ \A j, k \in Int : After(i, j) = After(i, k) => j = k
      BY <1>2 DEF After
    <2> QED BY <2>1, <2>2, <2>3
  <1>10. DOMAIN c = DOMAIN a
    BY <1>4
  <1>11. \A d \in DOMAIN a : ChainOrdered(c[d])
    <2>1. ChainOrdered(c[b])
      <3>1. ChainOrdered(a[b])
        BY DEF TableOK
      <3> QED BY <1>9, <3>1 DEF ChainOrdered
    <2>2. \A d \in (DOMAIN a) \ {b} : ChainOrdered(c[d])
      BY <1>9 DEF TableOK
    <2> QED BY <2>1, <2>2
  <1>12. KeysOnce(c)
    <2>1. SUFFICES ASSUME NEW d \in DOMAIN a, NEW e \in DOMAIN a, NEW j \in DOMAIN c[d], NEW k \in DOMAIN c[e],
                          c[d][j].key = c[e][k].key
                   PROVE  d = e /\ j = k
      BY <1>10 DEF KeysOnce
    <2>2. CASE d = b /\ e = b
      BY <1>1, <1>9, <2>1, <2>2 DEF KeysOnce
    <2>3. CASE d = b /\ e # b
      BY <1>1, <1>9, <2>1, <2>3 DEF KeysOnce
    <2>4. CASE d # b /\ e = b
      BY <1>1, <1>9, <2>1, <2>4 DEF KeysOnce
    <2>5. CASE d # b /\ e # b
      BY <1>1, <1>9, <2>1, <2>5 DEF KeysOnce
    <2> QED BY <2>2, <2>3, <2>4, <2>5
  <1>13. \A d \in DOMAIN a : \A j \in DOMAIN c[d] : \E k \in DOMAIN a[d] : c[d][j] = a[d][k]
    BY <1>9
  <1> QED BY <1>2, <1>4, <1>5, <1>7, <1>8, <1>10, <1>11, <1>12, <1>13 DEF TableOK, WithoutNode

\* Linking a node whose key is new, at its place, adds its key to the table.
WithNode(a, c, b, n) ==
  /\ TableOK(c) /\ DOMAIN c = DOMAIN a
  /\ NodesOf(c) = NodesOf(a) \cup {n}
  /\ Keys(c) = Keys(a) \cup {n.key}
  /\ Cardinality(Keys(c)) = Cardinality(Keys(a)) + 1
  /\ \A d \in DOMAIN c : \A j \in DOMAIN c[d] :
       \/ d = b /\ c[d][j] = n
       \/ \E k \in DOMAIN a[d] : c[d][j] = a[d][k]

LEMMA PutTable ==
  ASSUME NEW a, TableOK(a), NEW n \in Node, n.key \notin Keys(a),
         NEW b \in DOMAIN a, NEW i \in 1 .. Len(a[b]) + 1,
         ChainPlace(a[b], i, n.max_priority),
         NEW c, Becomes(a, c, b, Put(a[b], i, n))
  PROVE  WithNode(a, c, b, n)
PROOF
  <1> DEFINE Before(j) == IF j < i THEN j ELSE j - 1
  <1>1. a \in [DOMAIN a -> Seq(Node)] /\ KeysOnce(a) /\ IsFiniteSet(Keys(a))
    BY DEF TableOK
  <1>2. a[b] \in Seq(Node) /\ DOMAIN a[b] = 1 .. Len(a[b])
    BY <1>1
  <1>3. c \in [DOMAIN c -> Seq(Node)] /\ DOMAIN c = DOMAIN a /\ NodesOf(c) = NodesOf(a) \cup {n}
    BY <1>1, NodesOfPut
  <1>4. Keys(c) = Keys(a) \cup {n.key}
    BY <1>3 DEF Keys
  <1>5. IsFiniteSet(Keys(c)) /\ Cardinality(Keys(c)) = Cardinality(Keys(a)) + 1
    <2>1. /\ IsFiniteSet(Keys(a) \cup {n.key})
          /\ Cardinality(Keys(a) \cup {n.key}) =
                IF n.key \in Keys(a) THEN Cardinality(Keys(a)) ELSE Cardinality(Keys(a)) + 1
      BY <1>1, FS_AddElement
    <2> QED BY <1>4, <2>1
  <1>6. /\ i \in DOMAIN c[b] /\ c[b][i] = n
        /\ \A j \in DOMAIN c[b] \ {i} : j \in Int /\ Before(j) \in DOMAIN a[b]
                                       /\ c[b][j] = a[b][Before(j)]
        /\ \A d \in (DOMAIN a) \ {b} : c[d] = a[d]
    <2> DEFINE t == Put(a[b], i, n)
    <2>1. c[b] = t /\ \A d \in (DOMAIN a) \ {b} : c[d] = a[d]
      BY <1>1, <1>2, PutElements, BecomesMeaning
    <2>2. /\ DOMAIN t = 1 .. Len(a[b]) + 1
          /\ \A j \in 1 .. Len(a[b]) + 1 :
                t[j] = IF j < i THEN a[b][j] ELSE IF j = i THEN n ELSE a[b][j - 1]
      BY <1>2 DEF Put
    <2> HIDE DEF t
    <2>3. \A j \in DOMAIN t \ {i} : j \in Int /\ Before(j) \in DOMAIN a[b] /\ t[j] = a[b][Before(j)]
      BY <1>2, <2>2
    <2> QED BY <2>1, <2>2, <2>3
  <1>7. /\ \A j \in 1 .. i - 1 : a[b][j].max_priority >= n.max_priority
        /\ i <= Len(a[b]) => n.max_priority > a[b][i].max_priority
    <2> DEFINE f == [j \in DOMAIN a[b] |-> a[b][j].max_priority]
    <2>1. /\ \A j \in 1 .. i - 1 : f[j] >= n.max_priority
          /\ i <= Len(a[b]) => n.max_priority > f[i]
      BY DEF ChainPlace, IsPlace
    <2>2. \A j \in DOMAIN a[b] : f[j] = a[b][j].max_priority
      OBVIOUS
    <2> HIDE DEF f
    <2> QED BY <1>2, <2>1, <2>2
  <1>8. \A m \in NodesOf(a) : m.key # n.key
    BY DEF Keys
  <1>9. DOMAIN c = DOMAIN a
    BY <1>3
  <1>10. \A d \in DOMAIN a : ChainOrdered(c[d])
    <2>1. \A j, k \in DOMAIN a[b] : j < k => a[b][j].max_priority >= a[b][k].max_priority
      BY DEF TableOK, ChainOrdered
    <2>2. \A j \in DOMAIN a[b] : a[b][j].max_priority \in Nat
      <3>1. \A j \in DOMAIN a[b] : a[b][j] \in Node
        BY <1>2
      <3> QED BY <3>1 DEF Node
    <2>3. n.max_priority \in Nat
      BY DEF Node
    <2>4. ASSUME NEW j \in DOMAIN c[b], NEW k \in DOMAIN c[b], j < k
          PROVE  c[b][j].max_priority >= c[b][k].max_priority
      <3>1. CASE j = i
        <4>1. k \in Int /\ Before(k) \in 1 .. Len(a[b]) /\ Before(k) >= i
              /\ c[b][k] = a[b][Before(k)]
          BY <1>2, <1>6, <2>4, <3>1
        <4>2. a[b][i].max_priority >= a[b][Before(k)].max_priority
          BY <1>2, <2>1, <2>2, <4>1
        <4> QED BY <1>2, <1>6, <1>7, <2>2, <2>3, <3>1, <4>1, <4>2
      <3>2. CASE k = i
        <4>1. j \in Int /\ j \in 1 .. i - 1 /\ j \in DOMAIN a[b] /\ c[b][j] = a[b][j]
          BY <1>2, <1>6, <2>4, <3>2
        <4> QED BY <1>6, <1>7, <3>2, <4>1
      <3>3. CASE j # i /\ k # i
        <4>1. Before(j) < Before(k)
          BY <1>6, <2>4, <3>3
        <4> QED BY <1>6, <2>1, <3>3, <4>1
      <3> QED BY <3>1, <3>2, <3>3
    <2>5. \A d \in (DOMAIN a) \ {b} : ChainOrdered(c[d])
      BY <1>6 DEF TableOK
    <2> QED BY <2>4, <2>5 DEF ChainOrdered
  <1>11. KeysOnce(c)
    <2>1. SUFFICES ASSUME NEW d \in DOMAIN a, NEW e \in DOMAIN a, NEW j \in DOMAIN c[d], NEW k \in DOMAIN c[e],
                          c[d][j].key = c[e][k].key
                   PROVE  d = e /\ j = k
      BY <1>9 DEF KeysOnce
    <2>2. \A x \in DOMAIN a : \A y \in DOMAIN a[x] : a[x][y].key # n.key
      BY <1>8 DEF NodesOf, Elements
    <2>3. \A x \in DOMAIN a : \A y \in DOMAIN c[x] :
            c[x][y].key = n.key => x = b /\ y = i
      BY <1>6, <2>2
    <2>4. CASE c[d][j].key = n.key
      BY <2>1, <2>3, <2>4
    <2>5. CASE c[d][j].key # n.key
      <3> DEFINE P(x, y) == IF x = b THEN Before(y) ELSE y
      <3>1. ~(d = b /\ j = i) /\ ~(e = b /\ k = i)
        BY <1>6, <2>1, <2>5
      <3>2. /\ P(d, j) \in DOMAIN a[d] /\ c[d][j] = a[d][P(d, j)]
            /\ P(e, k) \in DOMAIN a[e] /\ c[e][k] = a[e][P(e, k)]
        BY <1>6, <3>1
      <3>3. d = e /\ P(d, j) = P(e, k)
        BY <1>1, <2>1, <3>2 DEF KeysOnce
      <3>4. CASE d = b
        <4>1. j \in Int /\ k \in Int /\ j # i /\ k # i /\ Before(j) = Before(k)
          BY <1>6, <3>1, <3>3, <3>4
        <4> QED BY <3>3, <4>1
      <3>5. CASE d # b
        BY <3>3, <3>5
      <3> QED BY <3>4, <3>5
    <2> QED BY <2>4, <2>5
  <1>12. \A d \in DOMAIN a : \A j \in DOMAIN c[d] :
           \/ d = b /\ c[d][j] = n
           \/ \E k \in DOMAIN a[d] : c[d][j] = a[d][k]
    BY <1>6
  <1> QED BY <1>3, <1>4, <1>5, <1>9, <1>10, <1>11, <1>12 DEF TableOK, WithNode

LEMMA EmptyTableOK ==
  ASSUME NEW size \in Nat
  PROVE  /\ TableOK(EmptyTable(size)) /\ DOMAIN EmptyTable(size) = 0 .. size - 1
         /\ NodesOf(EmptyTable(size)) = {}
         /\ Keys(EmptyTable(size)) = {} /\ Cardinality(Keys(EmptyTable(size))) = 0
PROOF
  <1> DEFINE t == EmptyTable(size)
  <1>1. /\ t \in [0 .. size - 1 -> Seq(Node)] /\ NodesOf(t) = {}
        /\ \A b \in 0 .. size - 1 : t[b] = <<>>
    BY NodesOfEmptyTable DEF EmptyTable
  <1> HIDE DEF t
  <1>2. Keys(t) = {}
    BY <1>1 DEF Keys
  <1>3. IsFiniteSet(Keys(t)) /\ Cardinality(Keys(t)) = 0
    BY <1>2, FS_EmptySet
  <1>4. TableOK(t)
    BY <1>1, <1>3 DEF TableOK, ChainOrdered, KeysOnce
  <1> QED BY <1>1, <1>2, <1>3, <1>4 DEF t

----------------------------------------------------------------------------
(***************************************************************************)
(* The rule list of a node.                                                *)
(***************************************************************************)
LEMMA ListPlaceMeaning ==
  ASSUME NEW s \in Seq(Rules), NEW r \in Rules, NEW k \in 1 .. Len(s) + 1, ListPlace(s, k, r)
  PROVE  /\ \A j \in 1 .. k - 1 : Prio[s[j]] >= Prio[r]
         /\ k <= Len(s) => Prio[r] > Prio[s[k]]
PROOF
  <1> DEFINE f == [j \in DOMAIN s |-> Prio[s[j]]]
  <1>1. /\ \A j \in 1 .. k - 1 : f[j] >= Prio[r]
        /\ k <= Len(s) => Prio[r] > f[k]
    BY DEF ListPlace, IsPlace
  <1>2. \A j \in 1 .. Len(s) : f[j] = Prio[s[j]]
    OBVIOUS
  <1> HIDE DEF f
  <1> QED BY <1>1, <1>2

LEMMA PrioType ==
  ASSUME NEW s \in Seq(Rules), NEW j \in 1 .. Len(s)
  PROVE  s[j] \in Rules /\ Prio[s[j]] \in Nat \ {0} /\ s[j] \in Elements(s)
  BY TableAssumption DEF Elements

\* A rule that is not in the list goes strictly between its neighbours.
LEMMA ListInsert ==
  ASSUME NEW s \in Seq(Rules), Descending(s), NEW r \in Rules, r \notin Elements(s),
         NEW k \in 1 .. Len(s) + 1, ListPlace(s, k, r),
         NEW t, t = Put(s, k, r)
  PROVE  /\ t \in Seq(Rules) /\ t # <<>> /\ Descending(t)
         /\ Elements(t) = Elements(s) \cup {r}
         /\ HeadPriority(t) = IF k = 1 THEN Prio[r] ELSE HeadPriority(s)
PROOF
  <1>1. /\ t \in Seq(Rules) /\ DOMAIN t = 1 .. Len(s) + 1 /\ Len(s) \in Nat
        /\ \A j \in 1 .. Len(s) + 1 : t[j] = IF j < k THEN s[j] ELSE IF j = k THEN r ELSE s[j - 1]
    BY DEF Put
  <1>2. Elements(t) = Elements(s) \cup {r}
    BY ElementsOfPut
  <1>3. /\ \A j \in 1 .. Len(s) : s[j] \in Rules /\ Prio[s[j]] \in Nat /\ s[j] # r
        /\ Prio[r] \in Nat
    <2>1. ASSUME NEW j \in 1 .. Len(s)
          PROVE  s[j] \in Rules /\ Prio[s[j]] \in Nat /\ s[j] # r
      BY PrioType
    <2>2. Prio[r] \in Nat
      BY TableAssumption
    <2> QED BY <2>1, <2>2
  <1>4. /\ \A j \in 1 .. k - 1 : Prio[s[j]] > Prio[r]
        /\ k <= Len(s) => Prio[r] > Prio[s[k]]
    <2>1. /\ \A j \in 1 .. k - 1 : Prio[s[j]] >= Prio[r]
          /\ k <= Len(s) => Prio[r] > Prio[s[k]]
      BY ListPlaceMeaning
    <2>2. \A j \in 1 .. k - 1 : j \in 1 .. Len(s) /\ Prio[s[j]] # Prio[r]
      BY <1>3, TableAssumption
    <2> QED BY <1>3, <2>1, <2>2
  <1>5. \A i, j \in 1 .. Len(s) : i < j => Prio[s[i]] > Prio[s[j]]
    BY DEF Descending
  <1>6. Descending(t)
    <2>1. SUFFICES ASSUME NEW i \in 1 .. Len(s) + 1, NEW j \in 1 .. Len(s) + 1, i < j
                   PROVE  Prio[t[i]] > Prio[t[j]]
      BY <1>1 DEF Descending
    <2>2. CASE i = k
      <3>1. t[i] = r /\ t[j] = s[j - 1] /\ j - 1 \in 1 .. Len(s) /\ j - 1 >= k
        BY <1>1, <2>1, <2>2
      <3>2. k <= Len(s) /\ Prio[r] > Prio[s[k]] /\ Prio[s[k]] \in Nat
        BY <1>3, <1>4, <3>1
      <3>3. Prio[s[k]] >= Prio[s[j - 1]] /\ Prio[s[j - 1]] \in Nat
        BY <1>3, <1>5, <3>1, <3>2
      <3> QED BY <1>3, <3>1, <3>2, <3>3
    <2>3. CASE j = k
      BY <1>1, <1>4, <2>1, <2>3
    <2>4. CASE i # k /\ j # k
      <3> DEFINE B(x) == IF x < k THEN x ELSE x - 1
      <3>1. /\ B(i) \in 1 .. Len(s) /\ B(j) \in 1 .. Len(s) /\ B(i) < B(j)
            /\ t[i] = s[B(i)] /\ t[j] = s[B(j)]
        BY <1>1, <2>1, <2>4
      <3> QED BY <1>5, <3>1
    <2> QED BY <2>2, <2>3, <2>4
  <1>7. HeadPriority(t) = IF k = 1 THEN Prio[r] ELSE HeadPriority(s)
    <2>1. t # <<>> /\ t[1] = IF k = 1 THEN r ELSE s[1]
      BY <1>1
    <2>2. k # 1 => s # <<>>
      OBVIOUS
    <2> QED BY <2>1, <2>2 DEF HeadPriority
  <1>8. t # <<>>
    BY <1>1
  <1> QED BY <1>1, <1>2, <1>6, <1>7, <1>8

\* Taking a rule out of a descending list takes out its only copy.
LEMMA ListDelete ==
  ASSUME NEW s \in Seq(Rules), Descending(s), NEW k \in DOMAIN s,
         NEW t, t = Cut(s, k)
  PROVE  /\ t \in Seq(Rules) /\ Descending(t)
         /\ Elements(t) = Elements(s) \ {s[k]}
         /\ k # 1 => HeadPriority(t) = HeadPriority(s) /\ t # <<>>
PROOF
  <1>1. k \in 1 .. Len(s) /\ DOMAIN s = 1 .. Len(s) /\ Len(s) \in Nat
    OBVIOUS
  <1>2. /\ t \in Seq(Rules) /\ DOMAIN t = 1 .. Len(s) - 1
        /\ \A j \in 1 .. Len(s) - 1 : t[j] = IF j < k THEN s[j] ELSE s[j + 1]
    BY <1>1, CutElements
  <1>3. /\ \A j \in DOMAIN t : j \in Int /\ After(k, j) \in DOMAIN s /\ t[j] = s[After(k, j)]
        /\ \A i, j \in Int : i < j => After(k, i) < After(k, j)
    <2>1. ASSUME NEW j \in DOMAIN t
          PROVE  j \in Int /\ After(k, j) \in DOMAIN s /\ t[j] = s[After(k, j)]
      BY <1>1, CutOrder
    <2>2. \A i, j \in Int : i < j => After(k, i) < After(k, j)
      BY DEF After
    <2> QED BY <2>1, <2>2
  <1>4. Descending(t)
    BY <1>3 DEF Descending
  <1>5. \A i, j \in 1 .. Len(s) : i < j => Prio[s[i]] > Prio[s[j]]
    BY DEF Descending
  <1>6. \A j \in 1 .. Len(s) : Prio[s[j]] \in Nat
    BY PrioType
  <1>7. \A j \in 1 .. Len(s) : j # k => s[j] # s[k]
    <2>1. ASSUME NEW j \in 1 .. Len(s), j # k PROVE Prio[s[j]] # Prio[s[k]]
      <3>1. CASE j < k
        BY <1>1, <1>5, <1>6, <3>1
      <3>2. CASE j > k
        BY <1>1, <1>5, <1>6, <3>2
      <3> QED BY <1>1, <2>1, <3>1, <3>2
    <2> QED BY <2>1
  <1>8. Elements(t) = Elements(s) \ {s[k]}
    BY <1>1, <1>7, ElementsOfCut
  <1>9. ASSUME k # 1 PROVE HeadPriority(t) = HeadPriority(s) /\ t # <<>>
    <2>1. 1 \in DOMAIN t /\ t[1] = s[1]
      BY <1>1, <1>2, <1>9
    <2>2. t # <<>> /\ s # <<>>
      BY <1>1, <1>2, <2>1
    <2> QED BY <2>1, <2>2 DEF HeadPriority
  <1> QED BY <1>2, <1>4, <1>8, <1>9

----------------------------------------------------------------------------
(***************************************************************************)
(* Nodes: UpdatePriority runs only when the head of the list changes, and  *)
(* that is enough.                                                         *)
(***************************************************************************)
LEMMA NewNodeSound ==
  ASSUME NEW r \in Rules, NEW m, m = NodeInsert(NewNode(r), r, 1)
  PROVE  /\ m \in Node /\ NodeSound(m)
         /\ m.key = KeyOf[r] /\ m.hash = HashOf[r] /\ Elements(m.rules) = {r}
PROOF
  <1> DEFINE t == Put(<<>>, 1, r)
  <1>1. /\ t \in Seq(Rules) /\ DOMAIN t = 1 .. 1 /\ t[1] = r /\ t # <<>>
    BY DEF Put
  <1>2. Elements(t) = {r} /\ Descending(t) /\ HeadPriority(t) = Prio[r]
    BY <1>1 DEF Elements, Descending, HeadPriority
  <1>3. /\ m.rules = t /\ m.key = KeyOf[r] /\ m.hash = HashOf[r] /\ m.max_priority = Prio[r]
        /\ m \in Node
    BY <1>1, TableAssumption DEF NodeInsert, NewNode, Node
  <1> QED BY <1>1, <1>2, <1>3 DEF NodeSound

LEMMA NodeInsertSound ==
  ASSUME NEW n \in Node, NodeSound(n), NEW r \in Rules, r \notin Elements(n.rules),
         KeyOf[r] = n.key, HashOf[r] = n.hash,
         NEW k \in 1 .. Len(n.rules) + 1, ListPlace(n.rules, k, r),
         NEW m, m = NodeInsert(n, r, k)
  PROVE  /\ m \in Node /\ NodeSound(m)
         /\ m.key = n.key /\ m.hash = n.hash
         /\ Elements(m.rules) = Elements(n.rules) \cup {r}
PROOF
  <1> DEFINE t == Put(n.rules, k, r)
  <1>1. n.rules \in Seq(Rules) /\ Descending(n.rules) /\ n.max_priority = HeadPriority(n.rules)
    BY DEF Node, NodeSound
  <1>2. /\ t \in Seq(Rules) /\ t # <<>> /\ Descending(t)
        /\ Elements(t) = Elements(n.rules) \cup {r}
        /\ HeadPriority(t) = IF k = 1 THEN Prio[r] ELSE HeadPriority(n.rules)
    BY <1>1, ListInsert
  <1> HIDE DEF t
  <1>3. /\ m.rules = t /\ m.key = n.key /\ m.hash = n.hash
        /\ m.max_priority = IF k = 1 THEN Prio[r] ELSE n.max_priority
        /\ m \in Node
    BY <1>2, TableAssumption DEF NodeInsert, Node, t
  <1>4. \A q \in Elements(t) : KeyOf[q] = n.key /\ HashOf[q] = n.hash
    BY <1>2 DEF NodeSound
  <1> QED BY <1>1, <1>2, <1>3, <1>4 DEF NodeSound

LEMMA NodeDeleteSound ==
  ASSUME NEW n \in Node, NodeSound(n), NEW k \in DOMAIN n.rules, NEW m, m = NodeDelete(n, k)
  PROVE  /\ m \in Node /\ (m.rules # <<>> => NodeSound(m))
         /\ m.key = n.key /\ m.hash = n.hash
         /\ Elements(m.rules) = Elements(n.rules) \ {n.rules[k]}
PROOF
  <1> DEFINE t == Cut(n.rules, k)
  <1>1. n.rules \in Seq(Rules) /\ Descending(n.rules) /\ n.max_priority = HeadPriority(n.rules)
    BY DEF Node, NodeSound
  <1>2. /\ t \in Seq(Rules) /\ Descending(t)
        /\ Elements(t) = Elements(n.rules) \ {n.rules[k]}
        /\ k # 1 => HeadPriority(t) = HeadPriority(n.rules) /\ t # <<>>
    BY <1>1, ListDelete
  <1> HIDE DEF t
  <1>3. HeadPriority(t) \in Nat
    BY <1>2, PrioType DEF HeadPriority
  <1>4. /\ m.rules = t /\ m.key = n.key /\ m.hash = n.hash
        /\ m.max_priority = IF k = 1 THEN HeadPriority(t) ELSE n.max_priority
        /\ m \in Node
    BY <1>2, <1>3 DEF NodeDelete, Node, t
  <1>5. \A q \in Elements(t) : KeyOf[q] = n.key /\ HashOf[q] = n.hash
    BY <1>2 DEF NodeSound
  <1> QED BY <1>1, <1>2, <1>4, <1>5 DEF NodeSound

----------------------------------------------------------------------------
(***************************************************************************)
(* The inductive invariant.                                                *)
(***************************************************************************)
Phases ==
  /\ mask >= 1 /\ max_hash_node_num = MaxNodes(mask + 1)
  /\ hash_node_num <= max_hash_node_num
  /\ pc # "resize" => origin = EmptyTable(0)
  /\ pc \in {"idle", "finish"} => hand = NoNode
  /\ pc # "idle" => op.kind # "none"
  /\ pc = "resize" => hash_node_num + Cardinality(Keys(origin)) < max_hash_node_num

Inv == /\ TypeOK /\ TableOK(hash_node_arr) /\ TableOK(origin)
       /\ NodesSound /\ Placed /\ OneNodePerKey /\ CountExact /\ Phases

LEMMA MaxNodesGrows ==
  ASSUME NEW size \in Nat, size >= 2
  PROVE  MaxNodes(size) \in Nat /\ MaxNodes(size) >= 1 /\ MaxNodes(size) < MaxNodes(2 * size)
  BY DEF MaxNodes

LEMMA NoNodeType == NoNode \in Node /\ Elements(NoNode.rules) = {}
  BY DEF NoNode, Node, Elements

\* The freshly initialised table satisfies the invariant.
LEMMA InitInv == Init => Inv
PROOF
  <1> SUFFICES ASSUME Init PROVE Inv
    OBVIOUS
  <1>1. /\ TableOK(hash_node_arr) /\ DOMAIN hash_node_arr = 0 .. mask
        /\ NodesOf(hash_node_arr) = {} /\ Keys(hash_node_arr) = {}
        /\ Cardinality(Keys(hash_node_arr)) = 0
        /\ \A b \in DOMAIN hash_node_arr : hash_node_arr[b] = <<>>
        /\ mask \in Nat /\ mask >= 1 /\ mask + 1 = InitSize
    BY EmptyTableOK, TableAssumption, SMTT(30) DEF Init, EmptyTable
  <1>2. TableOK(origin) /\ DOMAIN origin = {} /\ NodesOf(origin) = {} /\ Keys(origin) = {}
    BY EmptyTableOK DEF Init
  <1>3. TypeOK
    BY <1>1, <1>2, MaxNodesGrows, NoNodeType, TableAssumption, SMTT(30) DEF Init, TypeOK, TableOK
  <1>4. NodesSound /\ Placed
    BY <1>1, <1>2 DEF NodesSound, Placed, Init
  <1>5. OneNodePerKey
    BY <1>1, <1>2 DEF OneNodePerKey, TableOK, Init
  <1>6. CountExact /\ Phases
    BY <1>1, MaxNodesGrows, TableAssumption DEF CountExact, Phases, Init
  <1> QED BY <1>1, <1>2, <1>3, <1>4, <1>5, <1>6 DEF Inv

----------------------------------------------------------------------------
(***************************************************************************)
(* What the two moves of a node do to the array of buckets.                *)
(***************************************************************************)

\* A key that PickHashNode does not find in its bucket is nowhere.
LEMMA KeyAbsent ==
  ASSUME Inv, KeyDeterminesHash, NEW r \in Rules, NoPick(Index(HashOf[r]), KeyOf[r])
  PROVE  KeyOf[r] \notin Keys(hash_node_arr)
PROOF
  <1>1. SUFFICES ASSUME NEW b \in DOMAIN hash_node_arr, NEW i \in DOMAIN hash_node_arr[b],
                        hash_node_arr[b][i].key = KeyOf[r]
                 PROVE  FALSE
    BY DEF Keys, NodesOf, Elements
  <1> DEFINE n == hash_node_arr[b][i]
  <1>2. n \in NodesOf(hash_node_arr)
    BY DEF NodesOf, Elements
  <1>3. NodeSound(n) /\ n \in Node
    BY <1>2 DEF Inv, NodesSound, TypeOK
  <1>4. n.rules \in Seq(Rules) /\ n.rules # <<>>
    BY <1>3 DEF NodeSound, Node
  <1>5. n.rules[1] \in Rules /\ n.rules[1] \in Elements(n.rules)
    BY <1>4 DEF Elements
  <1>6. HashOf[n.rules[1]] = n.hash /\ KeyOf[n.rules[1]] = KeyOf[r]
    BY <1>1, <1>3, <1>5 DEF NodeSound
  <1>7. n.hash = HashOf[r]
    BY <1>5, <1>6 DEF KeyDeterminesHash
  <1>8. b = Index(HashOf[r])
    BY <1>7 DEF Inv, Placed
  <1> QED BY <1>1, <1>8 DEF NoPick

LEMMA ModRange == ASSUME NEW x \in Nat, NEW m \in Nat PROVE x % (m + 1) \in 0 .. m
  OBVIOUS

LEMMA UnlinkStep ==
  ASSUME Inv, NEW b \in DOMAIN hash_node_arr, NEW i \in DOMAIN hash_node_arr[b],
         Unlink(b, i), mask' = mask, NEW n, n = hash_node_arr[b][i]
  PROVE  /\ n \in Node /\ NodeSound(n) /\ n \in NodesOf(hash_node_arr)
         /\ TableOK(hash_node_arr') /\ hash_node_arr' \in [0 .. mask' -> Seq(Node)]
         /\ NodesOf(hash_node_arr') = NodesOf(hash_node_arr) \ {n}
         /\ Keys(hash_node_arr') = Keys(hash_node_arr) \ {n.key} /\ n.key \in Keys(hash_node_arr)
         /\ hash_node_num' \in Nat /\ CountExact' /\ hash_node_num' < hash_node_num
         /\ Placed'
PROOF
  <1>1. TableOK(hash_node_arr) /\ hash_node_arr \in [0 .. mask -> Seq(Node)]
    BY DEF Inv, TypeOK
  <1>2. Becomes(hash_node_arr, hash_node_arr', b, Cut(hash_node_arr[b], i))
    BY DEF Unlink, Becomes
  <1>3. WithoutNode(hash_node_arr, hash_node_arr', n)
    BY <1>1, <1>2, CutTable
  <1>4. NodeSound(n)
    BY <1>3 DEF Inv, NodesSound, WithoutNode
  <1>5. hash_node_num' \in Nat /\ CountExact' /\ hash_node_num' < hash_node_num
    BY <1>3 DEF Inv, CountExact, Unlink, WithoutNode
  <1>6. Placed'
    BY <1>3 DEF Inv, Placed, Index, WithoutNode
  <1>7. hash_node_arr' \in [0 .. mask' -> Seq(Node)]
    BY <1>1, <1>3 DEF TableOK, WithoutNode
  <1> QED BY <1>3, <1>4, <1>5, <1>6, <1>7 DEF WithoutNode

LEMMA LinkStep ==
  ASSUME Inv, NEW n \in Node, n.key \notin Keys(hash_node_arr),
         Linked(hash_node_arr, n), hash_node_num' = hash_node_num + 1, mask' = mask
  PROVE  /\ TableOK(hash_node_arr') /\ hash_node_arr' \in [0 .. mask' -> Seq(Node)]
         /\ NodesOf(hash_node_arr') = NodesOf(hash_node_arr) \cup {n}
         /\ Keys(hash_node_arr') = Keys(hash_node_arr) \cup {n.key}
         /\ hash_node_num' \in Nat /\ CountExact' /\ Placed'
PROOF
  <1> DEFINE b == Index(n.hash)
  <1>1. /\ TableOK(hash_node_arr) /\ hash_node_arr \in [0 .. mask -> Seq(Node)] /\ mask \in Nat
        /\ hash_node_num \in Nat
    BY DEF Inv, TypeOK
  <1>2. b \in DOMAIN hash_node_arr
    <2>1. n.hash \in Nat
      BY DEF Node
    <2> QED BY <1>1, <2>1, ModRange DEF Index
  <1>3. PICK i \in 1 .. Len(hash_node_arr[b]) + 1 :
          /\ ChainPlace(hash_node_arr[b], i, n.max_priority)
          /\ hash_node_arr' = [hash_node_arr EXCEPT ![b] = Put(hash_node_arr[b], i, n)]
    BY DEF Linked
  <1> HIDE DEF b
  <1>4. Becomes(hash_node_arr, hash_node_arr', b, Put(hash_node_arr[b], i, n))
    BY <1>3 DEF Becomes
  <1>5. WithNode(hash_node_arr, hash_node_arr', b, n)
    BY <1>1, <1>2, <1>3, <1>4, PutTable
  <1>6. hash_node_num' \in Nat /\ CountExact'
    BY <1>1, <1>5 DEF Inv, CountExact, WithNode
  <1>7. Placed'
    BY <1>5 DEF Inv, Placed, Index, WithNode, b
  <1>8. hash_node_arr' \in [0 .. mask' -> Seq(Node)]
    BY <1>1, <1>5 DEF TableOK, WithNode
  <1> QED BY <1>5, <1>6, <1>7, <1>8 DEF WithNode

----------------------------------------------------------------------------
(***************************************************************************)
(* Every step keeps the invariant.                                         *)
(***************************************************************************)
LEMMA OriginIdle == ASSUME Inv, pc # "resize"
                    PROVE  NodesOf(origin) = {} /\ Keys(origin) = {} /\ DOMAIN origin = {}
  BY EmptyTableOK DEF Inv, Phases

\* A call that finds no node with its key.
LEMMA InsertNewInv ==
  ASSUME Inv, KeyDeterminesHash, NEW kind \in {"insert", "collide"}, NEW r \in Rules,
         InsertNew(kind, r)
  PROVE  Inv'
PROOF
  <1>1. /\ pc = "idle" /\ pc' = "link" /\ op' = [kind |-> kind, rule |-> r]
        /\ hand' = NodeInsert(NewNode(r), r, 1)
        /\ UNCHANGED <<hash_node_arr, mask, hash_node_num, max_hash_node_num,
                       max_priority, origin, ret>>
        /\ NoPick(Index(HashOf[r]), KeyOf[r])
    BY DEF InsertNew, Hold
  <1>2. hand' \in Node /\ NodeSound(hand') /\ hand'.key = KeyOf[r]
    BY <1>1, NewNodeSound
  <1>3. KeyOf[r] \notin Keys(hash_node_arr) /\ Keys(origin) = {}
    BY <1>1, KeyAbsent, OriginIdle
  <1>4. TypeOK'
    BY <1>1, <1>2 DEF Inv, TypeOK
  <1>5. TableOK(hash_node_arr)' /\ TableOK(origin)' /\ Placed' /\ CountExact'
    BY <1>1 DEF Inv, Placed, CountExact, Index
  <1>6. NodesSound'
    BY <1>1, <1>2 DEF Inv, NodesSound
  <1>7. OneNodePerKey'
    BY <1>1, <1>2, <1>3 DEF Inv, OneNodePerKey
  <1>8. Phases'
    BY <1>1 DEF Inv, Phases
  <1> QED BY <1>4, <1>5, <1>6, <1>7, <1>8 DEF Inv

\* A call that unlinks node n and goes on with node m of the same key.
LEMMA UnlinkInv ==
  ASSUME Inv, pc = "idle",
         NEW b \in DOMAIN hash_node_arr, NEW i \in DOMAIN hash_node_arr[b], Unlink(b, i),
         UNCHANGED <<mask, max_hash_node_num, max_priority, origin>>,
         \/ /\ hand' \in Node /\ NodeSound(hand') /\ hand'.key = hash_node_arr[b][i].key
            /\ pc' = "link"
         \/ hand' = NoNode /\ pc' = "finish"
         \/ hand' = NoNode /\ pc' = "idle",
         op' \in [kind : {"none", "insert", "collide", "refused", "delete"}, rule : Rules],
         pc' # "idle" => op'.kind # "none",
         ret' \in {-1, 0, 1}
  PROVE  Inv'
PROOF
  <1> DEFINE n == hash_node_arr[b][i]
  <1>1. /\ n \in Node /\ NodeSound(n) /\ n \in NodesOf(hash_node_arr)
        /\ TableOK(hash_node_arr') /\ hash_node_arr' \in [0 .. mask' -> Seq(Node)]
        /\ NodesOf(hash_node_arr') = NodesOf(hash_node_arr) \ {n}
        /\ Keys(hash_node_arr') = Keys(hash_node_arr) \ {n.key} /\ n.key \in Keys(hash_node_arr)
        /\ hash_node_num' \in Nat /\ CountExact' /\ hash_node_num' < hash_node_num
        /\ Placed'
    BY UnlinkStep
  <1> HIDE DEF n
  <1>2. Keys(origin) = {} /\ NodesOf(origin) = {}
    BY OriginIdle
  <1>3. TypeOK'
    BY <1>1, NoNodeType DEF Inv, TypeOK
  <1>4. TableOK(hash_node_arr)' /\ TableOK(origin)'
    BY <1>1 DEF Inv
  <1>5. NodesSound'
    BY <1>1, <1>2 DEF Inv, NodesSound
  <1>6. OneNodePerKey'
    BY <1>1, <1>2 DEF OneNodePerKey, TableOK, Inv, n
  <1>7. Phases'
    BY <1>1 DEF Inv, Phases, TypeOK
  <1> QED BY <1>1, <1>3, <1>4, <1>5, <1>6, <1>7 DEF Inv

LEMMA IndexInTable == ASSUME Inv, NEW h \in Nat PROVE Index(h) \in DOMAIN hash_node_arr
PROOF
  <1>1. mask \in Nat /\ DOMAIN hash_node_arr = 0 .. mask
    BY DEF Inv, TypeOK
  <1> QED BY <1>1, ModRange DEF Index

\* The node PickHashNode finds has the key and the hash it looks for.
LEMMA PickedNode ==
  ASSUME Inv, KeyDeterminesHash, NEW r \in Rules, NEW b, NEW i,
         b = Index(HashOf[r]), IsPick(b, i, KeyOf[r]),
         NEW n, n = hash_node_arr[b][i]
  PROVE  /\ b \in DOMAIN hash_node_arr /\ i \in DOMAIN hash_node_arr[b]
         /\ n \in Node /\ NodeSound(n) /\ n \in NodesOf(hash_node_arr)
         /\ n.key = KeyOf[r] /\ n.hash = HashOf[r]
PROOF
  <1>1. b \in DOMAIN hash_node_arr
    BY IndexInTable, TableAssumption
  <1>2. i \in DOMAIN hash_node_arr[b] /\ n.key = KeyOf[r]
    BY DEF IsPick
  <1>3. n \in NodesOf(hash_node_arr)
    BY <1>1, <1>2 DEF NodesOf, Elements
  <1>4. n \in Node
    BY <1>1, <1>2 DEF Inv, TypeOK
  <1>5. NodeSound(n)
    BY <1>3 DEF Inv, NodesSound
  <1>6. n.rules \in Seq(Rules) /\ n.rules # <<>>
    BY <1>4, <1>5 DEF NodeSound, Node
  <1>7. n.rules[1] \in Rules /\ n.rules[1] \in Elements(n.rules)
    BY <1>6 DEF Elements
  <1>8. n.hash = HashOf[r]
    BY <1>2, <1>5, <1>7 DEF NodeSound, KeyDeterminesHash
  <1> QED BY <1>1, <1>2, <1>3, <1>4, <1>5, <1>8

LEMMA InsertOldInv ==
  ASSUME Inv, KeyDeterminesHash, NEW kind \in {"insert", "collide"}, NEW r \in Rules,
         InsertOld(kind, r)
  PROVE  Inv'
PROOF
  <1> DEFINE b == Index(HashOf[r])
  <1>1. PICK i \in DOMAIN hash_node_arr[b] :
          /\ IsPick(b, i, KeyOf[r]) /\ Unlink(b, i)
          /\ LET n == hash_node_arr[b][i] IN
             IF kind = "insert" \/ Len(n.rules) < Collide
             THEN \E k \in 1 .. Len(n.rules) + 1 :
                    /\ ListPlace(n.rules, k, r)
                    /\ Hold(kind, r, NodeInsert(n, r, k))
             ELSE Hold("refused", r, n)
    BY DEF InsertOld
  <1>2. pc = "idle" /\ r \notin Stored /\ UNCHANGED <<mask, max_hash_node_num, max_priority, origin, ret>>
    BY DEF InsertOld
  <1> DEFINE n == hash_node_arr[b][i]
  <1>3. /\ b \in DOMAIN hash_node_arr
        /\ n \in Node /\ NodeSound(n) /\ n \in NodesOf(hash_node_arr)
        /\ n.key = KeyOf[r] /\ n.hash = HashOf[r]
    <2>1. IsPick(b, i, KeyOf[r])
      BY <1>1
    <2> QED BY <2>1, PickedNode
  <1>4. r \notin Elements(n.rules)
    BY <1>2, <1>3 DEF Stored, Nodes, RulesOf
  <1>5. \/ \E k \in 1 .. Len(n.rules) + 1 :
             ListPlace(n.rules, k, r) /\ Hold(kind, r, NodeInsert(n, r, k))
        \/ Hold("refused", r, n)
    BY <1>1
  <1> HIDE DEF n, b
  <1>6. CASE Hold("refused", r, n)
    <2>1. hand' \in Node /\ NodeSound(hand') /\ hand'.key = n.key /\ pc' = "link"
      BY <1>3, <1>6 DEF Hold
    <2> QED BY <1>1, <1>2, <1>3, <1>6, <2>1, UnlinkInv DEF Hold, Inv, TypeOK, n
  <1>7. ASSUME NEW k \in 1 .. Len(n.rules) + 1, ListPlace(n.rules, k, r),
               Hold(kind, r, NodeInsert(n, r, k))
        PROVE  Inv'
    <2>1. hand' = NodeInsert(n, r, k) /\ pc' = "link"
      BY <1>7 DEF Hold
    <2>2. hand' \in Node /\ NodeSound(hand') /\ hand'.key = n.key
      BY <1>3, <1>4, <1>7, <2>1, NodeInsertSound
    <2> QED BY <1>1, <1>2, <1>3, <1>7, <2>1, <2>2, UnlinkInv DEF Hold, Inv, TypeOK, n
  <1> QED BY <1>5, <1>6, <1>7

LEMMA DeleteRuleInv ==
  ASSUME Inv, KeyDeterminesHash, NEW r \in Rules, DeleteRule(r)
  PROVE  Inv'
PROOF
  <1> DEFINE b == Index(HashOf[r])
  <1>1. PICK i \in DOMAIN hash_node_arr[b] :
          LET n == hash_node_arr[b][i] IN
          /\ IsPick(b, i, KeyOf[r]) /\ Unlink(b, i)
          /\ \E k \in DOMAIN n.rules :
               /\ n.rules[k] = r
               /\ \A j \in 1 .. k - 1 : n.rules[j] # r
               /\ LET m == NodeDelete(n, k) IN
                  /\ op' = [kind |-> "delete", rule |-> r]
                  /\ IF m.rules = <<>>
                     THEN hand' = NoNode /\ pc' = "finish"
                     ELSE hand' = m /\ pc' = "link"
    BY DEF DeleteRule
  <1>2. pc = "idle" /\ UNCHANGED <<mask, max_hash_node_num, max_priority, origin, ret>>
    BY DEF DeleteRule
  <1> DEFINE n == hash_node_arr[b][i]
  <1>3. b \in DOMAIN hash_node_arr /\ n \in Node /\ NodeSound(n)
    <2>1. IsPick(b, i, KeyOf[r])
      BY <1>1
    <2> QED BY <2>1, PickedNode
  <1>4. PICK k \in DOMAIN n.rules :
          LET m == NodeDelete(n, k) IN
          /\ op' = [kind |-> "delete", rule |-> r]
          /\ IF m.rules = <<>>
             THEN hand' = NoNode /\ pc' = "finish"
             ELSE hand' = m /\ pc' = "link"
    BY <1>1
  <1> DEFINE m == NodeDelete(n, k)
  <1>5. m \in Node /\ m.key = n.key /\ (m.rules # <<>> => NodeSound(m))
    BY <1>3, NodeDeleteSound
  <1> HIDE DEF m
  <1>6. \/ hand' \in Node /\ NodeSound(hand') /\ hand'.key = n.key /\ pc' = "link"
        \/ hand' = NoNode /\ pc' = "finish"
    BY <1>4, <1>5 DEF m
  <1> QED BY <1>1, <1>2, <1>3, <1>4, <1>6, UnlinkInv DEF Inv, TypeOK

LEMMA DeleteNotInNodeInv ==
  ASSUME Inv, KeyDeterminesHash, NEW r \in Rules, DeleteNotInNode(r)
  PROVE  Inv'
PROOF
  <1> DEFINE b == Index(HashOf[r])
  <1>1. PICK i \in DOMAIN hash_node_arr[b] : IsPick(b, i, KeyOf[r]) /\ Unlink(b, i)
    BY DEF DeleteNotInNode
  <1>2. /\ pc = "idle" /\ pc' = "idle" /\ ret' = 1
        /\ UNCHANGED <<mask, max_hash_node_num, max_priority, op, hand, origin>>
    BY DEF DeleteNotInNode
  <1>3. b \in DOMAIN hash_node_arr
    <2>1. IsPick(b, i, KeyOf[r])
      BY <1>1
    <2> QED BY <2>1, PickedNode
  <1>4. hand' = NoNode
    BY <1>2 DEF Inv, Phases
  <1> QED BY <1>1, <1>2, <1>3, <1>4, UnlinkInv DEF Inv, TypeOK

LEMMA LinkInv ==
  ASSUME Inv, Link
  PROVE  Inv'
PROOF
  <1>1. /\ pc = "link" /\ hash_node_num # max_hash_node_num /\ Linked(hash_node_arr, hand)
        /\ hash_node_num' = hash_node_num + 1 /\ hand' = NoNode /\ pc' = "finish"
        /\ UNCHANGED <<mask, max_hash_node_num, max_priority, op, origin, ret>>
    BY DEF Link
  <1>2. hand \in Node /\ NodeSound(hand) /\ hand.key \notin Keys(hash_node_arr)
    BY <1>1 DEF Inv, TypeOK, NodesSound, OneNodePerKey
  <1>3. /\ TableOK(hash_node_arr') /\ hash_node_arr' \in [0 .. mask' -> Seq(Node)]
        /\ NodesOf(hash_node_arr') = NodesOf(hash_node_arr) \cup {hand}
        /\ hash_node_num' \in Nat /\ CountExact' /\ Placed'
    BY <1>1, <1>2, LinkStep
  <1>4. Keys(origin) = {} /\ NodesOf(origin) = {}
    BY <1>1, OriginIdle
  <1>5. TypeOK'
    BY <1>1, <1>3, NoNodeType DEF Inv, TypeOK
  <1>6. TableOK(hash_node_arr)' /\ TableOK(origin)'
    BY <1>1, <1>3 DEF Inv
  <1>7. NodesSound'
    BY <1>1, <1>2, <1>3 DEF Inv, NodesSound
  <1>8. OneNodePerKey'
    BY <1>1, <1>3, <1>4 DEF OneNodePerKey, TableOK, Inv
  <1>9. Phases'
    BY <1>1 DEF Inv, Phases, TypeOK
  <1> QED BY <1>3, <1>5, <1>6, <1>7, <1>8, <1>9 DEF Inv

LEMMA StartResizeInv ==
  ASSUME Inv, StartResize
  PROVE  Inv'
PROOF
  <1> DEFINE size == 2 * (mask + 1)
  <1>1. /\ pc = "link" /\ pc' = "resize" /\ hash_node_num = max_hash_node_num
        /\ hash_node_arr' = EmptyTable(size) /\ mask' = size - 1
        /\ max_hash_node_num' = MaxNodes(size) /\ hash_node_num' = 0
        /\ origin' = hash_node_arr
        /\ UNCHANGED <<max_priority, op, hand, ret>>
    BY DEF StartResize, Rehash
  <1>2. /\ mask \in Nat /\ mask >= 1 /\ size \in Nat /\ mask' + 1 = size /\ mask' \in Nat
        /\ max_hash_node_num = MaxNodes(mask + 1)
        /\ hash_node_arr \in [0 .. mask -> Seq(Node)]
    BY <1>1 DEF Inv, TypeOK, Phases
  <1>3. MaxNodes(size) \in Nat /\ max_hash_node_num < MaxNodes(size)
    BY <1>2, MaxNodesGrows
  <1>4. /\ TableOK(hash_node_arr') /\ DOMAIN hash_node_arr' = 0 .. mask'
        /\ NodesOf(hash_node_arr') = {} /\ Keys(hash_node_arr') = {}
        /\ Cardinality(Keys(hash_node_arr')) = 0
        /\ \A b \in DOMAIN hash_node_arr' : hash_node_arr'[b] = <<>>
    BY <1>1, <1>2, EmptyTableOK DEF EmptyTable
  <1>5. Keys(origin) = {} /\ NodesOf(origin) = {}
    BY <1>1, OriginIdle
  <1> HIDE DEF size
  <1>6. TypeOK'
    <2>1. hash_node_arr' \in [0 .. mask' -> Seq(Node)]
      BY <1>4 DEF TableOK
    <2>2. DOMAIN origin' \subseteq Nat /\ origin' \in [DOMAIN origin' -> Seq(Node)]
      BY <1>1, <1>2
    <2> QED BY <1>1, <1>2, <1>3, <2>1, <2>2 DEF Inv, TypeOK
  <1>7. TableOK(hash_node_arr)' /\ TableOK(origin)'
    BY <1>1, <1>4 DEF Inv
  <1>8. NodesSound'
    BY <1>1, <1>4 DEF Inv, NodesSound
  <1>9. Placed' /\ CountExact'
    BY <1>1, <1>4 DEF Placed, CountExact
  <1>10. OneNodePerKey'
    BY <1>1, <1>4 DEF OneNodePerKey, TableOK, Inv
  <1>11. Phases'
    <2>1. Cardinality(Keys(origin')) = hash_node_num
      BY <1>1 DEF Inv, CountExact
    <2>2. hash_node_num' + Cardinality(Keys(origin')) < max_hash_node_num'
      BY <1>1, <1>2, <1>3, <2>1
    <2>3. mask' >= 1
      BY <1>1, <1>2 DEF size
    <2>4. max_hash_node_num' = MaxNodes(mask' + 1)
      BY <1>1, <1>2
    <2>5. hash_node_num' <= max_hash_node_num'
      BY <1>1, <1>3
    <2>6. op'.kind # "none"
      BY <1>1 DEF Inv, Phases
    <2> QED BY <1>1, <2>2, <2>3, <2>4, <2>5, <2>6 DEF Phases
  <1> QED BY <1>6, <1>7, <1>8, <1>9, <1>10, <1>11 DEF Inv

LEMMA ResizeMoveInv ==
  ASSUME Inv, ResizeMove
  PROVE  Inv'
PROOF
  <1>1. PICK b \in DOMAIN origin :
          /\ origin[b] # <<>>
          /\ Linked(hash_node_arr, origin[b][1])
          /\ origin' = [origin EXCEPT ![b] = Cut(origin[b], 1)]
    BY DEF ResizeMove
  <1>2. /\ pc = "resize" /\ hash_node_num' = hash_node_num + 1
        /\ UNCHANGED <<mask, max_hash_node_num, max_priority, pc, op, hand, ret>>
    BY DEF ResizeMove
  <1> DEFINE n == origin[b][1]
  <1>3. 1 \in DOMAIN origin[b] /\ TableOK(origin)
    BY <1>1 DEF Inv, TableOK
  <1>4. WithoutNode(origin, origin', n)
    <2>1. Becomes(origin, origin', b, Cut(origin[b], 1))
      BY <1>1 DEF Becomes
    <2> QED BY <1>3, <2>1, CutTable
  <1>5. /\ n \in Node /\ n \in NodesOf(origin) /\ n.key \in Keys(origin)
        /\ NodesOf(origin') = NodesOf(origin) \ {n} /\ Keys(origin') = Keys(origin) \ {n.key}
        /\ TableOK(origin') /\ DOMAIN origin' = DOMAIN origin
        /\ Cardinality(Keys(origin)) \in Nat \ {0}
        /\ Cardinality(Keys(origin')) = Cardinality(Keys(origin)) - 1
    BY <1>4 DEF WithoutNode
  <1>6. NodeSound(n) /\ n.key \notin Keys(hash_node_arr)
    BY <1>5 DEF Inv, NodesSound, OneNodePerKey
  <1>7. /\ TableOK(hash_node_arr') /\ hash_node_arr' \in [0 .. mask' -> Seq(Node)]
        /\ NodesOf(hash_node_arr') = NodesOf(hash_node_arr) \cup {n}
        /\ Keys(hash_node_arr') = Keys(hash_node_arr) \cup {n.key}
        /\ hash_node_num' \in Nat /\ CountExact' /\ Placed'
    BY <1>1, <1>2, <1>5, <1>6, LinkStep
  <1> HIDE DEF n
  <1>8. TypeOK'
    BY <1>2, <1>5, <1>7 DEF Inv, TypeOK, TableOK
  <1>9. NodesSound'
    BY <1>2, <1>5, <1>6, <1>7 DEF Inv, NodesSound
  <1>10. OneNodePerKey'
    BY <1>2, <1>5, <1>7 DEF OneNodePerKey, TableOK, Inv
  <1>11. Phases'
    BY <1>2, <1>5 DEF Inv, Phases, TypeOK
  <1> QED BY <1>5, <1>7, <1>8, <1>9, <1>10, <1>11 DEF Inv

LEMMA ResizeDoneInv ==
  ASSUME Inv, ResizeDone
  PROVE  Inv'
PROOF
  <1>1. /\ pc = "resize" /\ pc' = "link" /\ origin' = EmptyTable(0)
        /\ \A b \in DOMAIN origin : origin[b] = <<>>
        /\ UNCHANGED <<hash_node_arr, mask, hash_node_num, max_hash_node_num,
                       max_priority, op, hand, ret>>
    BY DEF ResizeDone
  <1>2. TableOK(origin') /\ DOMAIN origin' = {} /\ NodesOf(origin') = {} /\ Keys(origin') = {}
    BY <1>1, EmptyTableOK
  <1>3. TypeOK'
    BY <1>1, <1>2 DEF Inv, TypeOK, TableOK
  <1>4. TableOK(hash_node_arr)' /\ TableOK(origin)' /\ CountExact' /\ Placed'
    BY <1>1, <1>2 DEF Inv, CountExact, Placed, Index
  <1>5. NodesSound'
    BY <1>1, <1>2 DEF Inv, NodesSound
  <1>6. OneNodePerKey'
    BY <1>1, <1>2 DEF OneNodePerKey, TableOK, Inv
  <1>7. Phases'
    BY <1>1 DEF Inv, Phases
  <1> QED BY <1>3, <1>4, <1>5, <1>6, <1>7 DEF Inv

\* The return of a call and a delete that finds no node leave the nodes alone.
LEMMA ReturnInv ==
  ASSUME Inv, pc \in {"idle", "finish"}, pc' = "idle", ret' \in {-1, 0, 1}, max_priority' \in Nat,
         UNCHANGED <<hash_node_arr, mask, hash_node_num, max_hash_node_num, op, hand, origin>>
  PROVE  Inv'
PROOF
  <1>1. TypeOK' /\ TableOK(hash_node_arr)' /\ TableOK(origin)' /\ CountExact' /\ Placed'
    BY DEF Inv, TypeOK, CountExact, Placed, Index
  <1>2. NodesSound' /\ OneNodePerKey' /\ Phases'
    BY DEF Inv, NodesSound, OneNodePerKey, Phases
  <1> QED BY <1>1, <1>2 DEF Inv

LEMMA FinishInv ==
  ASSUME Inv, Finish
  PROVE  Inv'
PROOF
  <1>1. max_priority \in Nat /\ op.rule \in Rules /\ Prio[op.rule] \in Nat
    BY TableAssumption DEF Inv, TypeOK
  <1>2. CASE FinishInsert
    BY <1>1, <1>2, ReturnInv DEF FinishInsert, Return
  <1>3. CASE FinishRefused
    BY <1>1, <1>3, ReturnInv DEF FinishRefused, Return
  <1>4. CASE FinishDelete
    <2>1. ASSUME NEW b \in DOMAIN hash_node_arr, hash_node_arr[b] # <<>>
          PROVE  hash_node_arr[b][1].max_priority \in Nat
      <3>1. hash_node_arr[b] \in Seq(Node)
        BY DEF Inv, TypeOK
      <3>2. hash_node_arr[b][1] \in Node
        BY <2>1, <3>1
      <3> QED BY <3>2 DEF Node
    <2>2. HeadPriorities \subseteq Nat
      BY <2>1 DEF HeadPriorities
    <2>3. max_priority' \in Nat
      BY <1>1, <1>4, <2>2 DEF FinishDelete
    <2> QED BY <1>4, <2>3, ReturnInv DEF FinishDelete, Return
  <1> QED BY <1>2, <1>3, <1>4 DEF Finish

LEMMA NextInv == KeyDeterminesHash /\ Inv /\ [Next]_vars => Inv'
PROOF
  <1> SUFFICES ASSUME KeyDeterminesHash, Inv, [Next]_vars PROVE Inv'
    OBVIOUS
  <1>1. ASSUME NEW r \in Rules, InsertRule(r) PROVE Inv'
    BY <1>1, InsertNewInv, InsertOldInv DEF InsertRule
  <1>2. ASSUME NEW r \in Rules, InsertRuleCollide(r) PROVE Inv'
    BY <1>2, InsertNewInv, InsertOldInv DEF InsertRuleCollide
  <1>3. ASSUME NEW r \in Rules, DeleteRule(r) PROVE Inv'
    BY <1>3, DeleteRuleInv
  <1>4. ASSUME NEW r \in Rules, DeleteNoNode(r) PROVE Inv'
    BY <1>4, ReturnInv DEF DeleteNoNode, Inv, TypeOK
  <1>5. ASSUME NEW r \in Rules, DeleteNotInNode(r) PROVE Inv'
    BY <1>5, DeleteNotInNodeInv
  <1>6. CASE Link
    BY <1>6, LinkInv
  <1>7. CASE StartResize
    BY <1>7, StartResizeInv
  <1>8. CASE ResizeMove
    BY <1>8, ResizeMoveInv
  <1>9. CASE ResizeDone
    BY <1>9, ResizeDoneInv
  <1>10. CASE Finish
    BY <1>10, FinishInv
  <1>11. CASE UNCHANGED vars
    <2>1. TypeOK' /\ TableOK(hash_node_arr)' /\ TableOK(origin)' /\ CountExact' /\ Placed'
      BY <1>11 DEF vars, Inv, TypeOK, CountExact, Placed, Index
    <2>2. NodesSound' /\ OneNodePerKey' /\ Phases'
      BY <1>11 DEF vars, Inv, NodesSound, OneNodePerKey, Phases
    <2> QED BY <2>1, <2>2 DEF Inv
  <1> QED BY <1>1, <1>2, <1>3, <1>4, <1>5, <1>6, <1>7, <1>8, <1>9, <1>10, <1>11 DEF Next, Call, Go

\* The invariant holds in every run, if equal keys have equal hashes.
THEOREM Invariance == KeyDeterminesHash => (Spec => []Inv)
PROOF
  <1> SUFFICES ASSUME KeyDeterminesHash PROVE Spec => []Inv
    OBVIOUS
  <1> QED BY InitInv, NextInv, PTL DEF Spec

----------------------------------------------------------------------------
(***************************************************************************)
(* From the invariant: the table implements a set of rules, its cached     *)
(* max_priority is right, and no delete of a stored rule fails.            *)
(***************************************************************************)

(***************************************************************************)
(* The properties that are parts of the invariant.                         *)
(***************************************************************************)

\* The fields of the table keep their types.
THEOREM Types == KeyDeterminesHash => (Spec => []TypeOK)
PROOF
  <1>1. Inv => TypeOK
    BY DEF Inv
  <1> QED BY <1>1, Invariance, PTL

\* Chains and lists descend, caches are those of the heads, every node is in the
\* chain of its hash, no key has two nodes, and hash_node_num counts them.
THEOREM Structure == KeyDeterminesHash => (Spec => []TableSound)
PROOF
  <1>1. Inv => TableSound
    <2>1. Inv => ChainsOrdered
      BY DEF Inv, TableOK, ChainsOrdered
    <2>2. Inv => NodesSound /\ Placed /\ OneNodePerKey /\ CountExact
      BY DEF Inv
    <2> QED BY <2>1, <2>2 DEF TableSound
  <1> QED BY <1>1, Invariance, PTL

\* The load stays under 85% and a doubling never starts another one.
THEOREM Load == KeyDeterminesHash => (Spec => []LoadBounded)
PROOF
  <1>1. ASSUME Inv PROVE LoadBounded
    <2>1. mask \in Nat /\ hash_node_num \in Nat /\ max_hash_node_num = MaxNodes(mask + 1)
          /\ hash_node_num <= max_hash_node_num
      BY <1>1 DEF Inv, TypeOK, Phases
    <2>2. 100 * hash_node_num <= 85 * (mask + 1)
      BY <2>1 DEF MaxNodes
    <2>3. ASSUME pc = "resize" PROVE hash_node_num < max_hash_node_num
      <3>1. IsFiniteSet(Keys(origin)) /\ hash_node_num + Cardinality(Keys(origin)) < max_hash_node_num
        BY <1>1, <2>3 DEF Inv, TableOK, Phases
      <3>2. Cardinality(Keys(origin)) \in Nat
        BY <3>1, FS_CardinalityType
      <3>3. max_hash_node_num \in Nat
        BY <1>1 DEF Inv, TypeOK
      <3> QED BY <2>1, <3>1, <3>2, <3>3
    <2> QED BY <2>2, <2>3 DEF LoadBounded
  <1> QED BY <1>1, Invariance, PTL

----------------------------------------------------------------------------
(***************************************************************************)
(* The stored rules, step by step.                                         *)
(***************************************************************************)

\* While no node is on its way, the stored rules are those of the chains.
LEMMA StoredAtRest ==
  ASSUME Inv, pc \in {"idle", "finish"}
  PROVE  Stored = RulesOf(NodesOf(hash_node_arr))
PROOF
  <1>1. hand = NoNode /\ NodesOf(origin) = {}
    BY OriginIdle DEF Inv, Phases
  <1> QED BY <1>1, NoNodeType DEF Stored, Nodes, RulesOf

\* The rules of a node of the table are the stored rules of its key.
LEMMA RulesOfNode ==
  ASSUME Inv, NEW n \in NodesOf(hash_node_arr)
  PROVE  /\ \A q \in Elements(n.rules) : KeyOf[q] = n.key
         /\ \A q \in RulesOf(NodesOf(hash_node_arr) \ {n}) : KeyOf[q] # n.key
         /\ RulesOf(NodesOf(hash_node_arr)) = RulesOf(NodesOf(hash_node_arr) \ {n}) \cup Elements(n.rules)
PROOF
  <1>1. \A m \in NodesOf(hash_node_arr) : \A q \in Elements(m.rules) : KeyOf[q] = m.key
    BY DEF Inv, NodesSound, NodeSound
  <1>2. ASSUME NEW m \in NodesOf(hash_node_arr), m.key = n.key PROVE m = n
    <2>1. PICK b \in DOMAIN hash_node_arr : \E i \in DOMAIN hash_node_arr[b] : n = hash_node_arr[b][i]
      BY DEF NodesOf, Elements
    <2>2. PICK i \in DOMAIN hash_node_arr[b] : n = hash_node_arr[b][i]
      BY <2>1
    <2>3. PICK c \in DOMAIN hash_node_arr : \E j \in DOMAIN hash_node_arr[c] : m = hash_node_arr[c][j]
      BY DEF NodesOf, Elements
    <2>4. PICK j \in DOMAIN hash_node_arr[c] : m = hash_node_arr[c][j]
      BY <2>3
    <2>5. b = c /\ i = j
      BY <1>2, <2>2, <2>4 DEF Inv, OneNodePerKey, KeysOnce
    <2> QED BY <2>2, <2>4, <2>5
  <1>3. \A q \in RulesOf(NodesOf(hash_node_arr) \ {n}) : KeyOf[q] # n.key
    BY <1>1, <1>2 DEF RulesOf
  <1>4. RulesOf(NodesOf(hash_node_arr)) = RulesOf(NodesOf(hash_node_arr) \ {n}) \cup Elements(n.rules)
    BY DEF RulesOf
  <1> QED BY <1>1, <1>3, <1>4

\* A call that unlinks node n and goes on with the node in its hand.
LEMMA StoredUnlink ==
  ASSUME Inv, pc = "idle", NEW b \in DOMAIN hash_node_arr, NEW i \in DOMAIN hash_node_arr[b],
         Unlink(b, i), mask' = mask, origin' = origin, NEW n, n = hash_node_arr[b][i]
  PROVE  \E rest \in SUBSET Stored :
           /\ Stored = rest \cup Elements(n.rules)
           /\ Stored' = rest \cup Elements(hand'.rules)
           /\ \A q \in Elements(n.rules) : KeyOf[q] = n.key
           /\ \A q \in rest : KeyOf[q] # n.key
PROOF
  <1> DEFINE rest == RulesOf(NodesOf(hash_node_arr) \ {n})
  <1>1. n \in NodesOf(hash_node_arr) /\ NodesOf(hash_node_arr') = NodesOf(hash_node_arr) \ {n}
    BY UnlinkStep
  <1>2. Stored = RulesOf(NodesOf(hash_node_arr))
    BY StoredAtRest
  <1>3. Nodes' = (NodesOf(hash_node_arr) \ {n}) \cup {hand'}
    BY <1>1, OriginIdle DEF Nodes
  <1>4. Stored' = rest \cup Elements(hand'.rules)
    BY <1>3 DEF Stored, RulesOf
  <1> HIDE DEF rest
  <1>5. /\ \A q \in Elements(n.rules) : KeyOf[q] = n.key
        /\ \A q \in rest : KeyOf[q] # n.key
        /\ Stored = rest \cup Elements(n.rules)
    BY <1>1, <1>2, RulesOfNode DEF rest
  <1> QED BY <1>4, <1>5

\* An insert adds the rule to the stored rules, unless the node is full.
LEMMA StoredInsertNew ==
  ASSUME Inv, NEW kind \in {"insert", "collide"}, NEW r \in Rules, InsertNew(kind, r)
  PROVE  Stored' = Stored \cup {r} /\ r \notin Stored /\ op' = [kind |-> kind, rule |-> r]
PROOF
  <1>1. /\ pc = "idle" /\ r \notin Stored /\ op' = [kind |-> kind, rule |-> r]
        /\ hand' = NodeInsert(NewNode(r), r, 1)
        /\ hash_node_arr' = hash_node_arr /\ origin' = origin
    BY DEF InsertNew, Hold
  <1>2. Elements(hand'.rules) = {r}
    BY <1>1, NewNodeSound
  <1>3. Nodes' = NodesOf(hash_node_arr) \cup {hand'}
    BY <1>1, OriginIdle DEF Nodes
  <1>4. Stored' = RulesOf(NodesOf(hash_node_arr)) \cup {r}
    BY <1>2, <1>3 DEF Stored, RulesOf
  <1> QED BY <1>1, <1>4, StoredAtRest

LEMMA StoredInsertOld ==
  ASSUME Inv, KeyDeterminesHash, NEW kind \in {"insert", "collide"}, NEW r \in Rules,
         InsertOld(kind, r)
  PROVE  \/ Stored' = Stored \cup {r} /\ r \notin Stored /\ op' = [kind |-> kind, rule |-> r]
         \/ Stored' = Stored /\ op' = [kind |-> "refused", rule |-> r]
PROOF
  <1> DEFINE b == Index(HashOf[r])
  <1>1. PICK i \in DOMAIN hash_node_arr[b] :
          /\ IsPick(b, i, KeyOf[r]) /\ Unlink(b, i)
          /\ LET n == hash_node_arr[b][i] IN
             IF kind = "insert" \/ Len(n.rules) < Collide
             THEN \E k \in 1 .. Len(n.rules) + 1 :
                    /\ ListPlace(n.rules, k, r)
                    /\ Hold(kind, r, NodeInsert(n, r, k))
             ELSE Hold("refused", r, n)
    BY DEF InsertOld
  <1>2. pc = "idle" /\ r \notin Stored /\ mask' = mask /\ origin' = origin
    BY DEF InsertOld
  <1> DEFINE n == hash_node_arr[b][i]
  <1>3. /\ b \in DOMAIN hash_node_arr
        /\ n \in Node /\ NodeSound(n) /\ n \in NodesOf(hash_node_arr)
        /\ n.key = KeyOf[r] /\ n.hash = HashOf[r]
    <2>1. IsPick(b, i, KeyOf[r])
      BY <1>1
    <2> QED BY <2>1, PickedNode
  <1>4. PICK rest \in SUBSET Stored : /\ Stored = rest \cup Elements(n.rules)
                                      /\ Stored' = rest \cup Elements(hand'.rules)
    BY <1>1, <1>2, <1>3, StoredUnlink, ZenonT(60)
  <1>5. \/ \E k \in 1 .. Len(n.rules) + 1 :
             ListPlace(n.rules, k, r) /\ Hold(kind, r, NodeInsert(n, r, k))
        \/ Hold("refused", r, n)
    BY <1>1
  <1> HIDE DEF n, b
  <1>6. CASE Hold("refused", r, n)
    BY <1>4, <1>6 DEF Hold
  <1>7. ASSUME NEW k \in 1 .. Len(n.rules) + 1, ListPlace(n.rules, k, r),
               Hold(kind, r, NodeInsert(n, r, k))
        PROVE  Stored' = Stored \cup {r} /\ op' = [kind |-> kind, rule |-> r]
    <2>1. hand' = NodeInsert(n, r, k) /\ op' = [kind |-> kind, rule |-> r]
      BY <1>7 DEF Hold
    <2>2. r \notin Elements(n.rules)
      BY <1>2, <1>4
    <2>3. Elements(hand'.rules) = Elements(n.rules) \cup {r}
      BY <1>3, <1>7, <2>1, <2>2, NodeInsertSound
    <2> QED BY <1>4, <2>1, <2>3
  <1> QED BY <1>2, <1>5, <1>6, <1>7

\* A delete takes the rule out, and nothing else.
LEMMA StoredDelete ==
  ASSUME Inv, KeyDeterminesHash, NEW r \in Rules, DeleteRule(r)
  PROVE  Stored' = Stored \ {r} /\ r \in Stored /\ op' = [kind |-> "delete", rule |-> r]
PROOF
  <1> DEFINE b == Index(HashOf[r])
  <1>1. PICK i \in DOMAIN hash_node_arr[b] :
          LET n == hash_node_arr[b][i] IN
          /\ IsPick(b, i, KeyOf[r]) /\ Unlink(b, i)
          /\ \E k \in DOMAIN n.rules :
               /\ n.rules[k] = r
               /\ \A j \in 1 .. k - 1 : n.rules[j] # r
               /\ LET m == NodeDelete(n, k) IN
                  /\ op' = [kind |-> "delete", rule |-> r]
                  /\ IF m.rules = <<>>
                     THEN hand' = NoNode /\ pc' = "finish"
                     ELSE hand' = m /\ pc' = "link"
    BY DEF DeleteRule
  <1>2. pc = "idle" /\ mask' = mask /\ origin' = origin
    BY DEF DeleteRule
  <1> DEFINE n == hash_node_arr[b][i]
  <1>3. b \in DOMAIN hash_node_arr /\ n \in Node /\ NodeSound(n) /\ n.key = KeyOf[r]
    <2>1. IsPick(b, i, KeyOf[r])
      BY <1>1
    <2> QED BY <2>1, PickedNode
  <1>4. PICK rest \in SUBSET Stored : /\ Stored = rest \cup Elements(n.rules)
                                      /\ Stored' = rest \cup Elements(hand'.rules)
                                      /\ \A q \in rest : KeyOf[q] # n.key
    <2>1. Unlink(b, i)
      BY <1>1
    <2> QED BY <1>2, <1>3, <2>1, StoredUnlink
  <1>5. PICK k \in DOMAIN n.rules :
          LET m == NodeDelete(n, k) IN
          /\ n.rules[k] = r
          /\ op' = [kind |-> "delete", rule |-> r]
          /\ IF m.rules = <<>>
             THEN hand' = NoNode /\ pc' = "finish"
             ELSE hand' = m /\ pc' = "link"
    BY <1>1
  <1> DEFINE m == NodeDelete(n, k)
  <1>6. r \in Elements(n.rules) /\ Elements(m.rules) = Elements(n.rules) \ {r}
    BY <1>3, <1>5, NodeDeleteSound DEF Elements
  <1> HIDE DEF m, n
  <1>7. Elements(hand'.rules) = Elements(m.rules)
    <2>1. CASE m.rules = <<>>
      <3>1. Elements(m.rules) = {} /\ hand' = NoNode
        BY <1>5, <2>1 DEF Elements, m
      <3> QED BY <3>1, NoNodeType
    <2>2. CASE m.rules # <<>>
      BY <1>5, <2>2 DEF m
    <2> QED BY <2>1, <2>2
  <1> QED BY <1>3, <1>4, <1>5, <1>6, <1>7

\* A failed delete of a rule whose key is stored loses the rules of that key.
LEMMA StoredLose ==
  ASSUME Inv, KeyDeterminesHash, NEW r \in Rules, DeleteNotInNode(r)
  PROVE  Stored' = {q \in Stored : KeyOf[q] # KeyOf[r]} /\ r \notin Stored
PROOF
  <1> DEFINE b == Index(HashOf[r])
  <1>1. PICK i \in DOMAIN hash_node_arr[b] :
          /\ IsPick(b, i, KeyOf[r]) /\ Unlink(b, i)
          /\ \A k \in DOMAIN hash_node_arr[b][i].rules : hash_node_arr[b][i].rules[k] # r
    BY DEF DeleteNotInNode
  <1>2. pc = "idle" /\ mask' = mask /\ origin' = origin /\ hand' = hand
    BY DEF DeleteNotInNode
  <1> DEFINE n == hash_node_arr[b][i]
  <1>3. b \in DOMAIN hash_node_arr /\ n.key = KeyOf[r]
    <2>1. IsPick(b, i, KeyOf[r])
      BY <1>1
    <2> QED BY <2>1, PickedNode
  <1>4. PICK rest \in SUBSET Stored : /\ Stored = rest \cup Elements(n.rules)
                                      /\ Stored' = rest \cup Elements(hand'.rules)
                                      /\ \A q \in Elements(n.rules) : KeyOf[q] = n.key
                                      /\ \A q \in rest : KeyOf[q] # n.key
    BY <1>1, <1>2, <1>3, StoredUnlink
  <1>5. Elements(hand'.rules) = {}
    BY <1>2, NoNodeType DEF Inv, Phases
  <1>6. r \notin Elements(n.rules)
    BY <1>1 DEF Elements
  <1> HIDE DEF n
  <1> QED BY <1>3, <1>4, <1>5, <1>6

\* A delete that finds no node: no stored rule has the key.
LEMMA StoredNoNode ==
  ASSUME Inv, KeyDeterminesHash, NEW r \in Rules, DeleteNoNode(r)
  PROVE  Stored' = Stored /\ \A q \in Stored : KeyOf[q] # KeyOf[r]
PROOF
  <1>1. /\ pc = "idle" /\ NoPick(Index(HashOf[r]), KeyOf[r])
        /\ hash_node_arr' = hash_node_arr /\ origin' = origin /\ hand' = hand
    BY DEF DeleteNoNode
  <1>2. Stored' = Stored
    BY <1>1 DEF Stored, Nodes
  <1>3. KeyOf[r] \notin Keys(hash_node_arr)
    BY <1>1, KeyAbsent
  <1>4. \A m \in NodesOf(hash_node_arr) : \A q \in Elements(m.rules) : KeyOf[q] = m.key
    BY DEF Inv, NodesSound, NodeSound
  <1>5. Stored = RulesOf(NodesOf(hash_node_arr))
    BY <1>1, StoredAtRest
  <1> QED BY <1>2, <1>3, <1>4, <1>5 DEF RulesOf, Keys

\* Moving nodes about stores and loses nothing.
LEMMA StoredGo ==
  ASSUME Inv, Go
  PROVE  Stored' = Stored
PROOF
  <1>1. CASE Link
    <2>1. /\ pc = "link" /\ Linked(hash_node_arr, hand)
          /\ hash_node_num' = hash_node_num + 1 /\ hand' = NoNode
          /\ mask' = mask /\ origin' = origin
      BY <1>1 DEF Link
    <2>2. hand \in Node /\ hand.key \notin Keys(hash_node_arr)
      BY <2>1 DEF Inv, TypeOK, OneNodePerKey
    <2>3. NodesOf(hash_node_arr') = NodesOf(hash_node_arr) \cup {hand}
      BY <2>1, <2>2, LinkStep
    <2>4. Nodes' = Nodes \cup {NoNode}
      BY <2>1, <2>3 DEF Nodes
    <2> QED BY <2>4, NoNodeType DEF Stored, RulesOf
  <1>2. CASE StartResize
    <2>1. /\ pc = "link" /\ hash_node_arr' = EmptyTable(2 * (mask + 1))
          /\ origin' = hash_node_arr /\ hand' = hand
      BY <1>2 DEF StartResize, Rehash
    <2>2. NodesOf(origin) = {} /\ 2 * (mask + 1) \in Nat
      BY <2>1, OriginIdle DEF Inv, TypeOK
    <2>3. NodesOf(hash_node_arr') = {}
      BY <2>1, <2>2, EmptyTableOK
    <2>4. Nodes' = Nodes
      BY <2>1, <2>2, <2>3 DEF Nodes
    <2> QED BY <2>4 DEF Stored
  <1>3. CASE ResizeMove
    <2>1. PICK b \in DOMAIN origin :
            /\ origin[b] # <<>>
            /\ Linked(hash_node_arr, origin[b][1])
            /\ origin' = [origin EXCEPT ![b] = Cut(origin[b], 1)]
      BY <1>3 DEF ResizeMove
    <2>2. hash_node_num' = hash_node_num + 1 /\ mask' = mask /\ hand' = hand
      BY <1>3 DEF ResizeMove
    <2> DEFINE n == origin[b][1]
    <2>3. 1 \in DOMAIN origin[b] /\ TableOK(origin)
      BY <2>1 DEF Inv, TableOK
    <2>4. Becomes(origin, origin', b, Cut(origin[b], 1))
      BY <2>1 DEF Becomes
    <2>5. WithoutNode(origin, origin', n)
      BY <2>3, <2>4, CutTable
    <2>6. n \in Node /\ n \in NodesOf(origin) /\ NodesOf(origin') = NodesOf(origin) \ {n} /\ n.key \in Keys(origin)
      BY <2>5 DEF WithoutNode
    <2>7. n.key \notin Keys(hash_node_arr)
      BY <2>6 DEF Inv, OneNodePerKey
    <2>8. NodesOf(hash_node_arr') = NodesOf(hash_node_arr) \cup {n}
      BY <2>1, <2>2, <2>6, <2>7, LinkStep
    <2> HIDE DEF n
    <2>9. Nodes' = Nodes
      BY <2>2, <2>6, <2>8 DEF Nodes
    <2> QED BY <2>9 DEF Stored
  <1>4. CASE ResizeDone
    <2>1. /\ origin' = EmptyTable(0) /\ \A b \in DOMAIN origin : origin[b] = <<>>
          /\ hash_node_arr' = hash_node_arr /\ hand' = hand
      BY <1>4 DEF ResizeDone
    <2>2. NodesOf(origin') = {} /\ NodesOf(origin) = {}
      BY <2>1, EmptyTableOK DEF NodesOf, Elements
    <2>3. Nodes' = Nodes
      BY <2>1, <2>2 DEF Nodes
    <2> QED BY <2>3 DEF Stored
  <1>5. CASE Finish
    <2>1. hash_node_arr' = hash_node_arr /\ origin' = origin /\ hand' = hand
      BY <1>5 DEF Finish, FinishInsert, FinishRefused, FinishDelete, Return
    <2> QED BY <2>1 DEF Stored, Nodes
  <1> QED BY <1>1, <1>2, <1>3, <1>4, <1>5 DEF Go

----------------------------------------------------------------------------
(***************************************************************************)
(* The table implements RuleStore.                                         *)
(***************************************************************************)
LEMMA StoreInit == ASSUME Init PROVE Store!Init
PROOF
  <1>1. Inv /\ pc = "idle" /\ hash_node_arr = EmptyTable(InitSize)
    BY InitInv DEF Init
  <1>2. NodesOf(hash_node_arr) = {}
    BY <1>1, EmptyTableOK, TableAssumption
  <1> QED BY <1>1, <1>2, StoredAtRest DEF Store!Init, RulesOf

LEMMA StoreStep ==
  ASSUME KeyDeterminesHash, Inv, [Next]_vars
  PROVE  [Store!Next]_Stored
PROOF
  <1>1. ASSUME NEW r \in Rules, InsertRule(r) \/ InsertRuleCollide(r)
        PROVE  [Store!Next]_Stored
    <2>1. Stored' = Stored \/ (Stored' = Stored \cup {r} /\ r \notin Stored)
      <3>1. PICK kind \in {"insert", "collide"} : InsertNew(kind, r) \/ InsertOld(kind, r)
        BY <1>1 DEF InsertRule, InsertRuleCollide
      <3>2. CASE InsertNew(kind, r)
        BY <3>2, StoredInsertNew
      <3>3. CASE InsertOld(kind, r)
        <4>1. \/ Stored' = Stored \cup {r} /\ r \notin Stored /\ op' = [kind |-> kind, rule |-> r]
              \/ Stored' = Stored /\ op' = [kind |-> "refused", rule |-> r]
          BY <3>3, StoredInsertOld
        <4> QED BY <4>1
      <3> QED BY <3>1, <3>2, <3>3
    <2> QED BY <2>1 DEF Store!Next, Store!Insert
  <1>2. ASSUME NEW r \in Rules, DeleteRule(r)
        PROVE  [Store!Next]_Stored
    BY <1>2, StoredDelete DEF Store!Next, Store!Delete
  <1>3. ASSUME NEW r \in Rules, DeleteNotInNode(r)
        PROVE  [Store!Next]_Stored
    BY <1>3, StoredLose DEF Store!Next, Store!Lose
  <1>4. ASSUME NEW r \in Rules, DeleteNoNode(r)
        PROVE  [Store!Next]_Stored
    BY <1>4, StoredNoNode
  <1>5. CASE Go
    BY <1>5, StoredGo
  <1>6. CASE UNCHANGED vars
    BY <1>6 DEF vars, Stored, Nodes
  <1> QED BY <1>1, <1>2, <1>3, <1>4, <1>5, <1>6 DEF Next, Call

\* Whatever the calls, the table behaves as a set of rules: every insert adds
\* its rule or nothing, every delete of a stored rule removes it alone.
THEOREM Refinement == KeyDeterminesHash => (Spec => StoreSpec)
PROOF
  <1> SUFFICES ASSUME KeyDeterminesHash PROVE Spec => StoreSpec
    OBVIOUS
  <1>1. Init => Store!Init
    BY StoreInit
  <1>2. Inv /\ [Next]_vars => [Store!Next]_Stored
    BY StoreStep
  <1>3. Spec => []Inv
    BY Invariance
  <1> QED BY <1>1, <1>2, <1>3, PTL DEF Spec, StoreSpec, Store!Spec

----------------------------------------------------------------------------
(***************************************************************************)
(* The cached max_priority.  In the middle of a call it may miss the rule  *)
(* being inserted, and, without failed deletes, may still be that of the   *)
(* rule being deleted; nothing else.                                       *)
(***************************************************************************)
Inserting(r) == pc # "idle" /\ op.kind \in {"insert", "collide"} /\ op.rule = r
Deleting(r) == pc # "idle" /\ op.kind = "delete" /\ op.rule = r

Covered == \A r \in Stored : Prio[r] <= max_priority \/ Inserting(r)
Attained == \/ max_priority = 0
            \/ \E r \in Rules : max_priority = Prio[r] /\ (r \in Stored \/ Deleting(r))
Taken == \A r \in Rules : Inserting(r) => r \in Stored
MaxInv == Inv /\ Covered /\ Taken /\ (Careless \/ (Attained /\ DeleteFinds))

LEMMA StoredRules == ASSUME Inv PROVE Stored \subseteq Rules
PROOF
  <1>1. ASSUME NEW n \in Node PROVE Elements(n.rules) \subseteq Rules
    BY DEF Node, Elements
  <1>2. Nodes \subseteq Node
    BY DEF Inv, TypeOK, Nodes, NodesOf, Elements
  <1> QED BY <1>1, <1>2 DEF Stored, RulesOf

\* The maximum over the heads of the chains is the best stored priority.
LEMMA Heads ==
  ASSUME Inv, pc \in {"idle", "finish"}, NEW m \in HeadPriorities,
         \A h \in HeadPriorities : h <= m
  PROVE  /\ \A r \in Stored : Prio[r] <= m
         /\ m = 0 \/ \E r \in Stored : m = Prio[r]
PROOF
  <1>1. Stored = RulesOf(NodesOf(hash_node_arr)) /\ Stored \subseteq Rules
    BY StoredAtRest, StoredRules
  <1>2. ASSUME NEW b \in DOMAIN hash_node_arr, NEW i \in DOMAIN hash_node_arr[b],
               NEW n, n = hash_node_arr[b][i]
        PROVE  /\ n \in Node /\ NodeSound(n) /\ n \in NodesOf(hash_node_arr)
               /\ hash_node_arr[b] # <<>> /\ 1 \in DOMAIN hash_node_arr[b]
    <2>1. hash_node_arr[b] \in Seq(Node) /\ n \in NodesOf(hash_node_arr)
      BY <1>2 DEF Inv, TypeOK, NodesOf, Elements
    <2>2. NodeSound(n)
      BY <2>1 DEF Inv, NodesSound
    <2> QED BY <1>2, <2>1, <2>2
  <1>3. ASSUME NEW n \in Node, NodeSound(n)
        PROVE  /\ n.max_priority \in Nat
               /\ \E r \in Elements(n.rules) : n.max_priority = Prio[r]
               /\ \A r \in Elements(n.rules) : Prio[r] <= n.max_priority
    <2>1. n.rules \in Seq(Rules) /\ n.rules # <<>> /\ Descending(n.rules)
          /\ n.max_priority = Prio[n.rules[1]]
      BY <1>3 DEF Node, NodeSound, HeadPriority
    <2>2. 1 \in DOMAIN n.rules /\ n.rules[1] \in Rules /\ Prio[n.rules[1]] \in Nat
      BY <2>1, TableAssumption
    <2>3. ASSUME NEW k \in DOMAIN n.rules PROVE Prio[n.rules[k]] <= n.max_priority
      <3>1. n.rules[k] \in Rules /\ Prio[n.rules[k]] \in Nat
        BY <2>1, TableAssumption
      <3>2. k = 1 \/ 1 < k
        BY <2>1
      <3> QED BY <2>1, <2>2, <3>1, <3>2 DEF Descending
    <2> QED BY <2>1, <2>2, <2>3 DEF Elements
  <1>4. ASSUME NEW r \in Stored PROVE Prio[r] <= m
    <2>1. PICK n \in NodesOf(hash_node_arr) : r \in Elements(n.rules)
      BY <1>1 DEF RulesOf
    <2>2. PICK b \in DOMAIN hash_node_arr : \E i \in DOMAIN hash_node_arr[b] : n = hash_node_arr[b][i]
      BY DEF NodesOf, Elements
    <2>3. PICK i \in DOMAIN hash_node_arr[b] : n = hash_node_arr[b][i]
      BY <2>2
    <2>4. /\ n \in Node /\ NodeSound(n)
          /\ hash_node_arr[b] # <<>> /\ 1 \in DOMAIN hash_node_arr[b]
      BY <1>2, <2>3
    <2> DEFINE head == hash_node_arr[b][1]
    <2>5. head \in Node /\ NodeSound(head)
      BY <1>2, <2>4
    <2>6. head.max_priority \in Nat /\ n.max_priority \in Nat /\ Prio[r] <= n.max_priority
          /\ Prio[r] \in Nat
      BY <1>1, <1>3, <2>1, <2>4, <2>5, TableAssumption
    <2>7. n.max_priority <= head.max_priority
      <3>1. ChainOrdered(hash_node_arr[b]) /\ hash_node_arr[b] \in Seq(Node)
        BY DEF Inv, TableOK, TypeOK
      <3>2. i = 1 \/ 1 < i
        BY <3>1
      <3> QED BY <2>3, <2>4, <2>6, <3>1, <3>2 DEF ChainOrdered
    <2>8. head.max_priority \in HeadPriorities
      BY <2>4 DEF HeadPriorities
    <2>9. m \in Nat /\ head.max_priority <= m
      <3>1. HeadPriorities \subseteq Nat
        <4>1. ASSUME NEW c \in DOMAIN hash_node_arr, hash_node_arr[c] # <<>>
              PROVE  hash_node_arr[c][1].max_priority \in Nat
          <5>1. 1 \in DOMAIN hash_node_arr[c]
            BY <4>1 DEF Inv, TypeOK
          <5> QED BY <1>2, <1>3, <5>1
        <4> QED BY <4>1 DEF HeadPriorities
      <3> QED BY <2>8, <3>1
    <2> QED BY <2>6, <2>7, <2>9
  <1>5. m = 0 \/ \E r \in Stored : m = Prio[r]
    <2>1. SUFFICES ASSUME m # 0 PROVE \E r \in Stored : m = Prio[r]
      OBVIOUS
    <2>2. PICK b \in DOMAIN hash_node_arr : hash_node_arr[b] # <<>> /\ m = hash_node_arr[b][1].max_priority
      BY <2>1 DEF HeadPriorities
    <2>3. 1 \in DOMAIN hash_node_arr[b]
      BY <2>2 DEF Inv, TypeOK
    <2> DEFINE head == hash_node_arr[b][1]
    <2>4. head \in Node /\ NodeSound(head) /\ head \in NodesOf(hash_node_arr)
      BY <1>2, <2>3
    <2>5. PICK r \in Elements(head.rules) : m = Prio[r]
      BY <1>3, <2>2, <2>4
    <2> QED BY <1>1, <2>4, <2>5 DEF RulesOf
  <1> QED BY <1>4, <1>5

LEMMA MaxInit == ASSUME Init PROVE MaxInv
PROOF
  <1>1. Inv /\ Stored = {}
    BY InitInv, StoreInit DEF Store!Init
  <1> QED BY <1>1 DEF Init, MaxInv, Covered, Taken, Inserting, Attained, DeleteFinds

\* The four ways in which a call begins.
LEMMA MaxBegin ==
  ASSUME MaxInv, pc = "idle", Inv', max_priority' = max_priority, ret' = ret,
         NEW r \in Rules,
         \/ /\ Stored' = Stored \cup {r} /\ pc' # "idle"
            /\ op'.kind \in {"insert", "collide"} /\ op'.rule = r
         \/ Stored' = Stored /\ op'.kind = "refused"
         \/ Stored' = Stored \ {r} /\ pc' # "idle" /\ op'.kind = "delete" /\ op'.rule = r
  PROVE  MaxInv'
PROOF
  <1>1. Stored' \subseteq Stored \cup {r} /\ \A q \in Stored : ~Inserting(q) /\ ~Deleting(q)
    BY DEF Inserting, Deleting
  <1>2. Covered'
    BY <1>1 DEF MaxInv, Covered, Inserting
  <1>3. ASSUME ~Careless PROVE Attained' /\ DeleteFinds'
    BY <1>1, <1>3 DEF MaxInv, Attained, DeleteFinds, Deleting
  <1>4. Careless \/ (Attained' /\ DeleteFinds')
    BY <1>3
  <1>5. Taken'
    BY DEF Taken, Inserting
  <1> QED BY <1>2, <1>4, <1>5 DEF MaxInv

LEMMA MaxCall ==
  ASSUME MaxInv, KeyDeterminesHash, Inv', NEW r \in Rules,
         \/ InsertRule(r) \/ InsertRuleCollide(r)
         \/ DeleteRule(r) \/ DeleteNoNode(r) \/ DeleteNotInNode(r)
  PROVE  MaxInv'
PROOF
  <1> Inv
    BY DEF MaxInv
  <1>1. ASSUME NEW kind \in {"insert", "collide"}, InsertNew(kind, r)
        PROVE  MaxInv'
    <2>1. Stored' = Stored \cup {r} /\ op' = [kind |-> kind, rule |-> r]
      BY <1>1, StoredInsertNew
    <2>2. pc = "idle" /\ pc' = "link" /\ max_priority' = max_priority /\ ret' = ret
      BY <1>1 DEF InsertNew, Hold
    <2>3. op'.kind \in {"insert", "collide"} /\ op'.rule = r
      BY <2>1
    <2> QED BY <2>1, <2>2, <2>3, MaxBegin
  <1>2. ASSUME NEW kind \in {"insert", "collide"}, InsertOld(kind, r)
        PROVE  MaxInv'
    <2>1. \/ Stored' = Stored \cup {r} /\ op' = [kind |-> kind, rule |-> r]
          \/ Stored' = Stored /\ op' = [kind |-> "refused", rule |-> r]
      <3>1. \/ Stored' = Stored \cup {r} /\ r \notin Stored /\ op' = [kind |-> kind, rule |-> r]
            \/ Stored' = Stored /\ op' = [kind |-> "refused", rule |-> r]
        BY <1>2, StoredInsertOld
      <3> QED BY <3>1
    <2>2. pc = "idle" /\ pc' = "link" /\ max_priority' = max_priority /\ ret' = ret
      BY <1>2 DEF InsertOld, Hold
    <2>3. CASE Stored' = Stored \cup {r} /\ op' = [kind |-> kind, rule |-> r]
      <3>1. op'.kind \in {"insert", "collide"} /\ op'.rule = r
        BY <2>3
      <3> QED BY <2>2, <2>3, <3>1, MaxBegin
    <2>4. CASE Stored' = Stored /\ op' = [kind |-> "refused", rule |-> r]
      <3>1. op'.kind = "refused"
        BY <2>4
      <3> QED BY <2>2, <2>4, <3>1, MaxBegin
    <2> QED BY <2>1, <2>3, <2>4
  <1>3. CASE DeleteRule(r)
    <2>1. Stored' = Stored \ {r} /\ op' = [kind |-> "delete", rule |-> r]
      BY <1>3, StoredDelete
    <2>2. /\ pc = "idle" /\ pc' # "idle" /\ max_priority' = max_priority /\ ret' = ret
      BY <1>3 DEF DeleteRule
    <2>3. op'.kind = "delete" /\ op'.rule = r
      BY <2>1
    <2> QED BY <2>1, <2>2, <2>3, MaxBegin
  <1>4. ASSUME Stored' \subseteq Stored, pc = "idle", pc' = "idle", Careless,
               max_priority' = max_priority
        PROVE  MaxInv'
    BY <1>4 DEF MaxInv, Covered, Taken, Inserting
  <1>5. CASE DeleteNoNode(r)
    <2>1. Stored' = Stored /\ r \notin Stored
      BY <1>5, StoredNoNode
    <2>2. pc = "idle" /\ pc' = "idle" /\ (Careless \/ r \in Stored) /\ max_priority' = max_priority
      BY <1>5 DEF DeleteNoNode
    <2> QED BY <1>4, <2>1, <2>2
  <1>6. CASE DeleteNotInNode(r)
    <2>1. Stored' \subseteq Stored /\ r \notin Stored
      BY <1>6, StoredLose
    <2>2. pc = "idle" /\ pc' = "idle" /\ (Careless \/ r \in Stored) /\ max_priority' = max_priority
      BY <1>6 DEF DeleteNotInNode
    <2> QED BY <1>4, <2>1, <2>2
  <1> QED BY <1>1, <1>2, <1>3, <1>5, <1>6 DEF InsertRule, InsertRuleCollide

LEMMA MaxGo ==
  ASSUME MaxInv, Inv', Go
  PROVE  MaxInv'
PROOF
  <1> Inv /\ Stored \subseteq Rules
    BY StoredRules DEF MaxInv
  <1>1. Stored' = Stored
    BY StoredGo
  <1>2. max_priority \in Nat /\ \A r \in Rules : Prio[r] \in Nat
    BY TableAssumption DEF Inv, TypeOK
  <1>3. CASE Link \/ StartResize \/ ResizeMove \/ ResizeDone
    <2>1. /\ pc # "idle" /\ pc' # "idle" /\ op' = op /\ max_priority' = max_priority /\ ret' = ret
      BY <1>3 DEF Link, StartResize, Rehash, ResizeMove, ResizeDone
    <2>2. Covered' /\ Taken'
      BY <1>1, <2>1 DEF MaxInv, Covered, Taken, Inserting
    <2>3. ASSUME Attained /\ DeleteFinds PROVE Attained' /\ DeleteFinds'
      BY <1>1, <2>1, <2>3 DEF Attained, DeleteFinds, Deleting
    <2> QED BY <2>2, <2>3 DEF MaxInv
  <1>4. ASSUME Finish, Covered', Attained => Attained'
        PROVE  MaxInv'
    <2>1. pc' = "idle" /\ ret' # 1
      BY <1>4 DEF Finish, FinishInsert, FinishRefused, FinishDelete, Return
    <2>2. Taken' /\ DeleteFinds'
      BY <2>1 DEF Taken, Inserting, DeleteFinds
    <2> QED BY <1>4, <2>2 DEF MaxInv
  <1>5. CASE FinishInsert
    <2>1. /\ pc = "finish" /\ pc' = "idle" /\ op.kind \in {"insert", "collide"}
          /\ max_priority' = IF Prio[op.rule] > max_priority THEN Prio[op.rule] ELSE max_priority
      BY <1>5 DEF FinishInsert, Return
    <2>2. op.rule \in Stored
      BY <2>1 DEF MaxInv, Taken, Inserting, Inv, TypeOK
    <2>3. Covered'
      <3>1. ASSUME NEW r \in Stored PROVE Prio[r] <= max_priority'
        <4>1. Prio[r] <= max_priority \/ op.rule = r
          BY DEF MaxInv, Covered, Inserting
        <4> QED BY <1>2, <2>1, <2>2, <4>1
      <3> QED BY <1>1, <3>1 DEF Covered
    <2>4. ASSUME Attained PROVE Attained'
      <3>1. max_priority = 0 \/ \E r \in Stored : max_priority = Prio[r]
        BY <2>1, <2>4 DEF Attained, Deleting
      <3>2. max_priority' = 0 \/ \E r \in Stored : max_priority' = Prio[r]
        BY <2>1, <2>2, <3>1
      <3> QED BY <1>1, <3>2 DEF Attained
    <2> QED BY <1>4, <1>5, <2>3, <2>4 DEF Finish
  <1>6. CASE FinishRefused
    <2>1. /\ pc' = "idle" /\ op.kind = "refused" /\ max_priority' = max_priority
      BY <1>6 DEF FinishRefused, Return
    <2>2. Covered' /\ (Attained => Attained')
      BY <1>1, <2>1 DEF MaxInv, Covered, Inserting, Attained, Deleting
    <2> QED BY <1>4, <1>6, <2>2 DEF Finish
  <1>7. CASE FinishDelete
    <2>1. /\ pc = "finish" /\ pc' = "idle" /\ op.kind = "delete"
      BY <1>7 DEF FinishDelete, Return
    <2>2. CASE Prio[op.rule] = max_priority
      <3>1. /\ max_priority' \in HeadPriorities
            /\ \A h \in HeadPriorities : h <= max_priority'
        BY <1>7, <2>2 DEF FinishDelete
      <3>2. /\ \A r \in Stored : Prio[r] <= max_priority'
            /\ max_priority' = 0 \/ \E r \in Stored : max_priority' = Prio[r]
        BY <2>1, <3>1, Heads
      <3>3. Covered' /\ Attained'
        BY <1>1, <3>2 DEF Covered, Attained
      <3> QED BY <1>4, <1>7, <3>3 DEF Finish
    <2>3. CASE Prio[op.rule] # max_priority
      <3>1. max_priority' = max_priority
        BY <1>7, <2>3 DEF FinishDelete
      <3>2. Covered'
        BY <1>1, <2>1, <3>1 DEF MaxInv, Covered, Inserting
      <3>3. Attained => Attained'
        BY <1>1, <2>1, <2>3, <3>1 DEF Attained, Deleting
      <3> QED BY <1>4, <1>7, <3>2, <3>3 DEF Finish
    <2> QED BY <2>2, <2>3
  <1> QED BY <1>3, <1>5, <1>6, <1>7 DEF Go, Finish

LEMMA MaxStep ==
  ASSUME KeyDeterminesHash, MaxInv, [Next]_vars
  PROVE  MaxInv'
PROOF
  <1>1. Inv'
    BY NextInv DEF MaxInv
  <1>2. CASE UNCHANGED vars
    <2>1. Stored' = Stored
      BY <1>2 DEF vars, Stored, Nodes
    <2>2. pc' = pc /\ op' = op /\ max_priority' = max_priority /\ ret' = ret
      BY <1>2 DEF vars
    <2>3. Covered' /\ Taken'
      BY <2>1, <2>2 DEF MaxInv, Covered, Taken, Inserting
    <2>4. ASSUME Attained /\ DeleteFinds PROVE Attained' /\ DeleteFinds'
      BY <2>1, <2>2, <2>4 DEF Attained, DeleteFinds, Deleting
    <2> QED BY <1>1, <2>3, <2>4 DEF MaxInv
  <1> QED BY <1>1, <1>2, MaxCall, MaxGo DEF Next, Call

LEMMA MaxInvariance == KeyDeterminesHash => (Spec => []MaxInv)
PROOF
  <1> SUFFICES ASSUME KeyDeterminesHash PROVE Spec => []MaxInv
    OBVIOUS
  <1>1. Init => MaxInv
    BY MaxInit
  <1>2. MaxInv /\ [Next]_vars => MaxInv'
    BY MaxStep
  <1> QED BY <1>1, <1>2, PTL DEF Spec

\* No stored rule is ever better than the max_priority of an idle table.
THEOREM Covers == KeyDeterminesHash => (Spec => []MaxCovers)
PROOF
  <1>1. MaxInv => MaxCovers
    BY DEF MaxInv, Covered, Inserting, MaxCovers
  <1> QED BY <1>1, MaxInvariance, PTL

\* With careful callers max_priority is exactly the best stored priority.
THEOREM Exact == KeyDeterminesHash => (Spec => []MaxExact)
PROOF
  <1>1. ASSUME MaxInv PROVE MaxExact
    <2>1. SUFFICES ASSUME pc = "idle", ~Careless
                   PROVE  /\ \A r \in Stored : Prio[r] <= max_priority
                          /\ max_priority \in {0} \cup {Prio[r] : r \in Stored}
      BY DEF MaxExact
    <2>2. Covered /\ Attained
      BY <1>1, <2>1 DEF MaxInv
    <2> QED BY <2>1, <2>2 DEF Covered, Attained, Inserting, Deleting
  <1> QED BY <1>1, MaxInvariance, PTL

\* With careful callers no delete fails.
THEOREM Finds == KeyDeterminesHash => (Spec => []DeleteFinds)
PROOF
  <1>1. MaxInv => DeleteFinds
    BY DEF MaxInv, DeleteFinds
  <1> QED BY <1>1, MaxInvariance, PTL

----------------------------------------------------------------------------
(***************************************************************************)
(* A lookup in the table.                                                  *)
(***************************************************************************)

\* The only node of r's key is in the chain of r's hash.
LEMMA StoredNode ==
  ASSUME Inv, KeyDeterminesHash, pc = "idle", NEW r \in Rules,
         NEW q \in Stored, KeyOf[q] = KeyOf[r],
         NEW chain, chain = hash_node_arr[Index(HashOf[r])]
  PROVE  \E i \in DOMAIN chain : /\ q \in Elements(chain[i].rules) /\ chain[i].key = KeyOf[r]
                                 /\ \A j \in DOMAIN chain : chain[j].key = KeyOf[r] => j = i
PROOF
  <1>1. PICK n \in NodesOf(hash_node_arr) : q \in Elements(n.rules)
    BY StoredAtRest DEF RulesOf
  <1>2. PICK b \in DOMAIN hash_node_arr : \E i \in DOMAIN hash_node_arr[b] : n = hash_node_arr[b][i]
    BY <1>1 DEF NodesOf, Elements
  <1>3. PICK i \in DOMAIN hash_node_arr[b] : n = hash_node_arr[b][i]
    BY <1>2
  <1>4. n.key = KeyOf[q] /\ n.hash = HashOf[q] /\ q \in Rules
    <2>1. KeyOf[q] = n.key /\ HashOf[q] = n.hash
      BY <1>1 DEF Inv, NodesSound, NodeSound
    <2>2. q \in Rules
      BY StoredRules
    <2> QED BY <2>1, <2>2
  <1>5. HashOf[q] = HashOf[r]
    BY <1>4 DEF KeyDeterminesHash
  <1>6. b = Index(HashOf[r])
    BY <1>3, <1>4, <1>5 DEF Inv, Placed
  <1>7. ASSUME NEW j \in DOMAIN chain, chain[j].key = KeyOf[r] PROVE j = i
    BY <1>3, <1>4, <1>6, <1>7, SMTT(30) DEF Inv, OneNodePerKey, KeysOnce
  <1> QED BY <1>1, <1>3, <1>4, <1>6, <1>7

\* A chain and the list of a node, as the scans read them.
LEMMA ScansDescend ==
  ASSUME Inv, KeyDeterminesHash, NEW r \in Rules,
         NEW chain, chain = hash_node_arr[Index(HashOf[r])], NEW i \in DOMAIN chain
  PROVE  /\ i \in Nat /\ DOMAIN chain = 1 .. Len(chain) /\ Len(chain) \in Nat
         /\ \A j \in DOMAIN chain : j < i => chain[j].max_priority >= chain[i].max_priority
         /\ \A j \in DOMAIN chain : chain[j].max_priority \in Nat
         /\ chain[i].rules \in Seq(Rules) /\ chain[i].rules # <<>> /\ Descending(chain[i].rules)
         /\ chain[i].max_priority = Prio[chain[i].rules[1]]
         /\ Elements(chain[i].rules) \subseteq Stored
PROOF
  <1>1. Index(HashOf[r]) \in DOMAIN hash_node_arr
    BY IndexInTable, TableAssumption
  <1>2. chain \in Seq(Node) /\ ChainOrdered(chain)
    BY <1>1 DEF Inv, TypeOK, TableOK
  <1>3. chain[i] \in NodesOf(hash_node_arr)
    BY <1>1 DEF NodesOf, Elements
  <1>4. NodeSound(chain[i]) /\ chain[i] \in Node
    BY <1>2, <1>3 DEF Inv, NodesSound
  <1>5. Elements(chain[i].rules) \subseteq Stored
    BY <1>3 DEF Stored, Nodes, RulesOf
  <1>6. /\ chain[i].rules \in Seq(Rules) /\ chain[i].rules # <<>> /\ Descending(chain[i].rules)
        /\ chain[i].max_priority = Prio[chain[i].rules[1]]
    BY <1>4 DEF NodeSound, Node, HeadPriority
  <1>7. ASSUME NEW j \in DOMAIN chain PROVE chain[j].max_priority \in Nat
    <2>1. chain[j] \in Node
      BY <1>2
    <2> QED BY <2>1 DEF Node
  <1>8. \A j \in DOMAIN chain : j < i => chain[j].max_priority >= chain[i].max_priority
    BY <1>2 DEF ChainOrdered
  <1>9. i \in Nat /\ DOMAIN chain = 1 .. Len(chain) /\ Len(chain) \in Nat
    BY <1>2
  <1> QED BY <1>5, <1>6, <1>7, <1>8, <1>9

\* The lookup leaves with the best of what it came with and what matches.
THEOREM Probe == KeyDeterminesHash => (Spec => []ProbeExact)
PROOF
  <1>1. ASSUME Inv, KeyDeterminesHash PROVE ProbeExact
    <2> SUFFICES ASSUME pc = "idle", NEW r \in Rules, NEW p \in {0} \cup {Prio[q] : q \in Rules},
                        NEW M \in SUBSET {q \in Rules : KeyOf[q] = KeyOf[r]}
                 PROVE  Hit(HashOf[r], KeyOf[r], M, p) =
                          {q \in Stored \cap M : Prio[q] > p /\ \A s \in Stored \cap M : Prio[s] <= Prio[q]}
      BY DEF ProbeExact
    <2> DEFINE chain == hash_node_arr[Index(HashOf[r])]
               best == {q \in Stored \cap M : Prio[q] > p /\ \A s \in Stored \cap M : Prio[s] <= Prio[q]}
    <2>0. /\ \A q \in M : q \in Rules /\ KeyOf[q] = KeyOf[r] /\ Prio[q] \in Nat
          /\ p \in Nat /\ \A q \in Rules : Prio[q] \in Nat
      BY TableAssumption
    <2>1. ASSUME NEW q \in Hit(HashOf[r], KeyOf[r], M, p) PROVE q \in best
      <3>1. PICK i \in DOMAIN chain : \E k \in DOMAIN chain[i].rules :
              Reaches(chain, i, KeyOf[r], p) /\ Hits(chain[i].rules, k, M, p) /\ chain[i].rules[k] = q
        BY DEF Hit
      <3>2. PICK k \in DOMAIN chain[i].rules :
              Reaches(chain, i, KeyOf[r], p) /\ Hits(chain[i].rules, k, M, p) /\ chain[i].rules[k] = q
        BY <3>1
      <3>3. chain[i].rules \in Seq(Rules) /\ Descending(chain[i].rules) /\ Elements(chain[i].rules) \subseteq Stored
        BY <1>1, ScansDescend
      <3>4. q \in M /\ q \in Stored /\ Prio[q] > p
        BY <3>2, <3>3 DEF Hits, Elements
      <3>5. ASSUME NEW s \in Stored \cap M PROVE Prio[s] <= Prio[q]
        <4>1. PICK j \in DOMAIN chain : /\ s \in Elements(chain[j].rules)
                                       /\ \A l \in DOMAIN chain : chain[l].key = KeyOf[r] => l = j
          BY <1>1, <2>0, StoredNode
        <4>2. j = i
          BY <3>2, <4>1 DEF Reaches
        <4>3. PICK l \in DOMAIN chain[i].rules : s = chain[i].rules[l]
          BY <4>1, <4>2 DEF Elements
        <4>4. ~ l < k
          BY <3>2, <3>3, <4>3 DEF Hits
        <4>5. l = k \/ k < l
          BY <3>3, <4>4
        <4> QED BY <2>0, <3>2, <3>3, <3>4, <4>3, <4>5 DEF Descending
      <3> QED BY <3>4, <3>5
    <2>2. ASSUME NEW q \in best PROVE q \in Hit(HashOf[r], KeyOf[r], M, p)
      <3>1. q \in Stored /\ q \in M /\ Prio[q] > p /\ \A s \in Stored \cap M : Prio[s] <= Prio[q]
        OBVIOUS
      <3>2. PICK i \in DOMAIN chain :
              /\ q \in Elements(chain[i].rules) /\ chain[i].key = KeyOf[r]
              /\ \A j \in DOMAIN chain : chain[j].key = KeyOf[r] => j = i
        BY <1>1, <2>0, <3>1, StoredNode
      <3> DEFINE list == chain[i].rules
      <3>3. /\ i \in Nat /\ DOMAIN chain = 1 .. Len(chain) /\ Len(chain) \in Nat
            /\ \A j \in DOMAIN chain : j < i => chain[j].max_priority >= chain[i].max_priority
            /\ \A j \in DOMAIN chain : chain[j].max_priority \in Nat
            /\ list \in Seq(Rules) /\ list # <<>> /\ Descending(list)
            /\ chain[i].max_priority = Prio[list[1]]
            /\ Elements(list) \subseteq Stored
        BY <1>1, ScansDescend
      <3>4. PICK k \in DOMAIN list : list[k] = q
        BY <3>2 DEF Elements
      <3> HIDE DEF chain, list, best
      <3>5. /\ 1 \in DOMAIN list /\ k \in Nat /\ k >= 1
            /\ \A j \in DOMAIN list : list[j] \in Rules /\ Prio[list[j]] \in Nat /\ list[j] \in Stored
        BY <2>0, <3>3, <3>4 DEF Elements
      <3>6. \A j \in 1 .. k : j \in DOMAIN list /\ p < Prio[list[j]]
        <4>1. ASSUME NEW j \in 1 .. k PROVE j \in DOMAIN list
          BY <3>3, <3>4
        <4>2. ASSUME NEW j \in 1 .. k PROVE Prio[list[j]] >= Prio[q]
          BY <3>3, <3>4, <3>5, <4>1 DEF Descending
        <4> QED BY <2>0, <3>1, <3>5, <4>1, <4>2
      <3>7. \A j \in 1 .. k - 1 : list[j] \notin M
        <4> SUFFICES ASSUME NEW j \in 1 .. k - 1, list[j] \in M PROVE FALSE
          OBVIOUS
        <4>1. j \in DOMAIN list /\ j < k
          BY <3>3, <3>4
        <4>2. Prio[list[j]] > Prio[q]
          BY <3>3, <3>4, <4>1 DEF Descending
        <4> QED BY <2>0, <3>1, <3>5, <4>1, <4>2
      <3>8. Hits(list, k, M, p)
        BY <3>1, <3>4, <3>6, <3>7 DEF Hits
      <3>9. Reaches(chain, i, KeyOf[r], p)
        <4>1. p < chain[i].max_priority
          BY <3>3, <3>5, <3>6
        <4>2. ASSUME NEW j \in 1 .. i PROVE p < chain[j].max_priority
          <5>1. j \in DOMAIN chain /\ (j = i \/ j < i)
            BY <3>2, <3>3
          <5> QED BY <2>0, <3>2, <3>3, <4>1, <5>1
        <4>3. ASSUME NEW j \in 1 .. i - 1 PROVE chain[j].key # KeyOf[r]
          BY <3>2, <3>3
        <4> QED BY <3>2, <4>2, <4>3 DEF Reaches
      <3> QED BY <3>1, <3>2, <3>4, <3>8, <3>9 DEF Hit, chain, list
    <2> QED BY <2>1, <2>2
  <1>2. KeyDeterminesHash /\ Inv => ProbeExact
    BY <1>1
  <1> SUFFICES ASSUME KeyDeterminesHash PROVE Spec => []ProbeExact
    OBVIOUS
  <1> QED BY <1>2, Invariance, PTL
=============================================================================
