---------------------------- MODULE IntervalTree ----------------------------
(***************************************************************************)
(* partitionsort/PartitionSort/red_black_tree.cpp: trees of intervals, one *)
(* level for each field of a rule.  The key of a rule is the sequence of   *)
(* its boxes (pairs of a low and a high point) in the order of the fields; *)
(* a node of level l has a box and points to the tree of the rules that go *)
(* on from it.  A tree of one rule has no nodes, only the rest of its key. *)
(*                                                                         *)
(* A multi-level tree is a function from paths, the boxes passed, to trees *)
(* without their nodes: tree q has a node of box b when Append(q, b) is a  *)
(* path too.  How the nodes of one tree are balanced is left out: here a   *)
(* search finds the node whose box equals or overlaps the one searched, if *)
(* any.  The boxes of a tree's nodes are disjoint.                         *)
(***************************************************************************)
EXTENDS Integers, Sequences

CONSTANT IntBits   \* width of unsigned, 32 in the code; points have 64 bits

Unsigned(x) == x % 2 ^ IntBits

\* IsIntersect, Overlap and IsIdentical take the points as unsigned
IsIntersect(b, c) ==
  /\ Unsigned(b[1]) <= Unsigned(c[2])
  /\ Unsigned(c[1]) <= Unsigned(b[2])
IsIdentical(b, c) == Unsigned(b[1]) = Unsigned(c[1]) /\ Unsigned(b[2]) = Unsigned(c[2])

Tree(n, chain, priorities) ==
  [count |-> n, chain_boxes |-> chain, priority_list |-> priorities]
RBTreeCreate == [q \in {<<>>} |-> Tree(0, <<>>, {})]

Upto(key, l) == [i \in 1 .. l |-> key[i]]
Rest(key, l) == [i \in 1 .. Len(key) - l |-> key[l + i]]
OnWay(q, key) == Len(q) <= Len(key) /\ q = Upto(key, Len(q))
GetMaxPriority(T) ==
  IF T.priority_list = {} THEN -1
  ELSE CHOOSE m \in T.priority_list : \A n \in T.priority_list : n <= m

\* the boxes of the nodes of tree q
Boxes(t, q) == {p[Len(p)] : p \in {p \in DOMAIN t : p # <<>> /\ Upto(p, Len(p) - 1) = q}}

\* the level where the recursion along key ends: the last one, a tree of at most
\* n rules, or a tree without a node of the key's box
Depth(t, key, n) ==
  CHOOSE l \in 0 .. Len(key) :
    /\ l = Len(key) \/ t[Upto(key, l)].count <= n \/ Upto(key, l + 1) \notin DOMAIN t
    /\ \A k \in 0 .. l - 1 : t[Upto(key, k)].count > n /\ Upto(key, k + 1) \in DOMAIN t

\* the trees above level l on the way of key get n rules more
Passed(t, key, l, n) ==
  [q \in DOMAIN t |-> IF Len(q) < l /\ OnWay(q, key) THEN [t[q] EXCEPT !.count = @ + n] ELSE t[q]]

\* how many boxes two keys have in common
Agreement(u, v) ==
  CHOOSE n \in 0 .. Len(u) : /\ Upto(u, n) = Upto(v, n)
                             /\ n < Len(u) => u[n + 1] # v[n + 1]

----------------------------------------------------------------------------
(***************************************************************************)
(* May a rule go into the tree (RBTreeCanInsert)?  Only if at the first    *)
(* level where its box is not that of some rule it overlaps no other.      *)
(***************************************************************************)
FirstOther(rest, chain) ==
  {i \in DOMAIN rest : /\ ~IsIdentical(rest[i], chain[i])
                       /\ \A j \in 1 .. i - 1 : IsIdentical(rest[j], chain[j])}

\* mutant: the chain of a single rule is not looked at
RBTreeCanInsertChain(t, key) ==
  LET l == Depth(t, key, 1)
      T == t[Upto(key, l)]
  IN  l < Len(key) /\ T.count > 1 => \A b \in Boxes(t, Upto(key, l)) : ~IsIntersect(b, key[l + 1])

RBTreeCanInsert(t, key) ==
  LET l == Depth(t, key, 1)
      T == t[Upto(key, l)]
      rest == Rest(key, l)
  IN  \/ l = Len(key) \/ T.count = 0
      \/ /\ T.count = 1
         /\ \A i \in FirstOther(rest, T.chain_boxes) : ~IsIntersect(rest[i], T.chain_boxes[i])
      \/ /\ T.count > 1
         /\ \A b \in Boxes(t, Upto(key, l)) : ~IsIntersect(b, key[l + 1])

----------------------------------------------------------------------------
(***************************************************************************)
(* Insert (RBTreeInsertWithPathCompression).                               *)
(***************************************************************************)

(***************************************************************************)
(* The tree at level l of key has one rule, of key "other".  As far as the *)
(* two keys agree there is a tree for each level; then they fork, or the   *)
(* rules end in one leaf.  The tree keeps its list, the new ones between   *)
(* have none.                                                              *)
(***************************************************************************)
Unzip(t, key, p, l) ==
  LET at == Upto(key, l)
      other == at \o t[at].chain_boxes
      n == Agreement(key, other)
      spine == {Upto(key, i) : i \in l .. n}
      forks == IF n < Len(key) THEN {Upto(key, n + 1), Upto(other, n + 1)} ELSE {}
  IN  [q \in DOMAIN t \cup spine \cup forks |->
         CASE q \in forks /\ OnWay(q, key) -> Tree(1, Rest(key, n + 1), {p})
           [] q \in forks /\ ~OnWay(q, key) -> Tree(1, Rest(other, n + 1), {GetMaxPriority(t[at])})
           [] q \in spine -> Tree(2, <<>>, IF q = at THEN t[at].priority_list
                                          ELSE IF Len(q) = Len(key) THEN {p} \cup t[at].priority_list
                                          ELSE {})
           [] OTHER -> t[q]]

\* the tree at level l of key gets a node for its next box, of a tree with one rule
AddNode(t, key, p, l) ==
  LET new == Upto(key, l + 1)
  IN  [q \in DOMAIN t \cup {new} |-> IF q = new THEN Tree(1, Rest(key, l + 1), {p}) ELSE t[q]]

RBTreeInsert(t, key, p) ==
  LET l == Depth(t, key, 1)
      at == Upto(key, l)
  IN  IF l = Len(key) \/ t[at].count = 0
      THEN [Passed(t, key, l, 1) EXCEPT
              ![at] = Tree(@.count + 1, Rest(key, l), @.priority_list \cup {p})]
      ELSE IF t[at].count = 1 THEN Unzip(Passed(t, key, l, 1), key, p, l)
      ELSE AddNode(Passed(t, key, l + 1, 1), key, p, l)

\* Does the insert complain that boxes overlap?  It exits (l.434), or goes round
\* for ever (l.668), when the boxes at which a rule forks from the only other one
\* do.
Warns(t, key) ==
  LET l == Depth(t, key, 1)
      T == t[Upto(key, l)]
      n == Agreement(Rest(key, l), T.chain_boxes)
  IN  /\ l < Len(key) /\ T.count = 1 /\ l + n < Len(key)
      /\ IsIntersect(key[l + n + 1], T.chain_boxes[n + 1])

----------------------------------------------------------------------------
(***************************************************************************)
(* Delete (RBTreeDeleteWithPathCompression), for a rule that is there.     *)
(***************************************************************************)
Without(t, gone) == [q \in DOMAIN t \ gone |-> t[q]]

\* what is below tree "at", and its ends: trees of one rule and lists of equal keys
Below(t, at) == {q \in DOMAIN t : OnWay(at, q) /\ q # at}
Ends(t, at, key) == {q \in Below(t, at) : t[q].count = 1 \/ Len(q) = Len(key)}

\* mutant: the chain begins below the next level
CollapseShort(t, key, p, at) ==
  LET ends == Ends(t, at, key)
      last == CHOOSE q \in ends : OnWay(q, key) => ends = {q}
      left == IF t[last].count = 2 THEN t[last].priority_list \ {p} ELSE t[last].priority_list
  IN  [q \in DOMAIN t \ Below(t, at) |-> IF q = at THEN Tree(1, t[last].chain_boxes, left) ELSE t[q]]

(***************************************************************************)
(* Tree "at" has two rules, one of them going.  The way down, past sole    *)
(* children and at the fork to the child that is not the key's, leads to   *)
(* where the other one ends, its chain is what was passed, and the trees   *)
(* below go.                                                               *)
(***************************************************************************)
Collapse(t, key, p, at) ==
  LET ends == Ends(t, at, key)
      last == CHOOSE q \in ends : OnWay(q, key) => ends = {q}
      chain == Rest(last, Len(at)) \o t[last].chain_boxes
      left == IF t[last].count = 2 THEN t[last].priority_list \ {p} ELSE t[last].priority_list
  IN  [q \in DOMAIN t \ Below(t, at) |-> IF q = at THEN Tree(1, chain, left) ELSE t[q]]

RBTreeDelete(t, key, p) ==
  LET l == Depth(t, key, 2)
      at == Upto(key, l)
      passed == Passed(t, key, l, -1)
  IN  IF t[at].count = 1
      THEN IF l = 0 THEN RBTreeCreate ELSE Without(passed, {at})
      ELSE IF l = Len(key)
      THEN [passed EXCEPT ![at] = Tree(@.count - 1, <<>>, @.priority_list \ {p})]
      ELSE Collapse(passed, key, p, at)

----------------------------------------------------------------------------
(***************************************************************************)
(* Query (RBExactQueryIterative): from each tree to the node whose box has *)
(* the point, at a tree of one rule the rest of its key is compared.       *)
(***************************************************************************)
InBox(b, x) == b[1] <= x /\ x <= b[2]

RBExactQuery(t, points) ==
  LET ends == {q \in DOMAIN t : /\ t[q].count = 1 \/ Len(q) = Len(points)
                                /\ LET key == q \o t[q].chain_boxes
                                   IN  \A i \in DOMAIN key : InBox(key[i], points[i])}
  IN  IF ends = {} THEN -1 ELSE GetMaxPriority(t[CHOOSE q \in ends : TRUE])
=============================================================================
