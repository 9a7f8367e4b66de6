---------------------------- MODULE RedBlackTree ----------------------------
(***************************************************************************)
(* One level of an interval tree as red_black_tree.cpp keeps it balanced:  *)
(* nodes with pointers to their children and parents and a colour, between *)
(* two sentinels.  Every turn of a loop is a step.                         *)
(*                                                                         *)
(* The boxes of one level are equal or disjoint (Sortable of module        *)
(* PartitionSort), so a key is a number for the place of its box among     *)
(* them.  Nodes keep their keys and are themselves named by them here; the *)
(* trees of the next level play no part.                                   *)
(***************************************************************************)
EXTENDS Integers, FiniteSets

CONSTANT Keys

KeysAssumption == Keys \subseteq Nat \ {0} /\ IsFiniteSet(Keys)

Root == 0   \* the root sentinel: its left child is the root
Nil == -1   \* shared by all leaves; its parent pointer is what was written last

VARIABLES
  node,    \* the nodes allocated
  pc,      \* what the call is doing
  z,       \* the node inserted or deleted
  x,       \* where the loop is
  y,       \* the node a delete takes out of the tree: z or its successor
  root     \* RBDeleteFixUp's copy of the root, made when it begins

vars == <<node, pc, z, x, y, root>>

Sides == {"left", "right"}
Opposite(d) == CHOOSE e \in Sides : e # d
Side(h, n, p) == IF n = h[p].left THEN "left" ELSE "right"

Leaf(p, red) == [left |-> Nil, right |-> Nil, parent |-> p, red |-> red]

\* RBTreeCreate
Init ==
  /\ node = [n \in {Root, Nil} |-> Leaf(Nil, FALSE)]
  /\ pc = "idle" /\ z = Nil /\ x = Nil /\ y = Nil /\ root = Nil

\* the locals are gone
Return == pc' = "idle" /\ z' = Nil /\ x' = Nil /\ y' = Nil /\ root' = Nil

Stored == DOMAIN node \ {Root, Nil}

\* mutant: nil's parent is written too
RotateNil(h, n, d) ==
  LET e == Opposite(d)
      m == h[n][e]
      c == h[m][d]
      p == h[n].parent
  IN  [h EXCEPT ![n][e] = c, ![c].parent = n, ![m].parent = p, ![p][Side(h, n, p)] = m,
                ![m][d] = n, ![n].parent = m]

\* LeftRotate and RightRotate: n goes down on side d.  Nil's parent stays.
Rotate(h, n, d) ==
  LET e == Opposite(d)
      m == h[n][e]
      c == h[m][d]
      p == h[n].parent
  IN  [h EXCEPT ![n][e] = c, ![c].parent = IF c = Nil THEN @ ELSE n,
                ![m].parent = p, ![p][Side(h, n, p)] = m,
                ![m][d] = n, ![n].parent = m]

----------------------------------------------------------------------------
(***************************************************************************)
(* The search with which queries, inserts and deletes begin: the last node *)
(* passed, and the node of the key or nil; i bounds the turns.             *)
(***************************************************************************)
RECURSIVE From(_, _, _, _)
From(k, i, y0, x0) ==
  IF i = 0 \/ x0 \in {Nil, k} THEN <<y0, x0>>
  ELSE From(k, i - 1, x0, IF x0 > k THEN node[x0].left ELSE node[x0].right)

Search(k) == From(k, Cardinality(DOMAIN node), Root, node[Root].left)

----------------------------------------------------------------------------
(***************************************************************************)
(* Insert (RBTreeInsert, RBTreeInsertWithPathCompression).                 *)
(***************************************************************************)
InsertNode(k) ==
  /\ pc = "idle" /\ Search(k)[2] = Nil
  /\ LET p == Search(k)[1]
         d == IF p = Root \/ p > k THEN "left" ELSE "right"
         h == [n \in DOMAIN node \cup {k} |-> IF n = k THEN Leaf(p, TRUE) ELSE node[n]]
     IN  node' = [h EXCEPT ![p][d] = k]
  /\ pc' = "insert" /\ z' = k /\ x' = k
  /\ UNCHANGED <<y, root>>

\* mutant: where nil is the uncle nothing is done
InsertTurnNoUncle ==
  LET p == node[x].parent
      g == node[p].parent
      u == node[g][Opposite(Side(node, p, g))]
  IN  /\ pc = "insert" /\ node[p].red
      /\ IF u = Nil THEN UNCHANGED <<node, x>>
         ELSE /\ node' = [node EXCEPT ![p].red = FALSE, ![u].red = FALSE, ![g].red = TRUE]
              /\ x' = g
      /\ UNCHANGED <<pc, z, y, root>>

\* The parent is red.  A red uncle: the grandparent is painted red and is next.
\* A black one: at most two rotations, and the parent is black.
\* (\E over one element names the tree between two rotations.)
InsertTurn ==
  LET p == node[x].parent
      g == node[p].parent
      d == Side(node, p, g)
      u == node[g][Opposite(d)]
      inner == x = node[p][Opposite(d)]
      outer == IF inner THEN p ELSE x
  IN  /\ pc = "insert" /\ node[p].red
      /\ \/ /\ node[u].red
            /\ node' = [node EXCEPT ![p].red = FALSE, ![u].red = FALSE, ![g].red = TRUE]
            /\ x' = g
         \/ /\ ~node[u].red
            /\ \E h \in {IF inner THEN Rotate(node, p, d) ELSE node} :
                 LET q == h[outer].parent
                     t == h[q].parent
                 IN  node' = Rotate([h EXCEPT ![q].red = FALSE, ![t].red = TRUE], t, Opposite(d))
            /\ x' = outer
      /\ UNCHANGED <<pc, z, y, root>>

InsertEnd ==
  /\ pc = "insert" /\ ~node[node[x].parent].red
  /\ node' = [node EXCEPT ![node[Root].left].red = FALSE]
  /\ Return

----------------------------------------------------------------------------
(***************************************************************************)
(* Delete (RBDelete, RBDeleteFixUp).                                       *)
(***************************************************************************)

RECURSIVE Leftmost(_)
Leftmost(n) == IF node[n].left = Nil THEN n ELSE Leftmost(node[n].left)

\* TreeSuccessor, for a node with a right child
Successor(n) == Leftmost(node[n].right)

\* y, the node or its successor, is taken out and its only child x put in its place
SpliceOut(k) ==
  /\ pc = "idle" /\ Search(k)[2] = k
  /\ LET s == IF Nil \in {node[k].left, node[k].right} THEN k ELSE Successor(k)
         c == IF node[s].left = Nil THEN node[s].right ELSE node[s].left
         p == node[s].parent
         h == [node EXCEPT ![c].parent = p, ![p][Side(node, s, p)] = c]
     IN  /\ node' = h /\ z' = k /\ y' = s /\ x' = c /\ root' = h[Root].left
         /\ pc' = IF node[s].red THEN "free" ELSE "fix"

\* The paths through x are short of a black node.  A red sibling is turned up
\* first.  If both nephews are black the sibling is painted red and the parent is
\* next; if not, a rotation or two make up for the missing node.
DeleteTurn ==
  LET p == node[x].parent
      d == Side(node, x, p)
      e == Opposite(d)
      v == node[p][e]
  IN  /\ pc = "fix" /\ ~node[x].red /\ x # root
      /\ \E h \in {IF node[v].red
                  THEN Rotate([node EXCEPT ![v].red = FALSE, ![p].red = TRUE], p, d)
                  ELSE node} :
           LET w == h[h[x].parent][e]
               near == h[w][d]
               far == h[w][e]
           IN  \/ /\ ~h[near].red /\ ~h[far].red
                  /\ node' = [h EXCEPT ![w].red = TRUE]
                  /\ x' = h[x].parent
               \/ /\ h[near].red \/ h[far].red
                  /\ \E g \in {IF h[far].red THEN h
                             ELSE Rotate([h EXCEPT ![near].red = FALSE, ![w].red = TRUE], w, e)} :
                       LET q == g[x].parent
                           s == g[q][e]
                       IN  node' = Rotate([g EXCEPT ![s].red = g[q].red, ![q].red = FALSE,
                                                    ![g[s][e]].red = FALSE], q, d)
                  /\ x' = root
      /\ UNCHANGED <<pc, z, y, root>>

FixEnd ==
  /\ pc = "fix" /\ (node[x].red \/ x = root)
  /\ node' = [node EXCEPT ![x].red = FALSE]
  /\ pc' = "free"
  /\ UNCHANGED <<z, x, y, root>>

\* the successor takes the place of the deleted node, with its colour
Replaced(h) ==
  LET p == h[z].parent
      l == h[z].left
      r == h[z].right
  IN  [h EXCEPT ![y] = h[z], ![l].parent = y, ![r].parent = y, ![p][Side(h, z, p)] = y]

\* Nil's parent is of no use any more: the next fix-up that begins at nil follows a
\* splice that writes it.
Free ==
  /\ pc = "free"
  /\ LET h == IF y = z THEN node ELSE Replaced(node)
     IN  node' = [n \in DOMAIN node \ {z} |-> IF n = Nil THEN [h[n] EXCEPT !.parent = Nil] ELSE h[n]]
  /\ Return

----------------------------------------------------------------------------
Turn == InsertTurn \/ InsertEnd \/ DeleteTurn \/ FixEnd \/ Free

Next == Turn \/ \E k \in Keys : InsertNode(k) \/ SpliceOut(k)

----------------------------------------------------------------------------
(***************************************************************************)
(* Properties.                                                             *)
(***************************************************************************)

\* Types; no child pointer leads to a freed node, and nil is black, as the
\* assertions of the source say (red_black_tree.cpp:118, 549-552, 1147).
TypeOK ==
  /\ Stored \subseteq Keys
  /\ node \in [DOMAIN node -> [left : DOMAIN node, right : DOMAIN node,
                               parent : Keys \cup {Root, Nil}, red : BOOLEAN]]
  /\ ~node[Root].red /\ ~node[Nil].red
  /\ pc \in {"idle", "insert", "fix", "free"}
  /\ pc # "idle" => z \in Stored /\ x \in DOMAIN node /\ y \in DOMAIN node

\* the nodes of the tree: during a delete y is out of it
Linked == IF pc \in {"fix", "free"} THEN Stored \ {y} ELSE Stored

\* the nodes reached from n in at most i steps down
RECURSIVE Reached(_, _)
Reached(i, n) ==
  IF i = 0 \/ n = Nil THEN {}
  ELSE {n} \cup Reached(i - 1, node[n].left) \cup Reached(i - 1, node[n].right)

Below(n) == Reached(Cardinality(DOMAIN node), n)

(***************************************************************************)
(* At every step the tree holds every node once, smaller keys left and     *)
(* larger ones right, and parents point back to children; between calls a  *)
(* search finds what is stored (red_black_tree.cpp:85-174, 1338-1369).     *)
(***************************************************************************)
SearchTree ==
  /\ Below(node[Root].left) = Linked
  /\ \A n \in Linked :
       /\ \A k \in Below(node[n].left) : k < n
       /\ \A k \in Below(node[n].right) : k > n
       /\ n \in {node[node[n].parent].left, node[node[n].parent].right}
  /\ pc = "idle" => \A k \in Stored : Search(k)[2] = k

\* A rotation of the fix-up leaves x at the root its copy names, which is black
\* then and may no longer be the root; if it is red x has climbed there.
Short == pc = "fix" /\ (x # root \/ node[x].red)

\* the numbers of black nodes on the paths from the root down to nil; x counts twice
\* while it is short of one, and where nil is x its parent pointer says which leaf
\* is meant
RECURSIVE Heights(_, _, _)
Heights(i, p, n) ==
  LET weight == (IF node[n].red THEN 0 ELSE 1)
                + (IF Short /\ x = n /\ node[n].parent = p THEN 1 ELSE 0)
      under == IF i = 0 \/ n = Nil THEN {0}
               ELSE Heights(i - 1, n, node[n].left) \cup Heights(i - 1, n, node[n].right)
  IN  {b + weight : b \in under}

BlackHeights == Heights(Cardinality(DOMAIN node), Root, node[Root].left)

(***************************************************************************)
(* All paths have the same number of black nodes, counting what the fix-up *)
(* of a delete still owes at x; red nodes have black parents, but for x    *)
(* while it is being put right; between calls the root is black.  Rotations *)
(* must leave nil's parent pointer for that (red_black_tree.cpp:89-97).    *)
(***************************************************************************)
Balanced ==
  /\ Cardinality(BlackHeights) = 1
  /\ \A n \in Linked : node[n].red /\ node[node[n].parent].red =>
                       \/ pc = "insert" /\ x = n
                       \/ pc = "fix" /\ x \in {n, node[n].parent}
  /\ pc = "idle" => ~node[node[Root].left].red
=============================================================================
