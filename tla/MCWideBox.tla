----------------------------- MODULE MCWideBox -----------------------------
(***************************************************************************)
(* One tree of an OptimizedMITree on two fields: an address and a MAC, in  *)
(* units of 8 bits, so that a point of a MAC has 6 and an unsigned 4.  A   *)
(* MAC prefix of half the length leaves the lower half of the point open.  *)
(* Two rules are asked for, one after the other.                           *)
(***************************************************************************)
EXTENDS IntervalTree

VARIABLES root, stored

Mac(prefix) == <<8 * prefix, 8 * prefix + 7>>
Keys == {<<<<a, a>>, Mac(m)>> : a \in 0 .. 1, m \in 0 .. 7}

Init == root = RBTreeCreate /\ stored = <<>>

TryInsertion(key) ==
  /\ Len(stored) < 2 /\ RBTreeCanInsert(root, key) /\ ~Warns(root, key)
  /\ root' = RBTreeInsert(root, key, Len(stored) + 1)
  /\ stored' = Append(stored, key)

Deletion ==
  /\ stored # <<>>
  /\ root' = RBTreeDelete(root, stored[Len(stored)], Len(stored))
  /\ stored' = SubSeq(stored, 1, Len(stored) - 1)

Next == Deletion \/ \E key \in Keys : TryInsertion(key)

Spec == Init /\ [][Next]_<<root, stored>>

\* A tree that agrees to take a rule then takes it without the warning that its
\* boxes overlap those in the tree (red_black_tree.cpp:433-446).
InsertSeparates == \A key \in Keys : RBTreeCanInsert(root, key) => ~Warns(root, key)
=============================================================================
