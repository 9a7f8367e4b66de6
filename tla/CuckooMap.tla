----------------------------- MODULE CuckooMap -----------------------------
(***************************************************************************)
(* The hash map under PSTSS and TupleMerge (OVS/cmap.cpp): a cuckoo hash   *)
(* whose nodes are kept, chained by equal hash, in one of two buckets.  An *)
(* insert that finds both full looks for a shortest path along which       *)
(* others can move, and rehashes with another basis if there is none.      *)
(*                                                                         *)
(* Readers may run beside the one writer, so each cmap_set_bucket of an    *)
(* insert is a step; a rehash builds its table aside.                      *)
(***************************************************************************)
EXTENDS Integers, FiniteSets, SequencesExt

CONSTANTS
  MapNodes,      \* the nodes callers have
  HashOf,        \* HashOf[node]: the client's hash
  Bases,         \* the values random_uint32 may return
  Rehash(_, _),  \* hash_finish: of a basis and a hash
  HalfBits,      \* half the width of a hash, 16 in the code
  K,             \* CMAP_K, the slots of a bucket, 5 in the code
  MaxDepth       \* MAX_DEPTH of a path, 4 in the code

MapAssumption ==
  /\ K \in Nat \ {0} /\ MaxDepth \in Nat /\ HalfBits \in Nat \ {0} /\ Bases # {}
  /\ \A n \in MapNodes : HashOf[n] \in Nat
  /\ \A b \in Bases, n \in MapNodes : Rehash(b, HashOf[n]) \in 0 .. 4 ^ HalfBits - 1

VARIABLES
  impl,    \* the table in use
  hand,    \* <<node>> while it is being inserted, else <<>>
  path     \* the path that is being cleared and the moves left, or <<>>

vars == <<impl, hand, path>>

Hashes == {HashOf[n] : n \in MapNodes} \cup {0}
Slot == [hash : Hashes, chain : Seq(MapNodes)]
Unused == [hash |-> 0, chain |-> <<>>]   \* from memset; 0 is also a hash

\* CMAP_MAX_LOAD and CMAP_MIN_LOAD are a little less than 85% and 20% of 2^32
calc_max_n(mask) == ((mask + 1) * K * 17 - 1) \div 20
calc_min_n(mask) == ((mask + 1) * K - 1) \div 5

Created(mask, b) ==
  [n |-> 0, mask |-> mask, basis |-> b,
   buckets |-> [i \in 0 .. mask |-> [s \in 1 .. K |-> Unused]]]

\* h & mask, for a mask of low bits
Index(m, h) == h % (m.mask + 1)
other_hash(h) == (h % 2 ^ HalfBits) * 2 ^ HalfBits + h \div 2 ^ HalfBits
Bucket1(m, h) == Index(m, Rehash(m.basis, h))
Bucket2(m, h) == Index(m, other_hash(Rehash(m.basis, h)))

----------------------------------------------------------------------------
(***************************************************************************)
(* Searches.                                                               *)
(***************************************************************************)

\* the first of the slots S of a bucket, 0 if there is none
First(S) == IF S = {} THEN 0 ELSE CHOOSE s \in S : \A t \in S : s <= t

SlotsOf(m, h, i) == {s \in 1 .. K : m.buckets[i][s].hash = h}
EmptySlots(m, i) == {s \in 1 .. K : m.buckets[i][s].chain = <<>>}

\* cmap_find_in_bucket: a slot whose nodes were removed keeps its hash
FindInBucket(m, h, i) ==
  LET s == First(SlotsOf(m, h, i))
  IN  IF s = 0 THEN <<>> ELSE m.buckets[i][s].chain

cmap_find(m, h) ==
  IF FindInBucket(m, h, Bucket1(m, h)) # <<>> THEN FindInBucket(m, h, Bucket1(m, h))
  ELSE FindInBucket(m, h, Bucket2(m, h))

EmptySlot(m, i) == First(EmptySlots(m, i))

\* the slots in the order of the cursor
Slots(m) == [j \in 1 .. (m.mask + 1) * K |-> m.buckets[(j - 1) \div K][((j - 1) % K) + 1]]

\* cmap_cursor_start, cmap_cursor_advance: the nodes an iteration passes
Iterated(m) == FoldLeft(LAMBDA t, e : t \o e.chain, <<>>, Slots(m))

----------------------------------------------------------------------------
(***************************************************************************)
(* Insert.                                                                 *)
(***************************************************************************)

\* cmap_set_bucket
Set(m, i, s, slot) == [m EXCEPT !.buckets[i][s] = slot]

\* cmap_insert_dup: to the front of the chain of that hash, or to where one was
InsertDup(m, slot, i) ==
  LET s == First(SlotsOf(m, slot.hash, i))
  IN  IF s = 0 THEN <<>>
      ELSE <<Set(m, i, s, [slot EXCEPT !.chain = @ \o m.buckets[i][s].chain])>>

InsertBucket(m, slot, i) ==
  IF EmptySlot(m, i) = 0 THEN <<>> ELSE <<Set(m, i, EmptySlot(m, i), slot)>>

\* mutant: the first bucket is settled before the second is looked at
PlacedBucketwise(m, slot) ==
  LET i == Bucket1(m, slot.hash)
      j == Bucket2(m, slot.hash)
  IN  InsertDup(m, slot, i) \o InsertBucket(m, slot, i)
      \o InsertDup(m, slot, j) \o InsertBucket(m, slot, j)

\* the ways to insert a slot without a move: those that succeed, in order
Placed(m, slot) ==
  LET i == Bucket1(m, slot.hash)
      j == Bucket2(m, slot.hash)
  IN  InsertDup(m, slot, i) \o InsertDup(m, slot, j)
      \o InsertBucket(m, slot, i) \o InsertBucket(m, slot, j)

\* other_bucket_protected
OtherBucket(m, i, s) ==
  LET h == m.buckets[i][s].hash
  IN  IF Bucket1(m, h) = i THEN Bucket2(m, h) ELSE Bucket1(m, h)

\* A path goes from bucket at[k] by its slot slots[k] to bucket at[k + 1].
Longer(m, p) ==
  LET hop(s) == [at |-> Append(p.at, OtherBucket(m, Last(p.at), s)), slots |-> Append(p.slots, s)]
  IN  SelectSeq([s \in 1 .. K |-> hop(s)], LAMBDA q : Last(q.at) # Last(p.at))

\* The search of cmap_insert_bfs: from the paths of a length, in their order, the
\* first with one more hop to a bucket that has an empty slot, which ends it.
RECURSIVE Search(_, _, _)
Search(m, paths, depth) ==
  LET longer == FlattenSeq([i \in DOMAIN paths |-> Longer(m, paths[i])])
      found == SelectSeq(longer, LAMBDA p : EmptySlot(m, Last(p.at)) # 0)
  IN  IF found # <<>>
      THEN <<[Head(found) EXCEPT !.slots = Append(@, EmptySlot(m, Last(Head(found).at)))]>>
      ELSE IF depth = 0 \/ longer = <<>> THEN <<>>
      ELSE Search(m, longer, depth - 1)

PathFor(m, h) ==
  LET from(i) == [at |-> <<i>>, slots |-> <<>>]
      i == Bucket1(m, h)
      j == Bucket2(m, h)
  IN  Search(m, IF i = j THEN <<from(i)>> ELSE <<from(i), from(j)>>, MaxDepth)

\* what is in the k-th slot of the path is copied to the next
Moved(m, p, k) == Set(m, p.at[k + 1], p.slots[k + 1], m.buckets[p.at[k]][p.slots[k]])

\* the moves, last slot first, and the new slot in the first
Cleared(m, p, slot) ==
  LET end == Len(p.slots)
      moved == FoldLeft(LAMBDA t, k : Moved(t, p, end - k), m, [k \in 1 .. end - 1 |-> k])
  IN  Set(moved, p.at[1], p.slots[1], slot)

\* cmap_try_insert, <<>> if it fails
TryInsert(m, slot) ==
  IF Placed(m, slot) # <<>> THEN <<Head(Placed(m, slot))>>
  ELSE IF PathFor(m, slot.hash) = <<>> THEN <<>>
  ELSE <<Cleared(m, Head(PathFor(m, slot.hash)), slot)>>

\* cmap_try_rehash
Refilled(old, new) ==
  FoldLeft(LAMBDA t, slot : IF t = <<>> \/ slot.chain = <<>> THEN t ELSE TryInsert(t[1], slot),
           <<new>>, Slots(old))

\* cmap_rehash: bases are tried until all nodes find a place
Rehashed(m, mask) ==
  {[Refilled(m, Created(mask, b))[1] EXCEPT !.n = m.n] :
     b \in {b \in Bases : Refilled(m, Created(mask, b)) # <<>>}}

----------------------------------------------------------------------------
Init ==
  /\ impl \in {Created(0, b) : b \in Bases}
  /\ hand = <<>> /\ path = <<>>

Stored == {n \in MapNodes : \E i \in DOMAIN impl.buckets, s \in 1 .. K :
                              Contains(impl.buckets[i][s].chain, n)}
Hand == [hash |-> HashOf[hand[1]], chain |-> hand]

\* cmap_insert: a node that is not in the map; a full table is doubled first
Insert(n) ==
  /\ hand = <<>> /\ n \notin Stored
  /\ impl' \in IF impl.n >= calc_max_n(impl.mask)
               THEN Rehashed(impl, 2 * impl.mask + 1) ELSE {impl}
  /\ hand' = <<n>>
  /\ UNCHANGED path

Place ==
  /\ hand # <<>> /\ path = <<>> /\ Placed(impl, Hand) # <<>>
  /\ impl' = [Head(Placed(impl, Hand)) EXCEPT !.n = @ + 1]
  /\ hand' = <<>>
  /\ UNCHANGED path

FindPath ==
  /\ hand # <<>> /\ path = <<>> /\ Placed(impl, Hand) = <<>>
  /\ \E p \in ToSet(PathFor(impl, HashOf[hand[1]])) :
       path' = <<[at |-> p.at, slots |-> p.slots, left |-> Len(p.slots) - 1]>>
  /\ UNCHANGED <<impl, hand>>

NoPath ==
  /\ hand # <<>> /\ path = <<>> /\ Placed(impl, Hand) = <<>>
  /\ PathFor(impl, HashOf[hand[1]]) = <<>>
  /\ impl' \in Rehashed(impl, impl.mask)
  /\ UNCHANGED <<hand, path>>

MoveBack ==
  /\ path # <<>> /\ path[1].left > 0
  /\ impl' = Moved(impl, path[1], path[1].left)
  /\ path' = <<[path[1] EXCEPT !.left = @ - 1]>>
  /\ UNCHANGED hand

MoveEnd ==
  /\ path # <<>> /\ path[1].left = 0
  /\ impl' = [Set(impl, path[1].at[1], path[1].slots[1], Hand) EXCEPT !.n = @ + 1]
  /\ hand' = <<>> /\ path' = <<>>

\* cmap_replace__ with no replacement: the chain with n in it is the first of its
\* hash that has nodes
Unlinked(m, n) ==
  LET i == Bucket1(m, HashOf[n])
      j == Bucket2(m, HashOf[n])
      at(b) == First(SlotsOf(m, HashOf[n], b) \ EmptySlots(m, b))
      cut(b) == [m EXCEPT !.buckets[b][at(b)].chain = Remove(@, n)]
  IN  IF at(i) # 0 THEN cut(i) ELSE cut(j)

\* cmap_remove: a node cmap_find led to; a table almost empty is halved
Delete(n) ==
  /\ hand = <<>> /\ Contains(cmap_find(impl, HashOf[n]), n)
  /\ \E m \in {[Unlinked(impl, n) EXCEPT !.n = @ - 1]} :
       impl' \in IF m.n < calc_min_n(m.mask) THEN Rehashed(m, m.mask \div 2) ELSE {m}
  /\ UNCHANGED <<hand, path>>

Next ==
  \/ Place \/ FindPath \/ NoPath \/ MoveBack \/ MoveEnd
  \/ \E n \in MapNodes : Insert(n) \/ Delete(n)

----------------------------------------------------------------------------
(***************************************************************************)
(* Properties.                                                             *)
(***************************************************************************)

\* Types; the table is never over its load (cmap.cpp:980, 1086).
TypeOK ==
  /\ impl.mask \in {2 ^ e - 1 : e \in 0 .. 2 * HalfBits} /\ impl.basis \in Bases
  /\ impl.buckets \in [0 .. impl.mask -> [1 .. K -> Slot]]
  /\ impl.n \in 0 .. calc_max_n(impl.mask)
  /\ hand \in {<<>>} \cup {<<n>> : n \in MapNodes}
  /\ path # <<>> => hand # <<>>

\* A reader finds the chain of a hash, and the whole of it, also between two moves
\* (cmap.cpp:169-172, 922-925).
FindExact ==
  \A h \in Hashes : ToSet(cmap_find(impl, h)) = {n \in Stored : HashOf[n] = h}

\* An iteration meets every node once, and n counts them, between calls.
CursorExact ==
  hand = <<>> => /\ IsInjective(Iterated(impl)) /\ ToSet(Iterated(impl)) = Stored
                 /\ impl.n = Len(Iterated(impl))

MapSound == FindExact /\ CursorExact
=============================================================================
