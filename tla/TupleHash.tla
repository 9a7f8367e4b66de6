------------------------------ MODULE TupleHash ------------------------------
(***************************************************************************)
(* The other word a tuple computes from the values of its fields           *)
(* (tuplestructure/tuple.cpp:36-52, tuplestructure/hash.cpp): the hash     *)
(* that chooses the bucket.  It mixes the values themselves, not the key,  *)
(* so it may tell apart values that the key has lost.                      *)
(***************************************************************************)
EXTENDS TupleKey

CONSTANTS
  HashBits,         \* the width of uint32_t
  Hash32_2(_, _)    \* the mixing function of hash.cpp:13-28, whatever it computes

Word(x) == x % 2 ^ HashBits

\* hash is the first value, then Hash32_2 of it and each value that follows
HashOfValues(v) ==
  LET hash[j \in DOMAIN v] ==
        IF j = 1 THEN Word(v[1]) ELSE Hash32_2(hash[j - 1], Word(v[j]))
  IN  hash[Len(v)]

RuleHash(r, s) == HashOfValues(Values(Lo[r], s))
PacketHash(p, s) == HashOfValues(Values(p, s))

----------------------------------------------------------------------------
(***************************************************************************)
(* What the tables of the tuples rest on, for a rule r, a packet p and a   *)
(* shape s.                                                                *)
(***************************************************************************)

\* the packet is looked for under the rule's key and in the rule's bucket
SameWords(r, p, s) ==
  Fits(r, s) /\ Matches(r, p)
    => /\ PacketKey(p, s) = RuleKey(r, s)
       /\ PacketHash(p, s) = RuleHash(r, s)

\* rules with one key have one hash, when the shape fits in a key
OneHash(r, q, s) ==
  FitsKey(s) /\ RuleKey(r, s) = RuleKey(q, s) => RuleHash(r, s) = RuleHash(q, s)
=============================================================================
