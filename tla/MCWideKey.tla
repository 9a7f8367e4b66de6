----------------------------- MODULE MCWideKey -----------------------------
(***************************************************************************)
(* A table of a tuple on two MAC addresses, in units of 16 bits: fields of *)
(* 48 bits, keys of 64, hashes of 32.  Rules 1 and 2 differ in bits 16 to  *)
(* 31 of the first address: the shift pushes them out of the key, the hash *)
(* has them.                                                               *)
(***************************************************************************)
EXTENDS HashTable

MCRules == 1 .. 3
MCPrio == [r \in MCRules |-> r]

MacPair == [used_field |-> <<0, 1>>, prefix_len |-> <<3, 3>>]
Pair(a, b) == [f \in 0 .. 1 |-> IF f = 0 THEN a ELSE b]
Mac == <<Pair(1, 0), Pair(3, 0), Pair(0, 1)>>
MCHash(a, b) == a + 4 * b

Key == INSTANCE TupleHash WITH
         Fields <- 0 .. 1, Width <- [f \in 0 .. 1 |-> 3], KeyBits <- 4, HashBits <- 2,
         Rules <- MCRules, Lo <- Mac, Hi <- Mac,
         PrefixLen <- [r \in MCRules |-> [f \in 0 .. 1 |-> 3]],
         Packets <- {}, Hash32_2 <- MCHash
MCKeyOf == [r \in MCRules |-> Key!RuleKey(r, MacPair)]
MCHashOf == [r \in MCRules |-> Key!RuleHash(r, MacPair)]
=============================================================================
