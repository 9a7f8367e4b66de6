---------------------------- MODULE MCHashTable ----------------------------
(***************************************************************************)
(* A small table for TLC: rules that share a key, keys that share a hash,  *)
(* hashes that share a bucket until the next doubling.                     *)
(***************************************************************************)
EXTENDS HashTable

MCRules == 1 .. 6
MCPrio == [r \in MCRules |-> r]
\* keys: {1, 4, 6}, {2}, {3}, {5}: four nodes take the table from 2 to 8
MCKeyOf == <<10, 20, 30, 10, 40, 10>>
\* keys 10 and 20 have the same hash, 30 leaves their bucket at size 8 only
MCHashOf == <<1, 1, 5, 1, 2, 1>>
=============================================================================
