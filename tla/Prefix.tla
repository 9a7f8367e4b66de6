------------------------------- MODULE Prefix -------------------------------
(***************************************************************************)
(* Rules and packets as the classifiers see them (elementary.h, io.cpp).   *)
(* A rule has a range in every field, and a prefix length: all values of   *)
(* the range have their first bits in common (ReadRules, io.cpp:139-176:   *)
(* an address or MAC prefix is aligned, a port range that is not one port  *)
(* has length 0).                                                          *)
(***************************************************************************)
EXTENDS Integers, Sequences

CONSTANTS
  Fields,     \* 0 .. 11 in the code; a default tuple uses field 0
  Width,      \* Width[f]: RULE_FILED_MAXLENTH[f]
  Rules,
  Lo, Hi,     \* Lo[r][f] .. Hi[r][f]: rule->range[f]
  PrefixLen,  \* PrefixLen[r][f]: rule->prefix_len[f]
  Packets     \* functions from Fields to values: trace->key

Shr(x, bits) == x \div 2 ^ bits

ASSUME PrefixAssumption ==
  /\ 0 \in Fields /\ Fields \subseteq Nat
  /\ Width \in [Fields -> Nat \ {0}]
  /\ \A r \in Rules : Lo[r] \in [Fields -> Nat] /\ PrefixLen[r] \in [Fields -> Nat]
  /\ Packets \subseteq [Fields -> Nat]
  /\ \A r \in Rules, f \in Fields, p \in Packets : \A len \in 0 .. PrefixLen[r][f] :
       Lo[r][f] <= p[f] /\ p[f] <= Hi[r][f]
         => Shr(p[f], Width[f] - len) = Shr(Lo[r][f], Width[f] - len)

\* MatchRuleTrace (elementary.cpp:42-47)
Matches(r, p) == \A f \in Fields : Lo[r][f] <= p[f] /\ p[f] <= Hi[r][f]
=============================================================================
