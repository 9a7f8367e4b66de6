---------------------------- MODULE MCComparison ----------------------------
(***************************************************************************)
(* Address fields of four bits, which Relax shortens by quarters of two,   *)
(* and a port of two bits; each method gets the rules that bother it.  An  *)
(* unsigned has three bits, so that boxes of addresses are cut, without    *)
(* harm for the rules PartitionSort gets.                                  *)
(***************************************************************************)
EXTENDS Comparison

MCFields == 0 .. 2
MCWidth == [f \in MCFields |-> IF f = 2 THEN 2 ELSE 4]
MCRules == 1 .. 6
MCPrio == [r \in MCRules |-> r]

\* value and length in the three fields
Ranges == << <<8, 3, 8, 3, 1, 2>>,
             <<8, 3, 8, 2, 0, 0>>,
             <<8, 3, 8, 3, 0, 0>>,
             <<8, 1, 9, 4, 0, 0>>,
             <<8, 3, 8, 3, 0, 0>>,      \* the ranges of rule 3
             <<8, 3, 12, 2, 0, 0>> >>   \* comparable to all but 1 and 4
MCLo == [r \in MCRules |-> [f \in MCFields |-> Ranges[r][2 * f + 1]]]
MCPrefixLen == [r \in MCRules |-> [f \in MCFields |-> Ranges[r][2 * f + 2]]]
MCHi == [r \in MCRules |->
           [f \in MCFields |-> MCLo[r][f] + 2 ^ (MCWidth[f] - MCPrefixLen[r][f]) - 1]]
Header(a, b, c) == [f \in MCFields |-> IF f = 0 THEN a ELSE IF f = 1 THEN b ELSE c]
MCPackets == {Header(9, 9, 1)}

MCHash(v) == v[0] + v[1]

MCLoaded ==
  [m \in {"PSTSS", "TupleMerge", "PartitionSort"} |->
     CASE m = "PSTSS" -> {1, 2, 3, 4, 6} [] m = "TupleMerge" -> 1 .. 4 [] OTHER -> {2, 3, 5, 6}]
=============================================================================
