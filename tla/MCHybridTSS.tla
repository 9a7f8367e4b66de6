---------------------------- MODULE MCHybridTSS ----------------------------
(***************************************************************************)
(* Two address fields of two bits hashed by one or two of them; five rules *)
(* of few pairs of lengths, so that nodes with four rules are hashed.      *)
(***************************************************************************)
EXTENDS HybridTSS

MCFields == 0 .. 1
MCWidth == [f \in MCFields |-> 2]
MCRules == 1 .. 5
MCPrio == [r \in MCRules |-> r]

Ranges == << <<0, 0, 0, 0>>, <<2, 2, 0, 0>>, <<0, 0, 2, 1>>, <<3, 2, 0, 0>>, <<0, 0, 0, 1>> >>
MCLo == [r \in MCRules |-> [f \in MCFields |-> Ranges[r][2 * f + 1]]]
MCPrefixLen == [r \in MCRules |-> [f \in MCFields |-> Ranges[r][2 * f + 2]]]
MCHi == [r \in MCRules |-> [f \in MCFields |-> MCLo[r][f] + 2 ^ (2 - MCPrefixLen[r][f]) - 1]]
Header(a, b) == [f \in MCFields |-> IF f = 0 THEN a ELSE b]
MCPackets == {Header(2, 0), Header(3, 3), Header(0, 1), Header(1, 2)}

MCBits == [f \in MCFields |-> {1, 2}]
MCKey(t) == t % 2
MCHash(x) == <<x[0], x[1]>>
=============================================================================
