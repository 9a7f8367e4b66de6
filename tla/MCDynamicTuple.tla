--------------------------- MODULE MCDynamicTuple ---------------------------
(***************************************************************************)
(* Two fields of two bits, four rules, and the partitions of the grid of   *)
(* prefix lengths that cuts make, as far as the rules tell them apart.     *)
(***************************************************************************)
EXTENDS DynamicTuple

MCFields == 0 .. 1
MCWidth == [f \in MCFields |-> 2]
MCRules == 1 .. 4
MCPrio == [r \in MCRules |-> r]

\* value and length of each field
Prefixes == << <<[v |-> 0, l |-> 0], [v |-> 0, l |-> 0]>>,    \* matches everything
               <<[v |-> 2, l |-> 2], [v |-> 0, l |-> 1]>>,
               <<[v |-> 2, l |-> 1], [v |-> 1, l |-> 2]>>,
               <<[v |-> 2, l |-> 2], [v |-> 0, l |-> 0]>> >>
Field(r, f) == Prefixes[r][f + 1]
MCLo == [r \in MCRules |-> [f \in MCFields |-> Field(r, f).v]]
MCHi == [r \in MCRules |-> [f \in MCFields |-> Field(r, f).v + 2 ^ (2 - Field(r, f).l) - 1]]
MCPrefixLen == [r \in MCRules |-> [f \in MCFields |-> Field(r, f).l]]
Pair(a, b) == [f \in MCFields |-> IF f = 0 THEN a ELSE b]
MCPackets == {Pair(2, 1), Pair(3, 1)}

\* the partitions of a range of the grid by cuts from side to side
RECURSIVE Cuts(_, _, _, _)
Cuts(x1, y1, x2, y2) ==
  {{[x1 |-> x1, y1 |-> y1, x2 |-> x2, y2 |-> y2]}}
    \cup UNION {{P \cup Q : P \in Cuts(x1, y1, x, y2), Q \in Cuts(x + 1, y1, x2, y2)}
                  : x \in x1 .. x2 - 1}
    \cup UNION {{P \cup Q : P \in Cuts(x1, y1, x2, y), Q \in Cuts(x1, y + 1, x2, y2)}
                  : y \in y1 .. y2 - 1}

\* one partition for each way to give the rules their tuples
Corners(P) == [r \in MCRules |-> LET g == CHOOSE g \in P : Covers(g, r) IN <<g.x1, g.y1>>]
MCPartitions == LET all == Cuts(0, 0, 2, 2)
                IN  {CHOOSE P \in all : Corners(P) = c : c \in {Corners(P) : P \in all}}
=============================================================================
