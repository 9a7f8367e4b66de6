----------------------------- MODULE MCRLTuple -----------------------------
(***************************************************************************)
(* Two fields of two bits, four rules that fit the shapes in different     *)
(* ways, two packets.                                                    *)
(***************************************************************************)
EXTENDS RLTuple

\* has a caller deleted a rule that was not stored?
VARIABLE strayed

MCInit == Init /\ strayed = FALSE
MCNext == /\ Next
          /\ strayed' = (strayed \/ \E r \in Rules : DeleteAgain(r) \/ DeleteUnknown(r))
MCSpec == MCInit /\ [][MCNext]_<<vars, strayed>>

\* Until a caller strays, the counters tell what is stored (rltuple.cpp:241-269).
CountersExactTillStray == strayed \/ CountersExact

\* Until a caller strays, the estimate is defined and true (rltuple.cpp:348-435).
EstimateSoundTillStray == strayed \/ EstimateSound

MCFields == 0 .. 1
MCWidth == [f \in MCFields |-> 2]
MCRules == 1 .. 4
MCPrio == [r \in MCRules |-> r]

\* value and length of each field
Prefixes == << <<[v |-> 0, l |-> 0], [v |-> 0, l |-> 0]>>,    \* matches everything
               <<[v |-> 2, l |-> 2], [v |-> 0, l |-> 1]>>,
               <<[v |-> 2, l |-> 1], [v |-> 1, l |-> 2]>>,
               <<[v |-> 2, l |-> 2], [v |-> 0, l |-> 0]>> >>
Field(r, f) == Prefixes[r][f + 1]
MCLo == [r \in MCRules |-> [f \in MCFields |-> Field(r, f).v]]
MCHi == [r \in MCRules |-> [f \in MCFields |-> Field(r, f).v + 2 ^ (2 - Field(r, f).l) - 1]]
MCPrefixLen == [r \in MCRules |-> [f \in MCFields |-> Field(r, f).l]]
Pair(a, b) == [f \in MCFields |-> IF f = 0 THEN a ELSE b]
MCPackets == {Pair(2, 1), Pair(3, 1)}

MCShapes == { [used_field |-> <<0>>, prefix_len |-> <<1>>],
              [used_field |-> <<0, 1>>, prefix_len |-> <<1, 1>>],
              [used_field |-> <<1, 0>>, prefix_len |-> <<0, 2>>] }
=============================================================================
