---------------------------- MODULE MCContainers ----------------------------
(***************************************************************************)
(* Ten keys of a level.  Seven nodes of six hashes, one of them 0, in      *)
(* buckets of two slots.  The first basis lets five nodes line up so that  *)
(* an insert moves two of them; the second sends three hashes to bucket 0  *)
(* only, so that an insert has to rehash, and a rehash has to try again.   *)
(* Nine rules of one node, more than its tables begin at, of each kind of  *)
(* ports, and the packets of two ports.                                    *)
(***************************************************************************)
EXTENDS Containers

MCKeys == 1 .. 10

MCMapNodes == 1 .. 7
MCHashOf == [n \in MCMapNodes |-> n % 6]

\* of the hashes 0 to 5, as 8 * high + low
Rehashes == << <<8 * 3 + 3, 8 * 1 + 0, 8 * 5 + 0, 8 * 2 + 1, 8 * 6 + 1, 8 * 4 + 0>>,
               <<8 * 1 + 2, 8 * 0 + 0, 8 * 4 + 4, 8 * 4 + 0, 8 * 1 + 1, 8 * 7 + 4>> >>
MCRehash(b, h) == Rehashes[b][h + 1]

\* the ports of a rule, 0 for any port
PortsIn == <<<<1, 0>>, <<0, 1>>, <<1, 1>>, <<0, 0>>, <<2, 0>>, <<0, 2>>, <<1, 2>>, <<0, 0>>, <<2, 2>>>>
MCRules == 1 .. 9
MCPrio == [r \in MCRules |-> r]
MCExact == [r \in MCRules |-> [i \in 0 .. 1 |-> PortsIn[r][i + 1] # 0]]
\* two ports, and a rule that another field keeps from matching
MCPackets == (1 .. 2) \X (1 .. 2) \X MCRules
MCMatches(r, p) == r # p[3] /\ \A i \in 1 .. 2 : PortsIn[r][i] \in {0, p[i]}
=============================================================================
