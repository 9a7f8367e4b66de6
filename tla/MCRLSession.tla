---------------------------- MODULE MCRLSession ----------------------------
(***************************************************************************)
(* Two addresses of two bits and a field of one bit; four rules, one of    *)
(* which only a default tuple takes and two of which share many keys.  A   *)
(* key of three bits is too narrow for the two addresses whole.            *)
(***************************************************************************)
EXTENDS RLSession

MCFields == 0 .. 2
MCWidth == [f \in MCFields |-> IF f = 2 THEN 1 ELSE 2]
MCRules == 1 .. 4
MCPrio == [r \in MCRules |-> r]

\* value and length of each field
Prefixes == << <<[v |-> 0, l |-> 0], [v |-> 0, l |-> 0], [v |-> 0, l |-> 0]>>,
               <<[v |-> 2, l |-> 2], [v |-> 0, l |-> 1], [v |-> 1, l |-> 1]>>,
               <<[v |-> 2, l |-> 1], [v |-> 1, l |-> 2], [v |-> 0, l |-> 0]>>,
               <<[v |-> 3, l |-> 2], [v |-> 1, l |-> 2], [v |-> 0, l |-> 1]>> >>
Field(r, f) == Prefixes[r][f + 1]
MCLo == [r \in MCRules |-> [f \in MCFields |-> Field(r, f).v]]
MCHi == [r \in MCRules |->
           [f \in MCFields |-> Field(r, f).v + 2 ^ (MCWidth[f] - Field(r, f).l) - 1]]
MCPrefixLen == [r \in MCRules |-> [f \in MCFields |-> Field(r, f).l]]
MCPackets == {[f \in MCFields |-> IF f = 0 THEN 2 ELSE 1]}

MCFixedLen == [f \in {2} |-> 1]

\* every shape of one or two fields that fits the key
MCShapes ==
  LET one == [field : MCFields, len : 1 .. 2]
      single == {[used_field |-> <<c.field>>, prefix_len |-> <<c.len>>] : c \in one}
      double == {[used_field |-> <<c.field, d.field>>, prefix_len |-> <<c.len, d.len>>] :
                   c \in one, d \in one}
  IN  {s \in single \cup double : FitsKey(s)}
=============================================================================
