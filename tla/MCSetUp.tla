------------------------------- MODULE MCSetUp -------------------------------
(***************************************************************************)
(* An address of three bits, a port of two and an in_port of three, as     *)
(* wide as an int: lines with and without each, addresses with host bits   *)
(* set, ports and ranges that are and are not prefixes, the value 0,       *)
(* values an int holds and two it does not, one of which no double holds   *)
(* either and whose packet is then undefined; files of one and two lines.  *)
(* Shapes of one and two fields, with keys of four bits: the longest shape *)
(* has six.                                                                *)
(***************************************************************************)
EXTENDS SetUp, TLC

MCFields == {0, 2, 5}
MCFlowFields == {0, 2}
MCWidth == 0 :> 3 @@ 2 :> 2 @@ 5 :> 3
MCKind == 0 :> "prefix" @@ 2 :> "range" @@ 5 :> "value"
MCPackets == {p \in [MCFields -> 0 .. 7] : p[2] \in 0 .. 3 /\ p[5] \in {0, 3, 5}}

\* what a line says of a field; the last entry is a line that does not name it
Addresses == <<0 :> [value |-> 5, len |-> 0], 0 :> [value |-> 5, len |-> 1],
               0 :> [value |-> 3, len |-> 2], 0 :> [value |-> 0, len |-> 3],
               0 :> [value |-> 6, len |-> 3], <<>>>>
PortRanges == <<2 :> [lo |-> 0, hi |-> 0], 2 :> [lo |-> 3, hi |-> 3],
                2 :> [lo |-> 0, hi |-> 2], 2 :> [lo |-> 2, hi |-> 3], <<>>>>
InPorts == <<5 :> [value |-> 0], <<>>, 5 :> [value |-> 3], <<>>,
             5 :> [value |-> 5], 5 :> [value |-> 7], <<>>>>
MCLines == 1 .. 30
MCText == [l \in MCLines |->
             Addresses[(l % 6) + 1] @@ PortRanges[(l % 5) + 1] @@ InPorts[(l % 7) + 1]]

\* the second line of a file is one of every other
MCFiles == {<<l>> : l \in MCLines} \cup {<<l, m>> : l \in MCLines, m \in {n \in MCLines : n % 2 = 0}}

MCShapes ==
  {[used_field |-> <<0>>, prefix_len |-> <<l>>] : l \in 0 .. 3}
    \cup {[used_field |-> <<2>>, prefix_len |-> <<m>>] : m \in 0 .. 2}
    \cup {[used_field |-> <<0, 2>>, prefix_len |-> <<l, m>>] : l \in 0 .. 3, m \in 0 .. 2}
    \cup {[used_field |-> <<2, 0>>, prefix_len |-> <<m, l>>] : l \in 0 .. 3, m \in 0 .. 2}
    \cup {[used_field |-> <<5, 0>>, prefix_len |-> <<3, l>>] : l \in 0 .. 3}

\* the negative one is a number that did not fit
MCCopies == {-1, 1, 2}

\* tells all pairs of words apart
MCHash(a, b) == 8 * a + b
=============================================================================
