--------------------------- MODULE MCPartitioners ---------------------------
(***************************************************************************)
(* Ranges: addresses of three bits, lists of up to three rules from eight. *)
(* Dimensions: one of three bits and two of two, one of them with one      *)
(* division, lists of up to three rules from seven.                        *)
(* Partitioners: two fields, seven rules whose intervals nest, touch and   *)
(* end together, two of them with the same ranges.  An unsigned has two    *)
(* bits and a point of field 0 four: the cut makes nested ranges the same, *)
(* lets disjoint ones meet, and leaves others as they are.                 *)
(***************************************************************************)
EXTENDS Partitioners, TLC

R(src, x, dst, y) == [src |-> src, x |-> x, dst |-> dst, y |-> y]
MCRules == {R(0, 0, 0, 0), R(4, 1, 0, 0), R(5, 3, 2, 3), R(4, 3, 2, 3),
            R(0, 0, 2, 3), R(0, 2, 2, 3), R(2, 2, 4, 1), R(5, 3, 0, 0)}
MCRuleLists == UNION {[1 .. n -> MCRules] : n \in 0 .. 3}

MCDims == 0 .. 2
MCDimLen == 0 :> 3 @@ 1 :> 2 @@ 2 :> 2
D(k0, l0, k1, l1, k2, l2) ==
  [key |-> 0 :> k0 @@ 1 :> k1 @@ 2 :> k2, len |-> 0 :> l0 @@ 1 :> l1 @@ 2 :> l2]
MCDimRule == {D(0, 0, 0, 0, 0, 0), D(4, 1, 0, 0, 0, 0), D(5, 3, 2, 2, 0, 0), D(4, 3, 2, 2, 1, 2),
              D(0, 0, 2, 2, 0, 0), D(2, 2, 0, 1, 0, 0), D(6, 2, 0, 1, 0, 0)}
MCDimRules == UNION {[1 .. n -> MCDimRule] : n \in 0 .. 3}

\* by position: the range of field 0, and of field 1
Boxes == << <<<<4, 7>>, <<0, 1>>>>, <<<<4, 7>>, <<0, 1>>>>, <<<<0, 15>>, <<2, 3>>>>,
            <<<<6, 7>>, <<0, 1>>>>, <<<<0, 1>>, <<1, 2>>>>, <<<<4, 4>>, <<3, 3>>>>,
            <<<<1, 1>>, <<0, 3>>>> >>
MCPSRules == 1 .. 7
MCPSRange == [r \in MCPSRules |-> [f \in 0 .. 1 |-> Boxes[r][f + 1]]]
=============================================================================
