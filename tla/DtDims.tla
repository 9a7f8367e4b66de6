------------------------------- MODULE DtDims -------------------------------
(***************************************************************************)
(* dynamictuple/dynamictuple-dims.cpp: division of the prefix lengths of   *)
(* each dimension by itself.  One dimension after the other is divided     *)
(* best for the divisions the others have, round after round, until a      *)
(* round gains less than 5 percent.  No classifier of the program calls it.*)
(*                                                                         *)
(* A rule is its position in the list, best first: the DimRule of          *)
(* position i has priority n - i.  key[i][d] and len[i][d] are the value   *)
(* and the prefix length of rule i.  The order of rules of one length,     *)
(* which the sort leaves open, does not show in the sums.                  *)
(***************************************************************************)
EXTENDS Integers, Sequences, FiniteSets

LOCAL INSTANCE FiniteSetsExt   \* SumSet, Max, Min

CONSTANTS
  Dims,        \* 0 .. 4
  DimLen,      \* dim_prefix_len
  PrefixDims,  \* prefix_dims_num: dimensions below it are divided
  DimRules,    \* the lists of rules: sequences of [key, len]
  Step,        \* the side of the first division, 8
  NoCost,      \* pre_cost before the first round, 2^60
  Rounds       \* 100

Lens(d) == 0 .. DimLen[d]

DimsAssumption ==
  /\ Dims \subseteq Nat /\ DimLen \in [Dims -> Nat] /\ PrefixDims \in Nat
  /\ \A list \in DimRules : \A i \in DOMAIN list : \A d \in Dims : list[i].len[d] \in Lens(d)
  /\ Step \in Nat \ {0} /\ NoCost \in Nat /\ Rounds \in Nat

VARIABLES
  dim_rules,
  reduced,         \* reduced[d][l]: the length tuples use for length l of dimension d
  dim,             \* the dimension to be divided next
  round,
  tuple_cost_sum,  \* the cost of each span of dimension dim as one part
  dp_cost,         \* and its least cost
  cost, pre_cost,
  stage            \* "sum", "program" or "divide" in a dimension, "done" or "wrong"

vars == <<dim_rules, reduced, dim, round, tuple_cost_sum, dp_cost, cost, pre_cost, stage>>

DimsInit == [d \in Dims |-> [l \in Lens(d) |-> l - (l % Step)]]

Init ==
  /\ dim_rules \in DimRules
  /\ reduced = DimsInit
  /\ dim = 0 /\ round = 0
  /\ tuple_cost_sum = <<>> /\ dp_cost = <<>>
  /\ cost = 0 /\ pre_cost = NoCost
  /\ stage = IF dim_rules = <<>> THEN "done" ELSE "sum"

----------------------------------------------------------------------------
(***************************************************************************)
(* The cost of a tuple for the lengths x .. y of dimension d, for every    *)
(* way the other dimensions are divided (CalculateDimRangeX).              *)
(***************************************************************************)
Priority(i) == Len(dim_rules) + 1 - i
Between(d, x, y) == {i \in DOMAIN dim_rules : dim_rules[i].len[d] \in x .. y}

\* mutant: dimension d counts with the division it had
OthersAndOwn(i, d) == [e \in Dims |-> reduced[e][dim_rules[i].len[e]]]

\* GetPrefixLen: the tuple of rule i, but for dimension d
Others(i, d) == [e \in Dims |-> IF e = d THEN 0 ELSE reduced[e][dim_rules[i].len[e]]]

KeepBits(v, d, l) == v \div 2 ^ (DimLen[d] - l)
ReducedKey(i, d, x) ==
  [e \in Dims |-> KeepBits(dim_rules[i].key[e], e, IF e = d THEN x ELSE Others(i, d)[e])]

\* what the best rules of the tuples add up to
CheckTuples(d, x, y) ==
  LET S == Between(d, x, y)
  IN  MapThenSumSet(LAMBDA t : Max({Priority(i) : i \in {j \in S : Others(j, d) = t}}),
                    {Others(i, d) : i \in S})

\* every rule with those before it in its node
CheckRules(d, x, y) ==
  LET S == Between(d, x, y)
  IN  MapThenSumSet(LAMBDA i : Cardinality({j \in S : /\ j <= i
                                                      /\ Others(j, d) = Others(i, d)
                                                      /\ ReducedKey(j, d, x) = ReducedKey(i, d, x)}),
                    S)

Spans(d) == {s \in Lens(d) \X Lens(d) : s[1] <= s[2]}

CalculateDimRangeX ==
  /\ stage = "sum" /\ dim < PrefixDims
  /\ tuple_cost_sum' =
       [s \in Spans(dim) |-> 5 * CheckTuples(dim, s[1], s[2]) + 5 * CheckRules(dim, s[1], s[2])]
  /\ stage' = "program"
  /\ UNCHANGED <<dim_rules, reduced, dim, round, dp_cost, cost, pre_cost>>

----------------------------------------------------------------------------
(***************************************************************************)
(* The least cost of each span, divided or not, and the division that has  *)
(* it: the first cut that fits is taken.                                   *)
(***************************************************************************)
Low(s, k) == <<s[1], k>>
High(s, k) == <<k + 1, s[2]>>

DynamicProgrammingX ==
  /\ stage = "program"
  /\ LET dp[s \in Spans(dim)] ==
           Min({tuple_cost_sum[s]} \cup {dp[Low(s, k)] + dp[High(s, k)] : k \in s[1] .. s[2] - 1})
     IN  dp_cost' = [s \in Spans(dim) |-> dp[s]]
  /\ stage' = "divide"
  /\ UNCHANGED <<dim_rules, reduced, dim, round, tuple_cost_sum, cost, pre_cost>>

\* where the parts of the whole dimension begin
Starts ==
  LET parts[s \in Spans(dim)] ==
        IF dp_cost[s] = tuple_cost_sum[s] THEN {s[1]}
        ELSE LET k == Min({c \in s[1] .. s[2] - 1 : dp_cost[s] = dp_cost[Low(s, c)] + dp_cost[High(s, c)]})
             IN  parts[Low(s, k)] \cup parts[High(s, k)]
  IN  parts[<<0, DimLen[dim]>>]

Division(d, starts) == [l \in Lens(d) |-> Max({s \in starts : s <= l})]

GetDpRange ==
  /\ stage = "divide"
  /\ reduced' = [reduced EXCEPT ![dim] = Division(dim, Starts)]
  /\ cost' = dp_cost[<<0, DimLen[dim]>>]
  /\ dim' = dim + 1
  /\ stage' = "sum"
  /\ UNCHANGED <<dim_rules, round, tuple_cost_sum, dp_cost, pre_cost>>

\* the end of a round of GetDimRange: exit(1) if the cost grew
EndRound ==
  LET little == 100 * cost > 95 * pre_cost
  IN  /\ stage = "sum" /\ dim = PrefixDims
      /\ stage' = IF cost > pre_cost THEN "wrong"
                  ELSE IF little \/ round + 1 = Rounds THEN "done" ELSE "sum"
      /\ round' = IF little THEN round ELSE round + 1
      /\ pre_cost' = IF little THEN pre_cost ELSE cost
      /\ dim' = 0
      /\ UNCHANGED <<dim_rules, reduced, tuple_cost_sum, dp_cost, cost>>

Next == CalculateDimRangeX \/ DynamicProgrammingX \/ GetDpRange \/ EndRound

Spec == Init /\ [][Next]_vars

----------------------------------------------------------------------------
(***************************************************************************)
(* Properties.                                                             *)
(***************************************************************************)

\* what dimension-wise divisions cost: a tuple for each combination of parts that
\* has rules, as CalculateDimCost (l.99-132, commented out) counts it
TotalCost(division) ==
  LET n == DOMAIN dim_rules
      Tuple(i) == [e \in Dims |-> division[e][dim_rules[i].len[e]]]
      Node(i) == [e \in Dims |-> KeepBits(dim_rules[i].key[e], e, Tuple(i)[e])]
      Same(i) == {j \in n : j <= i /\ Tuple(j) = Tuple(i) /\ Node(j) = Node(i)}
  IN  5 * MapThenSumSet(LAMBDA t : Max({Priority(i) : i \in {j \in n : Tuple(j) = t}}),
                        {Tuple(i) : i \in n})
      + 5 * MapThenSumSet(LAMBDA i : Cardinality(Same(i)), n)

\* all divisions of dimension d
Divisions(d) == {Division(d, {0} \cup starts) : starts \in SUBSET (1 .. DimLen[d])}

\* The cost of each step is what the divisions found so far cost, none of the
\* dimension just divided costs less, no step costs more than the one before, so that
\* "Wong" is never reached, and the divisions keep lengths within their rules'
\* (dynamictuple-dims.cpp:184-244, 263-282).
DimsRight ==
  /\ stage # "wrong"
  /\ \A d \in Dims : \A l \in Lens(d) : reduced[d][l] <= l /\ reduced[d][reduced[d][l]] = reduced[d][l]
  /\ dim > 0 /\ stage = "sum" =>
       /\ cost = TotalCost(reduced)
       /\ cost <= pre_cost
       /\ \A other \in Divisions(dim - 1) : cost <= TotalCost([reduced EXCEPT ![dim - 1] = other])
=============================================================================
