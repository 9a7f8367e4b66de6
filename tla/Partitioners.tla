---------------------------- MODULE Partitioners ----------------------------
(***************************************************************************)
(* The algorithms that divide a rule set before or instead of the online   *)
(* updates: the tuple ranges of DynamicTuple, the variant that divides     *)
(* dimension by dimension, and the partitioners of PartitionSort.  One is  *)
(* chosen and runs by itself.                                              *)
(***************************************************************************)
EXTENDS Integers

CONSTANTS
  MaxLen, RuleLists, Stride, Bucket, Huge, CostBits,         \* of DtRanges
  Dims, DimLen, PrefixDims, DimRules, Step, NoCost, Rounds,  \* of DtDims
  PSRules, NumFields, PSRange, IntBits                       \* of SortablePartitioner

VARIABLES
  algorithm,
  rules, tuple_cost, cell, todo, tuple_ranges, pc,
  dim_rules, reduced, dim, round, tuple_cost_sum, dp_cost, cost, pre_cost, stage,
  method, ruleset, current_rules, all_partitions, current_field, all_buckets

grid == <<rules, tuple_cost, cell, todo, tuple_ranges, pc>>
single == <<dim_rules, reduced, dim, round, tuple_cost_sum, dp_cost, cost, pre_cost, stage>>
sortable == <<method, ruleset, current_rules, all_partitions, current_field, all_buckets>>
vars == <<algorithm, grid, single, sortable>>

Ranges == INSTANCE DtRanges
ByDim == INSTANCE DtDims
Buckets == INSTANCE SortablePartitioner

ASSUME PartitionersAssumption ==
  Ranges!RangesAssumption /\ ByDim!DimsAssumption /\ Buckets!PartitionerAssumption

\* the algorithms that are not chosen are not there
NoGrid ==
  rules = <<>> /\ tuple_cost = <<>> /\ cell = <<>> /\ todo = <<>> /\ tuple_ranges = {} /\ pc = "done"
NoSingle ==
  /\ dim_rules = <<>> /\ reduced = <<>> /\ dim = 0 /\ round = 0
  /\ tuple_cost_sum = <<>> /\ dp_cost = <<>> /\ cost = 0 /\ pre_cost = 0 /\ stage = "done"
NoSortable ==
  /\ method = "" /\ ruleset = {} /\ current_rules = {} /\ all_partitions = {}
  /\ current_field = <<>> /\ all_buckets = <<>>

Init ==
  \/ algorithm = "ranges" /\ Ranges!Init /\ NoSingle /\ NoSortable
  \/ algorithm = "dims" /\ ByDim!Init /\ NoGrid /\ NoSortable
  \/ algorithm = "buckets" /\ Buckets!Init /\ NoGrid /\ NoSingle

RangesStep == algorithm = "ranges" /\ Ranges!Next /\ UNCHANGED <<algorithm, single, sortable>>
DimsStep == algorithm = "dims" /\ ByDim!Next /\ UNCHANGED <<algorithm, grid, sortable>>
BucketsStep == algorithm = "buckets" /\ Buckets!Next /\ UNCHANGED <<algorithm, grid, single>>

Next == RangesStep \/ DimsStep \/ BucketsStep

Spec == Init /\ [][Next]_vars

----------------------------------------------------------------------------
(***************************************************************************)
(* Properties.                                                             *)
(***************************************************************************)

\* The ranges of the grid are disjoint and cover it whatever the costs, the recursion
\* that collects them stays in it, and no division costs less unless a sum of costs
\* was truncated (dynamictuple-ranges.cpp:223-323).
RangesRight ==
  algorithm = "ranges" => Ranges!TypeOK /\ Ranges!Partition /\ Ranges!RangesRight

\* The dimension-wise divisions cost what they are said to, none of the dimension last
\* divided costs less, and a round never makes matters worse
\* (dynamictuple-dims.cpp:134-282).
DimsRight == algorithm = "dims" => ByDim!DimsRight

\* Every rule ends in one bucket, and every bucket is sortable in the order it comes
\* with by ranges cut to unsigned, and by ranges the cut does not confuse
\* (SortableRulesetPartitioner.cpp:32-44, 156-186, 381-403).
BucketsRight == algorithm = "buckets" => Buckets!BucketsRight

\* A round keeps of every part the independent intervals of greatest weight, again by
\* the cut ranges (IntervalUtilities.cpp:199-283).
ChoiceBest == algorithm = "buckets" => Buckets!ChoiceBest
=============================================================================
