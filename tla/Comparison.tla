----------------------------- MODULE Comparison -----------------------------
(***************************************************************************)
(* The driver of the classifiers RLTuple is compared with                  *)
(* (partitionsort/classification-main-ps.cpp): one of them, named by the   *)
(* command, is created, and only that one is called.                       *)
(* PerformOnlyPacketClassification inserts the rules of the file, looks up *)
(* packets, and deletes and inserts the rules again; here the calls come   *)
(* in any order in which no rule is inserted twice.  HybridTSS is built    *)
(* otherwise and has a module of its own.                                  *)
(***************************************************************************)
EXTENDS PrefixTable

CONSTANTS
  Loaded,                                  \* Loaded[m]: the rules method m is tried with
  collideLimit, deltaThreshold, Quarter,   \* of TupleMerge
  IntBits                                  \* of IntervalTree

VARIABLES
  method,
  all_priority_tuples, priority_tuples_vector,
  table, tables, assignments,
  mitree, mitrees, rule_tree_map,
  scan, answer

space == <<all_priority_tuples, priority_tuples_vector>>
merge == <<table, tables, assignments>>
sort == <<mitree, mitrees, rule_tree_map>>
vars == <<method, space, merge, sort, scan, answer>>

Space == INSTANCE PSTSS WITH Rules <- Loaded["PSTSS"]
Merge == INSTANCE TupleMerge WITH Rules <- Loaded["TupleMerge"]
Sort == INSTANCE PartitionSort WITH Rules <- Loaded["PartitionSort"]

Methods == {"PSTSS", "TupleMerge", "PartitionSort"}

ASSUME ComparisonAssumption ==
  /\ Loaded \in [Methods -> SUBSET Rules] /\ \A m \in Methods : Loaded[m] # {}
  /\ Merge!MergeAssumption /\ Sort!SortAssumption

\* the other classifiers are not there
NoSpace == all_priority_tuples = <<>> /\ priority_tuples_vector = <<>>
NoMerge == table = <<>> /\ tables = <<>> /\ assignments = <<>>
NoSort == mitree = <<>> /\ mitrees = <<>> /\ rule_tree_map = <<>>

Init ==
  \/ method = "PSTSS" /\ Space!Init /\ NoMerge /\ NoSort
  \/ method = "TupleMerge" /\ Merge!Init /\ NoSpace /\ NoSort
  \/ method = "PartitionSort" /\ Sort!Init /\ NoSpace /\ NoMerge

Next ==
  /\ UNCHANGED method
  /\ \/ method = "PSTSS" /\ Space!Next /\ UNCHANGED <<merge, sort>>
     \/ method = "TupleMerge" /\ Merge!Next /\ UNCHANGED <<space, sort>>
     \/ method = "PartitionSort" /\ Sort!Next /\ UNCHANGED <<space, merge>>

Spec == Init /\ [][Next]_vars

----------------------------------------------------------------------------
(***************************************************************************)
(* Properties.                                                             *)
(***************************************************************************)

\* PSTSS: map and vector list the same live tuples in order, with exact caches; the
\* lookup's early end loses nothing (TupleSpaceSearch.cpp:248-256, 287-293).
TuplesSound == method = "PSTSS" => Space!TypeOK /\ Space!TuplesSound

\* TupleMerge: the same of its tables, through splits and frees, and a delete follows
\* the entry of its rule to the one live table that has it
\* (TupleMergeOnline.cpp:102-116, 144, 154, 184-253).
TablesSound ==
  method = "TupleMerge" => Merge!TypeOK /\ Merge!TablesSound /\ Merge!AssignmentExact

\* PartitionSort: each tree is the path compression of comparable rules, whatever
\* its past, and the live trees are listed in order (red_black_tree.cpp:399-489,
\* 1191-1280; PartitionSort.cpp).
TreesSound == method = "PartitionSort" => Sort!TypeOK /\ Sort!TreesSound

\* Whichever method was asked for, it classifies: the driver may compare their
\* results (Simulation.cpp:108-125).
Abstract == INSTANCE Classifier WITH
  stored <- CASE method = "PSTSS" -> Space!Stored
              [] method = "TupleMerge" -> Merge!Stored
              [] method = "PartitionSort" -> Sort!Stored,
  answer <- IF answer = <<>> \/ answer[2] >= 0 THEN answer ELSE <<answer[1], 0>>
ClassifierSpec == Abstract!Spec
=============================================================================
