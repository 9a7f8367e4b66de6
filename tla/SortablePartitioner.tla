------------------------ MODULE SortablePartitioner ------------------------
(***************************************************************************)
(* The offline partitioners of PartitionSort                               *)
(* (SortableRulesetPartitioner.cpp, IntervalUtilities.cpp): they divide a  *)
(* rule set into buckets whose rules an order of the fields makes          *)
(* comparable.  GFS finds the order field by field, MISF tries all orders. *)
(* No run of the program calls them: PartitionSort is fed rule by rule.    *)
(*                                                                         *)
(* A range is cut to two unsigned before anything is compared: nested      *)
(* prefixes of a MAC, of 16 bits and less, are one interval for all of the *)
(* code, and a bucket with both passes for sortable.                       *)
(*                                                                         *)
(* A part, and the rules of an interval, is the set of its rules.  Where   *)
(* std::sort leaves the order of equal intervals open, every choice that   *)
(* follows from some order is there.                                       *)
(***************************************************************************)
EXTENDS Integers, Sequences, FiniteSets

LOCAL INSTANCE FiniteSetsExt   \* SumSet, Max, Choices
LOCAL INSTANCE SequencesExt    \* SetToSeqs, ToSet

CONSTANTS
  PSRules,    \* rules, several with the same ranges among them
  NumFields,  \* PSRule::dim
  PSRange,    \* PSRange[r][f]: the range <<low, high>> of field f, points of 64 bits
  IntBits     \* 32, the width of unsigned

FieldsOf == 0 .. NumFields - 1

Unsigned(point) == point % 2 ^ IntBits

\* the interval(unsigned, unsigned, int) of a rule
Cut(r, f) == <<Unsigned(PSRange[r][f][1]), Unsigned(PSRange[r][f][2])>>

\* the ends of a prefix or of a narrow range do not change places when cut
PartitionerAssumption ==
  /\ IsFiniteSet(PSRules) /\ NumFields \in Nat \ {0} /\ IntBits \in Nat \ {0}
  /\ \A r \in PSRules, f \in FieldsOf :
       /\ PSRange[r][f] \in Nat \X Nat /\ PSRange[r][f][1] <= PSRange[r][f][2]
       /\ Cut(r, f)[1] <= Cut(r, f)[2]

VARIABLES
  method,          \* "GFS" or "MISF"
  ruleset,         \* what is to be divided
  current_rules,   \* what is left of it
  all_partitions,  \* parts of what the round keeps
  current_field,   \* the fields the round has chosen
  all_buckets

vars == <<method, ruleset, current_rules, all_partitions, current_field, all_buckets>>

Init ==
  /\ method \in {"GFS", "MISF"}
  /\ ruleset \in SUBSET PSRules
  /\ current_rules = ruleset
  /\ all_partitions = {ruleset}
  /\ current_field = <<>>
  /\ all_buckets = <<>>

----------------------------------------------------------------------------
(***************************************************************************)
(* Weighted intervals (IntervalUtilities).                                 *)
(***************************************************************************)
\* mutant: intervals are the same when they begin together
CreateIntervalByLow(part, f) == {{q \in part : Cut(q, f)[1] = Cut(r, f)[1]} : r \in part}

\* the rules of a part, together when their ranges are the same once cut
CreateUniqueInterval(part, f) == {{q \in part : Cut(q, f) = Cut(r, f)} : r \in part}

\* ival of a WeightedInterval, a pair of unsigned
GetLow(w, f) == Cut(CHOOSE r \in w : TRUE, f)[1]
GetHigh(w, f) == Cut(CHOOSE r \in w : TRUE, f)[2]
GetWeight(w) == Cardinality(w) + 1

\* mutant: intervals that share an end point go together
ClearOfShared(v, w, f) == GetHigh(v, f) <= GetLow(w, f) /\ v # w

\* v ends before w begins
ClearOf(v, w, f) == GetHigh(v, f) < GetLow(w, f)

\* the greatest weight of intervals of I that end with w
Chi(I, f) ==
  LET chi[w \in I] == GetWeight(w) + Max({0} \cup {chi[v] : v \in {u \in I : ClearOf(u, w, f)}})
  IN  [w \in I |-> chi[w]]

Latest(S, f) == {w \in S : \A v \in S : GetHigh(v, f) <= GetHigh(w, f)}
Earliest(S, f) == {w \in S : \A v \in S : GetHigh(w, f) <= GetHigh(v, f)}

\* the choices MWISIntervals may return: from the first interval at which the greatest
\* weight is reached, back to the last one that has what is missing, and so on
MWISIntervals(I, f) ==
  LET chi == Chi(I, f)
      best == Max({chi[w] : w \in I})
      back[w \in I] ==
        LET rest == chi[w] - GetWeight(w)
        IN  IF rest = 0 THEN {{w}}
            ELSE UNION {{{w} \cup s : s \in back[v]} :
                          v \in Latest({u \in I : chi[u] = rest /\ ClearOf(u, w, f)}, f)}
  IN  UNION {back[w] : w \in Earliest({w \in I : chi[w] = best}, f)}

MaxWeight(I, f) == LET chi == Chi(I, f) IN Max({chi[w] : w \in I})

----------------------------------------------------------------------------
(***************************************************************************)
(* GFS: a round takes all fields, each time the one in which the parts     *)
(* keep the most, and then makes a bucket of what was kept.                *)
(***************************************************************************)
\* MWISonEntirePartition: the sum, and the choices for all parts
SumWeight(parts, f) == MapThenSumSet(LAMBDA p : MaxWeight(CreateUniqueInterval(p, f), f), parts)
MWISonEntirePartition(parts, f) ==
  {UNION c : c \in Choices({MWISIntervals(CreateUniqueInterval(p, f), f) : p \in parts})}

\* the last of the fields with the greatest sum
BestField ==
  LET open == FieldsOf \ ToSet(current_field)
  IN  CHOOSE f \in open : \A g \in open \ {f} :
        \/ SumWeight(all_partitions, g) < SumWeight(all_partitions, f)
        \/ SumWeight(all_partitions, g) = SumWeight(all_partitions, f) /\ g < f

BestFieldAndConfiguration ==
  /\ method = "GFS" /\ current_rules # {} /\ Len(current_field) < NumFields
  /\ all_partitions' \in MWISonEntirePartition(all_partitions, BestField)
  /\ current_field' = Append(current_field, BestField)
  /\ UNCHANGED <<method, ruleset, current_rules, all_buckets>>

SortableRuleset(rules, order) == [rule_list |-> rules, field_order |-> order]

\* the rules that are not marked
Remaining(rules, kept) == rules \ kept

PushBucket(rules, order) ==
  /\ all_buckets' = Append(all_buckets, SortableRuleset(rules, order))
  /\ current_rules' = Remaining(current_rules, rules)
  /\ UNCHANGED <<method, ruleset>>

GreedyRoundEnd ==
  /\ method = "GFS" /\ current_rules # {} /\ Len(current_field) = NumFields
  /\ PushBucket(UNION all_partitions, current_field)
  /\ all_partitions' = {current_rules'}
  /\ current_field' = <<>>

----------------------------------------------------------------------------
(***************************************************************************)
(* MISF: a round takes the first order of the fields that keeps most.      *)
(***************************************************************************)
\* MaximumIndependentSetGivenFieldRecursion, the choices of each interval of the field
\* at depth made from those of the fields behind it
GivenField(rules, order) ==
  LET PickFrom(list, f) == {UNION s : s \in MWISIntervals(list, f)}
      inner[depth \in 1 .. NumFields, part \in SUBSET rules] ==
        LET f == order[depth]
            vwi == CreateUniqueInterval(part, f)
        IN  IF depth = NumFields THEN PickFrom(vwi, f)
            ELSE UNION {PickFrom(opt, f) : opt \in Choices({inner[depth + 1, w] : w \in vwi})}
  IN  inner[1, rules]

\* std::next_permutation: in lexicographic order
LexBefore(o, p) ==
  \E i \in DOMAIN o : o[i] < p[i] /\ \A j \in 1 .. i - 1 : o[j] = p[j]

MaximumIndependentSetAllFields ==
  /\ method = "MISF" /\ current_rules # {}
  /\ LET orders == SetToSeqs(FieldsOf)
         sets == [o \in orders |-> GivenField(current_rules, o)]
     IN  \E order \in orders : \E kept \in sets[order] :
           /\ \A o \in orders \ {order} : \E other \in sets[o] :
                IF LexBefore(o, order) THEN Cardinality(other) < Cardinality(kept)
                ELSE Cardinality(other) <= Cardinality(kept)
           /\ PushBucket(kept, order)
  /\ UNCHANGED <<all_partitions, current_field>>

Next == BestFieldAndConfiguration \/ GreedyRoundEnd \/ MaximumIndependentSetAllFields

Spec == Init /\ [][Next]_vars

----------------------------------------------------------------------------
(***************************************************************************)
(* IsBucketReallySortable: field by field, no interval of a part overlaps  *)
(* another.                                                                *)
(***************************************************************************)
MaxOverlapOne(I, f) == \A v, w \in I : v # w => ClearOf(v, w, f) \/ ClearOf(w, v, f)

IsBucketReallySortable(b) ==
  LET parts[i \in 0 .. Len(b.field_order)] ==
        IF i = 0 THEN {b.rule_list}
        ELSE UNION {CreateUniqueInterval(p, b.field_order[i]) : p \in parts[i - 1]}
  IN  \A i \in DOMAIN b.field_order : \A p \in parts[i - 1] :
        MaxOverlapOne(CreateUniqueInterval(p, b.field_order[i]), b.field_order[i])

----------------------------------------------------------------------------
(***************************************************************************)
(* Properties.                                                             *)
(***************************************************************************)
Apart(a, b) == a[2] < b[1] \/ b[2] < a[1]

\* what an interval tree asks of two of its rules, whose ranges R gives: at the first
\* field of the order in which they differ they are disjoint
Comparable(R(_, _), r, q, order) ==
  \A i \in DOMAIN order :
    (\A j \in 1 .. i - 1 : R(r, order[j]) = R(q, order[j]))
      => R(r, order[i]) = R(q, order[i]) \/ Apart(R(r, order[i]), R(q, order[i]))

Whole(r, f) == PSRange[r][f]

\* of the ranges of these rules in field f the cut makes no two the same, and none meet
CutHarmless(rules, f) ==
  \A r, q \in rules :
    /\ Cut(r, f) = Cut(q, f) => Whole(r, f) = Whole(q, f)
    /\ Apart(Cut(r, f), Cut(q, f)) <=> Apart(Whole(r, f), Whole(q, f))

\* Whatever is dropped on the way, every rule ends in one bucket, and a bucket is
\* never empty and passes the code's own test in its order, which names each field:
\* its rules are comparable by their ranges cut to unsigned, and by their ranges if
\* the cut confuses none of them (SortableRulesetPartitioner.cpp:32-44, 156-186,
\* 381-403).
BucketsRight ==
  LET Of(i) == all_buckets[i].rule_list
  IN  /\ ruleset = current_rules \cup UNION {Of(i) : i \in DOMAIN all_buckets}
      /\ \A i, j \in DOMAIN all_buckets : i # j => Of(i) \cap Of(j) = {}
      /\ \A i \in DOMAIN all_buckets :
           LET order == all_buckets[i].field_order
           IN  /\ Of(i) # {} /\ Of(i) \cap current_rules = {}
               /\ IsBucketReallySortable(all_buckets[i])
               /\ ToSet(order) = FieldsOf
               /\ \A r, q \in Of(i) :
                    /\ Comparable(Cut, r, q, order)
                    /\ (\A f \in FieldsOf : CutHarmless({r, q}, f))
                         => Comparable(Whole, r, q, order)

\* What MWISIntervals returns for a part is a set of intervals that are disjoint when
\* cut, and no such set weighs more, however intervals nest and share their ends; so
\* it is for the ranges themselves when the cut confuses none of the part's
\* (IntervalUtilities.cpp:199-283).
ChoiceBest ==
  \A p \in all_partitions \ {{}}, f \in FieldsOf :
    LET I == CreateUniqueInterval(p, f)
        Weight(S) == MapThenSumSet(GetWeight, S)
        Independent(R(_, _)) ==
          {S \in SUBSET I : \A v, w \in S : v # w =>
             \A r \in v, q \in w : Apart(R(r, f), R(q, f))}
        Best(R(_, _), chosen) ==
          /\ chosen \in Independent(R)
          /\ \A S \in Independent(R) : Weight(S) <= Weight(chosen)
    IN  \A chosen \in MWISIntervals(I, f) :
          Best(Cut, chosen) /\ (CutHarmless(p, f) => Best(Whole, chosen))
=============================================================================
