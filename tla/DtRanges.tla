------------------------------ MODULE DtRanges ------------------------------
(***************************************************************************)
(* dynamictuple/dynamictuple-ranges.cpp: how DynamicTuple divides the grid *)
(* of prefix lengths into the ranges of its tuples.  Each range has an     *)
(* estimated cost; dynamic programming looks for the division by cuts from *)
(* side to side of least cost, and its table of choices is then followed   *)
(* from the whole grid down.                                               *)
(*                                                                         *)
(* The rules are a list, best first, of address pairs and lengths; the     *)
(* DtRule of position i has priority n - i.  The table is filled one entry *)
(* a step, in the order of the loops.  The one caller passes no earlier    *)
(* ranges (dynamictuple.cpp:11), so pre_tuples_prefix is 0 everywhere and  *)
(* ReducePreTupleRanges changes nothing.                                   *)
(***************************************************************************)
EXTENDS Integers, Sequences, FiniteSets

LOCAL INSTANCE FiniteSetsExt   \* SumSet, Max, Min

CONSTANTS
  MaxLen,     \* the length of an address, 32 in the code
  RuleLists,  \* the lists of rules the classifier may be created with
  Stride,     \* the side of the ranges when there are no rules, 8 in the code
  Bucket,     \* the least size of a table of the estimate, 32 in the code
  Huge,       \* 1e9
  CostBits    \* new_cost is a uint32_t

Lens == 0 .. MaxLen
DtRule == [src : Nat, dst : Nat, x : Lens, y : Lens]

RangesAssumption ==
  /\ MaxLen \in Nat /\ Stride \in Nat \ {0} /\ Bucket \in Nat \ {0}
  /\ Huge \in Nat \ {0} /\ CostBits \in Nat
  /\ RuleLists \subseteq Seq(DtRule)

VARIABLES
  rules,
  tuple_cost,    \* for each range its cost and how it is split: self, src or dst, and where
  cell,          \* the range whose entry is computed next
  todo,          \* ranges AddTupleRanges has still to look at
  tuple_ranges,
  pc             \* "program", "collect" or "done"

vars == <<rules, tuple_cost, cell, todo, tuple_ranges, pc>>

Corners(x1, y1, x2, y2) == [x1 |-> x1, y1 |-> y1, x2 |-> x2, y2 |-> y2]
Cells == {Corners(x1, y1, x2, y2) : x1 \in Lens, y1 \in Lens, x2 \in Lens, y2 \in Lens}
TupleRanges == {g \in Cells : g.x1 <= g.x2 /\ g.y1 <= g.y2}
Whole == Corners(0, 0, MaxLen, MaxLen)
Entry(cost, split, at) == [cost |-> cost, split |-> split, at |-> at]

Holds(g, x, y) == g.x1 <= x /\ x <= g.x2 /\ g.y1 <= y /\ y <= g.y2
\* the positions of the rules with lengths in range g
Within(g) == {i \in DOMAIN rules : Holds(g, rules[i].x, rules[i].y)}

----------------------------------------------------------------------------
(***************************************************************************)
(* The cost of a tuple for range g (DtCalculateXY).                        *)
(***************************************************************************)
Priority(i) == Len(rules) + 1 - i

\* what the tuple of range g keeps of the addresses of rule i
Reduced(g, i) ==
  <<rules[i].src \div 2 ^ (MaxLen - g.x1), rules[i].dst \div 2 ^ (MaxLen - g.y1)>>

\* the place of rule i in its group, from the end: rules outside of g count too
CheckNum(g, i) == Cardinality({j \in DOMAIN rules : j >= i /\ Reduced(g, j) = Reduced(g, i)})

\* the best rule of g in each group
Firsts(g) == {i \in Within(g) : \A j \in Within(g) : Reduced(g, j) = Reduced(g, i) => i <= j}

\* the least doubling of Bucket that n groups fill to less than 0.85
BucketSize(n) ==
  LET k == CHOOSE k \in 0 .. n : /\ 17 * Bucket * 2 ^ k > 20 * n
                                 /\ \A j \in 0 .. k - 1 : 17 * Bucket * 2 ^ j <= 20 * n
  IN  Bucket * 2 ^ k

Total(S, f(_)) == MapThenSumSet(f, S)
Collide(g) ==
  Total(Firsts(g), LAMBDA i : Priority(i) - CheckNum(g, i)) \div BucketSize(Cardinality(Firsts(g)))

SelfCost(g) ==
  5 * Max({0} \cup {Priority(i) : i \in Within(g)})
    + 2 * (Total(Firsts(g), LAMBDA i : CheckNum(g, i)) + Collide(g))
    + 3 * Total(Within(g), LAMBDA i : CheckNum(g, i))

\* A first row or column without rules, to the end of the grid, is not worth the
\* work: no tuple should begin there.
Wasted(g) == \/ Within([g EXCEPT !.x2 = g.x1, !.y2 = MaxLen]) = {}
             \/ Within([g EXCEPT !.x2 = MaxLen, !.y2 = g.y1]) = {}

DtCalculate(g) ==
  IF ~Wasted(g) THEN SelfCost(g) ELSE IF Within(g) = {} THEN 0 ELSE Huge

\* the ranges when there are no rules
TupleRangeStep ==
  {Corners(x, y, Min({x + Stride - 1, MaxLen}), Min({y + Stride - 1, MaxLen}))
     : x \in {x \in Lens : x % Stride = 0}, y \in {y \in Lens : y % Stride = 0}}

Init ==
  /\ rules \in RuleLists
  /\ tuple_cost = [g \in TupleRanges |-> Entry(DtCalculate(g), "self", 0)]
  /\ cell = Corners(MaxLen, MaxLen, MaxLen, MaxLen)
  /\ todo = <<>>
  /\ tuple_ranges = IF rules = <<>> THEN TupleRangeStep ELSE {}
  /\ pc = IF rules = <<>> THEN "done" ELSE "program"

----------------------------------------------------------------------------
(***************************************************************************)
(* The table (DynamicProgrammingXY).                                       *)
(***************************************************************************)
Cost(g) == tuple_cost[g].cost

Cuts(g) == [split : {"src"}, at : g.x1 .. g.x2 - 1] \cup [split : {"dst"}, at : g.y1 .. g.y2 - 1]
Low(g, k) == IF k.split = "src" THEN [g EXCEPT !.x2 = k.at] ELSE [g EXCEPT !.y2 = k.at]

High(g, k) == IF k.split = "src" THEN [g EXCEPT !.x1 = k.at + 1] ELSE [g EXCEPT !.y1 = k.at + 1]

CutCost(g, k) == (Cost(Low(g, k)) + Cost(High(g, k))) % 2 ^ CostBits

\* the order in which cuts are tried; a later one has to be better
Before(k, l) == \/ k.split = "src" /\ l.split = "dst"
                \/ k.split = l.split /\ k.at < l.at

BestCut(g) ==
  LET better == {k \in Cuts(g) : CutCost(g, k) < Cost(g)}
      best == CHOOSE k \in better :
                \A l \in better \ {k} : \/ CutCost(g, k) < CutCost(g, l)
                                        \/ CutCost(g, k) = CutCost(g, l) /\ Before(k, l)
  IN  IF better = {} THEN tuple_cost[g] ELSE Entry(CutCost(g, best), best.split, best.at)

\* mutant: the rest is copied whatever it is
TrimmedCopy(g, k) == tuple_cost[High(g, k)]

\* a range whose first row or column, the low side of cut k, is empty: it is cut
\* off, together with those that follow if they are empty too
Trimmed(g, k) ==
  LET rest == High(g, k)
      next == IF k.split = "src" THEN [rest EXCEPT !.x2 = rest.x1] ELSE [rest EXCEPT !.y2 = rest.y1]
  IN  IF Cost(next) # 0 THEN Entry(Cost(rest), k.split, k.at) ELSE tuple_cost[rest]

Programmed(g) ==
  IF Cost(g) = 0 THEN tuple_cost[g]
  ELSE IF Cost([g EXCEPT !.x1 = g.x2]) = 0 THEN tuple_cost[[g EXCEPT !.x2 = @ - 1]]
  ELSE IF Cost([g EXCEPT !.y1 = g.y2]) = 0 THEN tuple_cost[[g EXCEPT !.y2 = @ - 1]]
  ELSE IF Cost([g EXCEPT !.x2 = g.x1]) = 0 THEN Trimmed(g, [split |-> "src", at |-> g.x1])
  ELSE IF Cost([g EXCEPT !.y2 = g.y1]) = 0 THEN Trimmed(g, [split |-> "dst", at |-> g.y1])
  ELSE BestCut(g)

\* the loops: corners from the far end, ranges of a corner by size
NextCell(g) ==
  IF g.y2 < MaxLen THEN [g EXCEPT !.y2 = @ + 1]
  ELSE IF g.x2 < MaxLen THEN [g EXCEPT !.x2 = @ + 1, !.y2 = g.y1]
  ELSE IF g.y1 > 0 THEN Corners(g.x1, g.y1 - 1, g.x1, g.y1 - 1)
  ELSE Corners(g.x1 - 1, MaxLen, g.x1 - 1, MaxLen)

DynamicProgramming ==
  /\ pc = "program"
  /\ tuple_cost' = [tuple_cost EXCEPT ![cell] = Programmed(cell)]
  /\ IF cell = Whole
     THEN pc' = "collect" /\ todo' = <<Whole>> /\ UNCHANGED cell
     ELSE cell' = NextCell(cell) /\ UNCHANGED <<pc, todo>>
  /\ UNCHANGED <<rules, tuple_ranges>>

----------------------------------------------------------------------------
(***************************************************************************)
(* The ranges (AddTupleRanges), the recursion as a list of what is left.   *)
(***************************************************************************)
AddTupleRange(g) ==
  /\ tuple_cost[g].split = "self"
  /\ tuple_ranges' = tuple_ranges \cup {g}
  /\ todo' = Tail(todo)

SplitTupleRange(g) ==
  /\ tuple_cost[g].split # "self"
  /\ todo' = <<Low(g, tuple_cost[g]), High(g, tuple_cost[g])>> \o Tail(todo)
  /\ UNCHANGED tuple_ranges

AddTupleRanges ==
  /\ pc = "collect" /\ todo # <<>>
  /\ AddTupleRange(Head(todo)) \/ SplitTupleRange(Head(todo))
  /\ UNCHANGED <<rules, tuple_cost, cell, pc>>

Done ==
  /\ pc = "collect" /\ todo = <<>>
  /\ pc' = "done"
  /\ UNCHANGED <<rules, tuple_cost, cell, todo, tuple_ranges>>

Next == DynamicProgramming \/ AddTupleRanges \/ Done

Spec == Init /\ [][Next]_vars

----------------------------------------------------------------------------
(***************************************************************************)
(* Properties.                                                             *)
(***************************************************************************)

\* Types of the table (dynamictuple-ranges.h:41-45): a cut is inside its range, so
\* the recursion of AddTupleRanges ends and never leaves the grid.
TypeOK ==
  /\ cell \in TupleRanges /\ todo \in Seq(TupleRanges) /\ tuple_ranges \subseteq TupleRanges
  /\ DOMAIN tuple_cost = TupleRanges
  /\ \A g \in TupleRanges :
       /\ Cost(g) \in Nat
       /\ tuple_cost[g].split = "self" \/ [split |-> tuple_cost[g].split, at |-> tuple_cost[g].at] \in Cuts(g)

\* Every pair of lengths is in one range: prefix_down is set everywhere, and once,
\* whatever the costs (dynamictuple.cpp:19-24).
Partition ==
  pc = "done" =>
    \A x, y \in Lens : Cardinality({g \in tuple_ranges : Holds(g, x, y)}) = 1

\* did all sums of two costs fit new_cost?
NoWrap == \A g \in TupleRanges : \A k \in Cuts(g) :
            Cost(Low(g, k)) + Cost(High(g, k)) < 2 ^ CostBits

\* Tuples keep as many bits as their rules have: trimming, and the entries copied
\* from smaller ranges, leave no range that begins with an empty row (l.228-255).
Tight ==
  \A g \in tuple_ranges : Within(g) # {} =>
    /\ \E i \in Within(g) : rules[i].x = g.x1
    /\ \E i \in Within(g) : rules[i].y = g.y1

\* The cost of the whole is the sum of the costs of the ranges: no 1e9 is left.
CostTrue == Cost(Whole) = Total(tuple_ranges, SelfCost)

\* No division by cuts costs less, although entries are trimmed and copied before
\* any cut is tried, and the costs of wasted corners are never computed.
CostLeast == \A g \in TupleRanges :
               /\ Cost(g) <= SelfCost(g)
               /\ \A k \in Cuts(g) : Cost(g) <= Cost(Low(g, k)) + Cost(High(g, k))

\* What the dynamic program promises, unless a sum of costs was truncated (l.258, 267).
RangesRight == pc = "done" /\ rules # <<>> /\ NoWrap => Tight /\ CostTrue /\ CostLeast
=============================================================================
