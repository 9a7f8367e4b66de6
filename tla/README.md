# A verification project for RLTuple

RLTuple classifies packets: given a list of rules over twelve header fields, find the
matching rule of highest priority. Rules are spread over *tuples*, hash tables that each
index some fields to some prefix length, and a learning agent chooses the tuples. The
repository also holds the classifiers it is compared with. The program has one thread (two
mutexes are initialised and never locked): what is hard in it is not interleaving but long
sequences of legal calls on structures that cache, in four places at once, the best priority
below them, and end every search early on the strength of those caches.

## 1. Inventory

### Components

| component | state | operations | correct when |
|---|---|---|---|
| `HashTable`, `HashNode` (`tuplestructure/`) | buckets of chains of nodes, a list of rules in each node, counters, cached priorities | insert, insert with a limit, delete, doubling | chains and lists descend, a node is where its hash says, one node per key, nothing lost |
| `Tuple` (`tuplestructure/`) | its shape, a hash table, two cached numbers | insert, insert with a limit, delete | a rule and the packets that match it have the same key and hash |
| `RlTuple` (`RLTuple/`) | array of tuples in descending order, map from rule to tuple, counters | `addTuple`, `InsertRule`, `DeleteRule`, `Lookup`, cost estimate | lookups return the best match; a delete goes where the rule is |
| Session (`main.cpp`) | current shape, set of shapes, classifier | reset, extend the shape, push the shape, measure | rebuilt classifier has every rule; no use after free |
| Agent (`RL/`) | network, replay buffer, masks | choose an action | masks forbid what the session cannot take |
| `DynamicTuple` (`dynamictuple/`) | table from prefix lengths to tuples, map and array of tuples | build, insert, delete, lookup | freed tuple is the emptied one |
| `DtInfo` (`dynamictuple/`) | cost grid | dynamic program over rectangles of lengths | ranges partition the used lengths, at least cost |
| PSTSS (`partitionsort/OVS/`) | map and sorted vector of tuples | insert, delete, classify | as `RlTuple` |
| Cuckoo map (`partitionsort/OVS/cmap.*`) | two-choice buckets | insert, remove, find, grow, shrink | nodes stay findable through displacement |
| TupleMerge (`partitionsort/TupleMerge/`) | sorted vector of tables, assignment of rules | insert with split, delete, classify | the assignment names the table that has the rule |
| HybridTSS (`partitionsort/HybridTSS/`) | tree of hash nodes with leaves of other classifiers | train, build, insert, delete, classify | cached bound covers the big rules, rewards are the costs below |
| PartitionSort (`partitionsort/PartitionSort/`) | trees of intervals over red-black trees | insert, delete, classify | each tree holds a sortable rule set |
| `HashNode` with port tables (`tuplestructure/`) | list and two tables, counters, flags | insert, delete, crossing to tables and back | rules are where deletes and lookups look, counts are true |
| `DimInfo` (`dynamictuple/`) | division of each dimension | rounds over the dimensions | a round never makes the cost worse |
| Offline partitioners (`SortableRulesetPartitioner`, `IntervalUtilities`) | rules left, parts, buckets | greedy rounds, all orders | every rule in one sortable bucket |
| Rules and traces (`main.cpp`, `elementary.*`, `io/`) | rules, packets, their distribution, the trace file | read rules, make, save and read packets | rules mean what lines say; packets match the rule they are counted for |
| Flow entries (`io/io.cpp`, `io/trie.cpp`) | four tries | insert, lookup, build entries | an entry covers no two packets the rules tell apart |
| Trace generator, scripts | - | sampling, plots | not modelled (section 7) |

How they interact: everything is a call. The session owns one classifier at a time and
drives it (`Create`, `addTuple`, `step`, then `Delete`/`Insert` pairs and lookups in
`runUpdate`); `RlTuple` calls its tuples, a tuple its table, a table its nodes, and a lookup
reads through all four levels without calling. The agent talks to the session over a socket,
one request and one answer at a time. The comparison driver drives the other classifiers the
same way.

### What is hard

`PROJECT.json` lists the hazards line by line. In short: the doubling inside an insert that
holds a node in its hand; early ends of searches that rest on orders kept up by updates that
skip the work when they think they can; the map `id2tuple` that outlives the rules it names;
deletes that fail half-way; empty tuples that stay; keys cut to 64 bits, points cut to `unsigned`,
numbers that pass through an `int`.

## 2. Modules

| module | models | kind |
|---|---|---|
| `RuleStore` | what a table of rules promises | abstract specification |
| `HashTable` | `hashtable.cpp` and the lists of `hashnode.cpp` | state machine, one step per turn of the doubling |
| `HashTable_proofs` | inductive invariant of `HashTable`, its properties, the refinement of `RuleStore`, the lookup's probe | proofs |
| `Prefix` | rules, packets, matching (`elementary.*`, what `ReadRules` establishes) | operators |
| `TupleKey` | shapes, values, keys (`tuple.cpp`, `rltuple.cpp`) | operators |
| `TupleHash` | the hash next to the key | operators |
| `RuleReader` | one line of a rule file into a rule (`ReadRules`, `elementary.cpp`) | operators |
| `MegaFlow` | port ranges into prefixes, tries and flow entries (`io.cpp`, `trie.cpp`) | operators |
| `SetUp` | `main()` up to the first classifier: rules, packets, their distribution | state machine, one step per line read and per turn of the generator |
| `PortTables` | `hashnode.cpp` with port tables, and the probe of such a node | state machine, one step per call |
| `Classifier` | what a packet classifier promises | abstract specification |
| `RLTuple` | `rltuple.cpp` | state machine, one step per tuple of a lookup |
| `RLTuple_proofs` | inductive invariants, properties, refinement of `Classifier`, the estimate; `RLSession` | proofs |
| `RLSession` | `main.cpp`'s loop of commands, the client's masks, over `RLTuple` | state machine, one step per call |
| `DynamicTuple` | `dynamictuple.cpp` | state machine, one step per tuple of a lookup |
| `DynamicTuple_proofs` | inductive invariant, refinement of `Classifier` | proofs |
| `DtRanges` | `dynamictuple-ranges.cpp` | state machine, one step per entry of the table |
| `DtDims` | `dynamictuple-dims.cpp` | state machine, three steps per dimension and round |
| `SortablePartitioner` | the partitioners GFS and MISF with their interval arithmetic | state machine, one step per field chosen or per bucket |
| `Partitioners` | one of the three, run by itself | composition |
| `PrefixTable` | the tables of PSTSS and TupleMerge, and sorted lists of them | operators |
| `PSTSS` | `TupleSpaceSearch.cpp`, `.h` | state machine, one step per tuple of a lookup |
| `TupleMerge` | `TupleMergeOnline.cpp`, `SlottedTable.cpp` | state machine, one step per table of a lookup |
| `PSTSS_proofs`, `TupleMerge_proofs` | what an update does to one table and a sorted list of them; inductive invariants, refinements of `Classifier` | proofs |
| `HybridTSS` | `HybridTSS.cpp`, `SubHybridTSS.cpp` | state machine, one step per node built, per tree trained on and per update |
| `IntervalTree` | the levels of `red_black_tree.cpp` and their path compression | operators |
| `RedBlackTree` | one level of `red_black_tree.cpp`: searches, rotations, fix-ups | state machine, one step per turn of a fix-up |
| `CuckooMap` | `cmap.cpp` as far as the classifiers use it | state machine, one step per bucket written |
| `Containers` | a level of a tree, a map or a node with port tables, used by itself | composition |
| `PartitionSort` | `PartitionSort.cpp`, `.h`, `OptimizedMITree.h` | state machine, one step per tree of a lookup |
| `Comparison` | `classification-main-ps.cpp`, the calls of `Simulation.cpp` | composition of `PSTSS`, `TupleMerge`, `PartitionSort` |
| `PartitionSort_proofs` | interval trees and their operations; inductive invariant, refinement of `Classifier` | proofs |
| `Comparison_proofs` | the tree of `HybridTSS` and its lookups; the other three in the driver, and that the driver is a `Classifier` | proofs |
| `ListLemmas` | lists that name each element once, the best of a set of rules | proofs |
| `MC...` | small instances for TLC | constants |

### HashTable

State: `hash_node_arr`, `mask`, `hash_node_num`, `max_hash_node_num`, `max_priority` are the
fields of the struct. `hand` is the node the running call holds between `PickHashNode` and
`InsertHashNode`, `origin` the old array during `HashTableResize`, `pc` and `op` say where the
call stands, `ret` is the code the last call returned. A chain is a sequence of nodes, a node a
record with the sequence of its rules.

A call is cut into steps where the interesting loop is. `InsertNew`, `InsertOld`,
`DeleteRule` take the node out of its chain and change it (`HashNode::InsertRule`,
`HashNode::DeleteRule`); `Link` is `InsertHashNode` with room; `StartResize`, `ResizeMove`,
`ResizeDone` are the doubling; `FinishInsert`, `FinishRefused`, `FinishDelete` what the caller
does after `InsertHashNode`. `DeleteNoNode` and `DeleteNotInNode` are the two failures of a
delete; the second loses the node, as the code does. Lists and chains are searched by the rule
of the loops (first place whose priority is strictly smaller), stated as a predicate on
positions.

Callers never insert a rule that is stored (guard `r \notin Stored`): both callers of the
program delete before they insert again. `Careless` says whether they may delete a rule that
is not stored.

Left out: port tables, which `PortTables` models (`use_port_hash_table` is false in every
classifier `main.cpp` creates), allocation, printing.

### PortTables

One node of a table created with `use_port_hash_table`: a list, and from 7 rules on two hash
tables by source and destination port. The fields are those of the struct; a port table is the
set of its rules, which the theorems about `HashTable` justify (its keys are ports, and a port
has one hash). `InsertRule` includes `BeginTables`, which puts all rules in again through
`Place`; `DeleteFromTable` and `DeleteFromList` include `EndTables`. `DeleteFails` and
`DeleteExits` are deletes of rules that are not there: one loses the node, the other ends the
program. `Probe` is what `DynamicTuple::Lookup`, the one lookup that knows of port tables, does
with the node.

### TupleKey, TupleHash

A shape is a pair of sequences, fields and lengths, as in `Tuple`. `Values` shifts each field,
`KeyOfValues` packs the values in `KeyBits` bits, with the loss of high bits the code has,
`Fits` and `Slack` are the loop over the fields of a candidate tuple. `PrefixAssumption`, in
module `Prefix`, is what `ReadRules` establishes of a rule: its prefix length is the number of leading bits all values of
its range share; `RuleReader` and `SetUp` discharge it for the lines they enumerate. `FitsKey` and
`ValueFits` say when the key is enough: the lengths of the shape add up to no more than the key has
bits, and the values of the rules to no more than their fields have. The classifiers assume both
where they take the table of a tuple for a set.
`TupleHash` leaves the mixing function of `hash.cpp` open: nothing stated
depends on what it computes, only on which words it gets.

### RuleReader, SetUp, MegaFlow

`RuleReader` turns what a line says (per field an address and length, a range, a value, or
nothing) into a rule, in the order of the code: `fillEmptyField` on a zeroed rule, then the
fields that are named. Ports and single values go through `atoi` into an `int` and from there into
a `uint64_t` (`Atoi`), which fills the upper bits with the sign: `in_port`, the one such field of 32
bits, comes out larger than any packet's from 2^31 on. A line without such a value is `Exact`.

`SetUp` is `main()` around it: lines are counted (`CountLines`), read with descending priorities (`ReadLine`), then packets are made turn by turn (`Generate`) and saved, or
read back from what an earlier run saved and counted again (`ReadTraces`). `StartAgain` is such a
second run: files stay, everything else starts afresh. `Wanted` is the number of copies, with
Pareto any of `Copies`, one of them negative (a number too large for an `int`), which the
comparison with an unsigned number takes for large (`Capped`). The middle of a rule is computed in
`double` (`Double`, `Middle`), which rounds a value too long for it, and may round it to 2^64, whose
conversion back is undefined (`Undefined` holds the two results builds produce). The exact lines'
rules are those `TupleHash` is instantiated with, so what it says of keys and hashes is checked on
rules that the reader makes, not on rules assumed.

`MegaFlow` is `RulesPortPrefix` (ranges of ports cut into blocks) and `MegaFlowRules` over four
tries. A trie is the set of its nodes, a node the bits on its path; a port is in the low half of
a word. No run of the program calls it.

### RLTuple

State: `tuple` is the heap of tuples (a tuple is never freed before the classifier is, so a
pointer is an index), `tuples_arr` the array, the rest as in `rltuple.h`. A tuple is its shape,
its set of rules and its two cached numbers: that its hash table behaves like a set from which
a failed delete loses one key's rules is what `HashTable` shows, if a key determines the hash. So
`ClassifierAssumption` asks that every shape fits the key (`FitsKey`) and every value its field
(`ValueFits`); `addTuple` checks neither, and `wide_key` shows what a wider shape does. `scan` is the loop of a lookup,
one step per tuple; updates do not run during a lookup.

`InsertRule` has four actions, one per way through the code: a known rule goes where
`id2tuple` says (`InsertKnown`), else to the candidate of least slack that accepts it
(`InsertChosen`; the order of equal candidates after `std::sort` is open), else to the last
default tuple (`InsertDefault`), else to a new one (`InsertNewDefault`). Each includes the
bookkeeping and, under the code's condition, the sort (`Settle`). `SortTuples` leaves the order
of equal priorities open, as `std::sort` does.

### RLSession

EXTENDS `RLTuple` and drives its actions. State: `tuples` and `current` of `RunRL`, the shapes put aside
and the one in hand; `toadd`, `toinsert` what is left of
building a classifier; `absent` and `pairs` a measurement; `state` and `done` the last reply,
which is all the client knows. `Reset` is command 2, `Command` commands 0 and 1 up to the call of
`Create`, `AddTuple` and `Step` the calls it makes, `MeasureDelete` and `MeasureInsert`
`runUpdate`, `Reply` the observation and the end of an episode. `getMask` is translated from
`RL/tuplegym.py` because it is the guard of what the program receives; `getObs` from
`rltuple.cpp`. The order in which `runUpdate` and `Create` go through the rules is a list of the
set `RuleLists`. `SessionAssumption` says of the constants what `train.py` gives them: limits that
are not zero, a longest length no longer than the field, and a client that begins with a one-field
or two-field shape. The network may choose any command the mask allows, with one restriction: the
shape it leads to fits the key (`FitsKey` in the guard of `Command`). The mask does not see to that:
two MACs, or `in_port` and a MAC, are allowed and have more than 64 bits, and the delete of a
stored rule in a measurement may then fail. What is said of sessions is said of those without such shapes. Lookups of a measurement
change nothing here and are left out, as are the costs, except that one may be a drop.

### DynamicTuple, DtRanges, DtDims

`DynamicTuple` keeps the map of tuples by key (`PrefixPair`) and the array apart. `InsertOld` and
`InsertNew` are the two ways of an insert, `DeleteOne` and `DeleteLast` of a delete; `Settle` is
the end of an insert with its sort. The partition is a parameter, any that puts each rule in one
range. That the program finds such a partition is `Partition` of `DtRanges`, which fills
`tuple_cost` entry by entry in the order of the loops (`DynamicProgramming`), then walks the
choices from the whole grid down (`AddTupleRanges`, the recursion as a list of what is left).
`DtCalculate` is the estimate in closed form, `Programmed` one turn of the loops with its special
cases in their order; sums of two costs are truncated as `new_cost` truncates them.

`DtDims` is the variant that divides one dimension after the other for the divisions the others
have (`CalculateDimRangeX`, `DynamicProgrammingX`, `GetDpRange`), until a round gains little
(`EndRound`). Its sums have 64 bits and are not truncated.

### SortablePartitioner, Partitioners

A round of GFS takes the fields one by one, each time the last of those in which the parts keep
the greatest weight (`BestFieldAndConfiguration`), and makes a bucket of what is left
(`GreedyRoundEnd`); a round of MISF tries every order of the fields
(`MaximumIndependentSetAllFields`). `MWISIntervals` is the weighted choice of disjoint intervals:
`Chi` the sweep over end points, after the perturbation that makes intervals with a common end
point overlap (`ClearOf`), then the back-trace by weights. `std::sort` leaves open which of
several intervals of one end comes first, so `MWISIntervals` is the set of choices that follow
from some order, and both methods take any of them.

Everything is computed from ranges cut to two `unsigned` (`Cut`): the constructor of `interval`
(`ElementaryClasses.h:110`) cuts what is grouped, `WeightedInterval` (`IntervalUtilities.h:78`,
`88-94`) what is weighed and what the code's own test of a bucket looks at. So the properties say of
cut ranges what they say of all rules, and of the ranges themselves only if the cut confuses none
of them (`CutHarmless`); section 6 has the case where it does.

`Partitioners` chooses `DtRanges`, `DtDims` or `SortablePartitioner` in `Init` and takes its
steps. They share nothing but their purpose, dividing a rule set ahead of its use.

### PrefixTable, PSTSS, TupleMerge

A table is its two lengths, its set of rules and its cached best priority. `Chain` is what
`cmap_find` returns, the rules of one hash; `Hash` is a parameter, and the runs let different
values collide. `Deletion` follows the conditions under which the code takes the cached
priority from the multiset again. `Sorted` gives every order `std::sort` may leave.

`PSTSS` keeps the map from keys to tuples and the vector apart, as the code does: `DeleteLast`
erases from the map, sorts the vector by the priorities the tuples have then, and pops its last
entry. `TupleMerge` names tables by address; `Address` takes the lowest free one, so that the
address of a freed table comes back. `InsertRule` has four actions: the table takes the rule
(`InsertPlain`), its chain grows too long and is split into a table that exists (`InsertSplit`,
possibly the table itself) or a new one (`InsertSplitNew`), or no table takes the rule
(`InsertNewTable`, with `Relax`). The loop of a split is one step, because nothing can look
between its moves; when `hasChanged` comes out set is derived from the moves as a whole.
`hasChanged` of `DeleteRule` has no initial value, so the sort that follows is optional
whenever `Deletion` does not set it.

### IntervalTree, PartitionSort

A tree of intervals is a function from paths, the boxes passed, to trees: `count`, `chain_boxes`
and `priority_list` as in the struct. Its nodes are the paths that go one box further, so the
balancing of a level is left to `RedBlackTree` and a search finds the node it is after; everything the code
does between levels is there. `Unzip` unfolds a chain as far as two rules agree, with the lists
the code leaves in the trees between, `Collapse` walks down to the survivor and folds the chain
up again, `Passed` adjusts the counts on the way. `RBTreeCanInsert` compares points cut to
`IntBits` bits, as the code does; the rest compares them whole. `SortAssumption` asks of the rules
that the cut confuses no two of their ranges (`CutHarmless`: those that meet when cut meet, those
that are the same when cut are the same). Fields of up to 32 bits do, and so do MACs that are absent
(cut to all of `unsigned`), exact, or prefixes that their low bits tell apart.

`PartitionSort` keeps its trees by address, as `TupleMerge` does its tables. The order of the
fields of a new tree is any that sorts the ranks (`FieldOrders`, `std::sort`). A delete pops the
last entry of the vector and frees the tree `rule_tree_map` names. Reconstruction of small trees
is left out because it never changes one: its field selection works on partitions that only
`LightWeightedInterval::Push` could fill, which has no caller.

### RedBlackTree

One level of a tree of `IntervalTree`, by itself: `node` is the heap with the pointers and
colours of its nodes and of the two sentinels `Root` and `Nil`, `z`, `x`, `y` and `root` are the
locals of the running call. The boxes of a level are equal or disjoint (that is what
`RBTreeCanInsert` is for), so a key is the place of a box in that order and names its node; the
next level's tree, which hangs on the node, plays no part. `InsertNode` and `SpliceOut` begin a
call with its search; `InsertTurn` and `DeleteTurn` are one turn of a fix-up loop, both mirror
images in one with the side as a parameter; `Free` is the end of `RBDelete`, where the successor
takes the place of the node deleted. `Nil` is one node, as in the code, with a parent pointer of
its own. `Free` resets that pointer, since the next fix-up that begins at nil follows a splice
that writes it; otherwise it would only tell apart states that behave alike. Where the code reads
`x->parent` again after a rotation the model does too.

### CuckooMap, Containers

`CuckooMap` is the map of `cmap.cpp` under the tables of PSTSS and TupleMerge. A slot is a hash
and the chain of its nodes; its hash stays when the chain becomes empty. The code is written for
readers beside the one writer (this program has none) and says that every node can be found at
every moment (`cmap.cpp:916-917`), so an insert takes one step per `cmap_set_bucket`: `Place`
finds room at once, otherwise `FindPath` begins and `MoveBack` and `MoveEnd` go along the path,
or `NoPath` rehashes. `Search` is the breadth-first search with its order of slots and paths; its
limit of 500 paths is not modelled, which matters to tables of more nodes than the runs have. A
rehash (`Rehashed`) builds a table aside and is one step; `random_uint32` gives any of `Bases`,
and of the bases tried only the last, which succeeds, leaves a trace. `Rehash` stands for
`hash_finish`. `Delete` takes a node that `cmap_find` led to, as both callers do.

`Containers` puts `RedBlackTree`, `CuckooMap` and `PortTables` into one run: it chooses one of them
in `Init` and takes its steps. None knows of the others; what they share is their purpose, to
justify that other modules treat a level, a map and a node as sets.

### Comparison

The driver creates the classifier the command names and calls only that. `Comparison` chooses it
in `Init` and takes its module's steps, in any order of inserts, deletes and lookups in which no
stored rule is inserted and only stored ones are deleted; the driver's loop is one such order.
HybridTSS, whose construction is another matter, is run by itself.

### HybridTSS

The tree maps paths to nodes, where a path is the keys from the root and `BIG` for
`bigClassifier`. In mode `train` trees are built and freed one after another (`Trained`), in mode
`build` the one that is used. `Build` takes any node still to be built (the code takes them in
order, which nothing depends on) and any action `getAction` may choose: the table it looks into
holds numbers that are not modelled, so any hash action the node has left (`HashActions`). What
the table learns from, the rewards that leaves add to the nodes above them, is modelled. A leaf of
kind TM is a set of rules, which `TupleMerge` justifies; a linear leaf is a list, found by
`std::lower_bound` over ids that the program never sets (`Ids`). The leaf kind PSTSS, which
`getAction` never returns, is left out.

## 3. Runs

| run | shows | states |
|---|---|---|
| `hash_table` | invariants, refinement of `RuleStore`, every call returns; careless callers | 12,931 |
| `set_up` | rules mean what their lines say and give tuples the words packets are looked for by; packets are counted right; flow entries are right; the set-up ends | 114,338 |
| `wide_key` | a truncated key makes the delete of a stored rule fail (violation, section 6) | - |
| `rl_tuple` | all properties of `RLTuple`, refinement of `Classifier`; careless callers | 662,934 |
| `rl_session` | shapes legal, observations right, classifiers built and safe to measure, episodes end | 37,756 |
| `dynamic_tuple` | map, array and caches in step, refinement of `Classifier`, for 44 partitions | 39,756 |
| `partitioners` | ranges partition the grid, at least cost unless a sum was truncated; dimension-wise divisions never get worse; every rule in one bucket, sortable and chosen best by ranges cut to `unsigned` | 71,172 |
| `comparison` | PSTSS, TupleMerge and PartitionSort: lists in order, exact caches, sound trees, refinement of `Classifier` | 143,956 |
| `containers` | a level of an interval tree stays a balanced search tree, every call returns; a cuckoo map finds and counts every node; a node with port tables refines `RuleStore` and its lookups are exact | 302,924 |
| `wide_box` | a rule let into a tree whose boxes its own overlap (violation, section 6) | - |
| `hybrid_tss` | right answers of a newly built tree, and after every update if it has no list; bound on big rules; rewards | 58,488 |
| `hybrid_delete` | a delete in a list removes another rule (violation, section 6) | - |

Bounds. `HashTable`: six rules of four keys; the table starts with 2 buckets (32 in the code)
so that four nodes take it through two doublings, two keys share a hash and a third shares
their bucket until size 8; at most 2 rules per node for limited inserts (15 in the code), one
key has three rules so that the limit bites. Nothing else is bounded: the state space is
finite. `RLTuple`: two fields of two bits, three shapes (one field, two fields, a shape whose
first length is 0), four rules that fit them differently, one of them nothing but the default;
`Collide` 1 so that a second rule of a key is refused; `InitTuples` 1 so that the array grows;
`MaxTuples` bounds the calls of `addTuple`; `MaxDrift` bounds how many lost rules `rules_num`
may still count, as each careless delete may add some. Rules are not symmetric (their
priorities differ), so no symmetry is used. The history variable `strayed` of `MCRLTuple` says
whether a caller has deleted a rule that was not stored.

`RLTuple` has keys of two bits, as many as its longest shape asks for.

`RLSession`: two addresses of two bits and a third field of one, four rules, one of which only a
default tuple takes; keys of three bits, so that the guard on wide shapes refuses two whole
addresses, which the mask allows; observations of 2 tuples (15 in the code), so that tuples do not fit in one;
4 tuples, 2 drops and 4 commands end an episode (20, 4 and 30), each limit reached before the
others in some behaviour; `MaxPairs` 1 bounds the delete-insert pairs of a measurement.
`DynamicTuple`: every partition of the grid of two-bit lengths by cuts, four rules.
`DtRanges`: lengths up to 3 (32 in the code), every list of at most three of eight rules;
`CostBits` 5 (32 in the code), so that sums of costs are truncated for 228 of the 584 lists.
`DtDims`: dimensions of three, two and two bits, of which two are divided, every list of at most
three of seven rules; `Rounds` is the code's 100. `SortablePartitioner`: every subset of seven
rules over two fields, whose intervals nest, touch and end together, two rules alike; an `unsigned`
of two bits (32 in the code) and points of four in one field, so that the cut makes nested ranges
the same, lets disjoint ones meet, and leaves others as they are.
`SetUp`: an address of three bits, a port of two, an `in_port` of three, as wide as an `int` (32 in
the code); points of 5 bits (64), doubles of 4 (53); two of the ports given are sign-extended, and
one of these is rounded to 2^`PointBits`; 30 lines with and without
each of them, files of one line and of two; 1 or 5 packets asked for, so that there may be fewer
than rules; keys of four bits, less than the longest shape asks for.

`Comparison`: addresses of four bits, a port of two. `PSTSS`: five rules, two of them of one pair
of lengths. `PartitionSort`: four rules, two of equal ranges, one comparable to both, one to
neither; trees of one level to three, unfolded and folded in every order; `IntBits` 3, less than an
address has, so that the boxes of addresses are cut, harmlessly; `wide_box` has boxes that are
confused. `TupleMerge`: four rules; `collideLimit` 1 (10 in the code) so that two rules of one hash cause a split; splits
reach an existing table, a new one and the table itself, and some change no best priority.
`RedBlackTree`: ten keys, the fewest with which the fix-up of a delete climbs twice (with nine it
never stands at an inner black node); at most ten nodes, in every shape inserts and deletes reach.
`CuckooMap`: seven nodes of six hashes, one of them 0; buckets of 2 slots (5 in the code), hashes of
6 bits (32), two bases, chosen so that paths of two moves, failing paths, failing rehashes, growth to
8 buckets and shrinking to 2 all occur. `MaxDepth` is the code's 4.
`PortTables`: nine rules with every kind of ports, the limits 7 and 3 of the code.
`HybridTSS`: five rules, two fields of two bits, one or two of them hashed;
`Binths` 1 gives trees without lists, 4 trees with lists of up to three rules (8 in the
code); ids are 0 and 1. The space is finite without further bounds.

Fairness. `hash_table` assumes weak fairness of the steps of a running call (`Go`): the one
thread goes on with the call it is in. Nothing makes a caller call, so no call is fair.
`containers` assumes the same of the turns of an insert or delete in a level (`LevelTurn`).
`set_up` assumes weak fairness of the steps of a running program (`Work`); starting it is not
fair.
`rl_session` assumes weak fairness of the whole next step: the program's loop answers every
command, and the client's sends one whenever its mask allows any, with the next episode after the
last (`train.py`). Which command, and how the costs turn out, is left open. The
loops of the lookups run over a list that nothing changes meanwhile; no run asks whether they
end.

## 4. Properties worth a remark

* `TableSound`, `RulesPlaced`, `CountersExact`, `EstimateSound`, `SessionSound`, `RangesRight`,
  `LevelSound`, `MapSound`, `NodeSound`, `TuplesSound`, `TablesSound` and `TreesSound` are
  conjunctions of named parts, each with its own comment in its module; types are one of the parts.
* `NodeSound`: however often a node crosses its limits, each rule is in the one place where a
  delete looks; otherwise `hashnode.cpp:106` ends the program. `NodeSpec` says that the crossing
  is invisible: from outside the node is a set that loses its rules only to a failed delete.
* `RulesRight` compares computed ranges with what a line says. The value 0 is the hard case: an
  upper end of 0 means "not set" to `fillEmptyField`, and 0 is a legal port and protocol. A line
  whose `in_port` an `int` does not hold matches no packet at all.
* `TracesRight` holds for packets made and for packets read back, whichever way they are counted.
  That a packet matches its rule is claimed for exact lines: a sign-extended `in_port` is too long
  for a `double`.
* `MatchFindsNode` and `KeyDeterminesHash` are about exact lines too. With a sign-extended value the
  bitwise or of `tuple.cpp:41` spills over the values before it, and rules with one key may have two
  hashes however short the shape.
* `SetUpEnds` rests on a line of `main`: with fewer packets than rules `GenerateTraces` would add
  0 copies a turn for ever (mutant `AskedTraces`).
* `MegaFlowsRight` is why lookups count the bit that leaves the trie: an entry one bit shorter
  covers packets the rules tell apart (mutant `LookupPath`).
* `DimsRight`: the exit at "Wong" is never reached, since each dimension can keep the division it
  had; the cost found is the true cost of all divisions together, counted without the shortcuts.
* `BucketsRight`, `ChoiceBest`: what rounds drop and mark loses no rule, the order of the fields
  fits its bucket, and the back-trace returns the weight the sweep promised, all for ranges cut to
  `unsigned`. For the ranges themselves both are false (TLC finds a bucket of two nested prefixes),
  unless the cut is harmless.
* `MeasureSafe` (in `SessionSound`): a delete of a rule that was never inserted would leave a NULL
  that the next insert follows; a measurement never meets one.
* `ProbeExact`: `Hit` is the lookup's two nested scans with their early ends, for any priority
  the lookup arrives with and any set of matching rules; it equals the best matching stored rule.
* `MaxCovers` of `HashTable` holds with careless callers, `MaxExact` only with careful ones: a
  failed delete loses rules and leaves the cached maximum too high, which costs a probe and no
  answer. `MaxExact` is proved and not run; so is `DeleteFinds`, which `wide_key` refutes for keys
  that break its hypothesis.
* `MaxCovers` of `RLTuple` is weaker than one would expect: the delete that empties a tuple
  returns before it sets `max_priority` (`rltuple.cpp:252-262`), so it may stay too high.
  `DynamicTuple` does the same (`dynamictuple.cpp:204-212`).
* `CountersExactTillStray`, `EstimateSoundTillStray`: a careless delete loses rules that the
  counters still count, so both are claimed until the first one only.
* `EstimateExact`: the agent's reward charges each rule the number of tuples a lookup that ends
  with it probes. It is exact although `tuple_index1` is not reset inside a node.
* `TablesSorted` and `VectorSorted`: an update that changes no best priority skips the sort, a
  table emptied by a split stays with -1, and lookups end early all the same.
* `AssignmentExact` (in `TablesSound`): after splits, frees and reuse of addresses a delete still follows the entry
  of its rule to the one table that has it.
* `TreesSound`: whatever was inserted and deleted before, a tree is exactly the path compression
  of its rules (`Compressed`), and those rules are comparable (`Sortable`), which is what makes
  the query's first hit the only one.
* `Balanced` (in `LevelSound`) holds at every turn, not only between calls: while a delete is put right the paths
  through `x` count one black node more than they have. Where `x` is the shared nil its parent
  pointer says which leaf is meant, and a rotation that wrote it (`red_black_tree.cpp:89-97`)
  breaks the property. After the last rotation `x` is the root the fix-up saw when it began, which
  need not be the root any more; it is black then, so painting it black changes nothing.
* `MapSound` holds between the moves of an insert too. It depends on the order of the four attempts
  of `cmap_try_insert`: both buckets are asked for a slot of the hash before either gives an empty
  one, or the hash would come to be in two chains (mutant `PlacedBucketwise`).
* `CachesSound`: the bound on the big rules is never set again and stays right because a rule comes
  back where it was; the reward of a node counts each rule of a TupleMerge leaf below it once.
* `SessionSound` ties the two processes: what the mask allows keeps shapes legal, and the first
  slot of an observation is the client's current shape although the array is sorted by priority.
* `EpisodeEnds`: the limits end an episode whatever the agent does, and no reply leaves it without
  a command.
* `Partition` (in `RangesRight`) holds with truncated sums too, and discharges the assumption of `DynamicTuple`;
  `RangesRight` compares with the definition of least cost, which trimming and copying of entries
  do not visibly follow.
* `EstimateDefined`: empty tuples have an occupation of 0/0; no rule's estimate reaches one.

## 5. Proofs

Each component's theorems hold for every value of its constants that satisfies the assumption named
in its module. They all have one form: an inductive invariant `Inv` that joins the properties with
what makes them inductive, one lemma per action that it is kept (under it one step per conjunct the
action disturbs), a lemma that `Inv` gives the properties, a lemma that every step of the program is
a step or a stutter of `RuleStore` or `Classifier`.

**`HashTable_proofs`.** If rules with the same key have the same hash (`KeyDeterminesHash`) then
`Inv` holds throughout, for every rule set, key and hash assignment, initial size and limit. It joins
the properties with what ties them together: during a doubling the new chains, the old chains and
the hand hold disjoint sets of keys, the number of nodes still to move is bounded by the room left
(so the test for a full table cannot fire again), and at `finish` the rule just inserted is stored
and its node is linked. The key lemmas say what `Put` and `Cut` do to a chain, and are stated once
for nodes and once for rules. `Probe` rests on the order of chains: the node of a key is met before
the scan of the bucket gives up, and the first rule of its list that matches is the best (`MaxInv`
adds the cached maximum). `KeyDeterminesHash` is a hypothesis and not an assumption of the module,
because the code does not guarantee it: section 6. Run `set_up` checks when it holds.

**`RLTuple_proofs`, the classifier.** With careless callers too: the types, `ArraySorted`,
`RulesPlaced`, `MaxCovers`, `ScanExact`, the refinement. `SameKey` shows that a rule that fits a
shape has the key of every packet it matches, so a probe (`Hits`) finds what the tuple holds that
matches (`HitsExact`). The properties need three facts beside them in `Inv`: entries of rules that
are not stored name tuples the rules fit (`EntryFits`), since a rule may come back; each tuple's
`max_priority` is at least that of its rules (`HeapCovers`), which is all a failed delete leaves of
exactness and all a sorted array needs; and the counters are no smaller than the sets they count,
so that an emptied tuple is really empty. All of it is for shapes that fit the key and rules whose
values fit their fields (`ClassifierAssumption`), where a table is a set; the refinement says nothing
of a classifier with a wider shape.

**`RLTuple_proofs`, the estimate.** Until a caller strays, `NumbersExact` is inductive with `Inv`:
the counters are the sizes of the sets and a tuple's `max_priority` is the best of its rules.
`Walked` is what a lookup knows of the tuples behind it: each was better than every match
found before it. `EstimateIs` says that the number the estimate gives a rule is the length of the
run of tuples better than it, although `tuple_index1` is carried from rule to rule of a node; the
run of a lookup that ends with the rule is the same one. `TillStray == Inv /\ Walked /\ (strayed \/
NumbersExact)` is the invariant. The module extends `MCRLTuple` for the variable `strayed` only; none
of that module's values for the constants is used.

**`RLTuple_proofs`, the session.** `SessionInv` is `Inv`, `NumbersExact` and, of the session, its
types, `ShapesComposed` (every shape met is made of legal one-field and two-field shapes, whose length
is at most the field's), `LimitsKept` and `OnTrack` (what is left to add or insert, with what was
added, is the whole; the rule taken out is the one that a measurement puts back). The mask is what
makes it inductive: `CommandLegal` shows that any command it allows leads to a legal shape,
`CommandExists` that it allows one unless the episode is over, each for commands that lead to a shape
that fits the key. `SessionAssumption` asks that one field fits and leaves room for another, as in the
code, whose widest field has 48 bits and whose narrowest 3. TLC checked `SessionInv` on
`rl_session` before it was proved.

**`DynamicTuple_proofs`.** For every partition `Range`: `Inv` says that array and map list the same
keys, none empty, in descending order of exact priorities, that a rule is in the tuple of its range,
and that a lookup has the best match of the tuples behind it. A delete that empties a tuple erases by
index, and `EraseLists` says that the array still lists the others once each, in order.

**`PSTSS_proofs`, `TupleMerge_proofs`.** Both begin with facts about one table (its cached
best through `Insertion` and `Deletion`; no match is outside the chain of its hash) and about a
descending list of tables (a lookup may stop at the first that is no better). `PSTSS`
adds that a key determines its lengths, `TupleMerge` that tables have distinct lengths, none longer
than their rules', and that an assignment names the table. A split is proved in two halves, what
leaves the table and what the target gets, with the address of the target open: it may be the table
itself. Each assumption on `Hash` is the one the code gives: a rule and its packets have one hash.

**`PartitionSort_proofs`.** `IsTree(t, S, o)` says that `t` is the path compression of the rules in
`S` in the field order `o`: its paths are those along which two rules or more go and the first of
each rule alone, and each node `Holds` what its rules ask for. A tree is determined by its set of
rules but for the lists of inner nodes, which no query reads. The main lemmas are that
`RBTreeInsert` leads from the tree of `S` to one of `S \cup {r}` (`InsertTree`) and `RBTreeDelete`
back (`DeleteTree`), whatever the rest of the rules: an insert ends where the way stops, where it
forks from the chain of a single rule (`Unzip`) or where a node gets one more child; a delete is one
of these turned round, `Collapse` finding the one end that is left (`LastIs`). `CanInsertApart`
shows that what `RBTreeCanInsert` accepts stays comparable, and `QueryExact` that comparable rules
have one end at most in which the query's points lie, so it returns the best match of the tree. On
top of them `SortInv` is what the other classifiers have too: the trees are right and not empty,
the vector lists each once in descending order, `rule_tree_map` names the tree of a stored rule, and
a lookup has the best match of the trees behind it. `EmptiedLast` is why `pop_back` after the sort
removes the tree that was emptied. `SortAssumption` is a hypothesis: priorities differ, and the cut to
`unsigned` confuses no two ranges of the rules (`CutHarmless`; section 6 shows what happens when it
does). It bounds no value: rules with absent MACs, whose top is 2^48 - 1, meet it, as do rule sets
over addresses and ports whatever they are.

**`Comparison_proofs`, HybridTSS.** For every rule set, choice of fields and bits, hash of a key,
`binth` and ids, under `TreeAssumption` (finitely many fields; child numbers are naturals, which tells
them from `BIG`) and `TableAssumption` (finitely many rules, whose priorities differ). `TreeInv` is the invariant (`TreeInvariance`; TLC checked it on the 58,488 states
of `hybrid_tss` first). It says of any tree `N`, in parts that the lemmas use for the tree before
and after a step:

* `Shape(N)`: every path goes through hash nodes and uses a field once; `LeadTo(N, p)`, the rules
  that `Step` sends along `p`, have at each hash node the child they need; a hash node's
  `maxBigPriority` is the best priority of the rules it sends to `bigClassifier`, a leaf's is -1;
* `RulesKept(N)`: a node that is not a list has exactly the rules that lead to it, best first; a
  list, in which a delete may hit the wrong entry, has some of them and no others;
* `Rewards(N)`: what `CachesSound` says of rewards, in every state of the construction;
* `Stores(N, stored)`: in the tree that is used a TupleMerge leaf has the stored rules that lead to it.
  Before the first update lists are exact, too (`New`).

No node sends a rule two ways, so a rule leads to one leaf (`LeafOnce`), and an update touches just
the leaf a lookup will ask. `TreeCovers` follows: what is held below `bigClassifier` led there, and
the bound is about all rules that do, stored or not. Construction is the larger part: a hash node's
children share out its rules (`Sublist` keeps the order, so lists are best first), and a TupleMerge
leaf adds its rules to the `Merged` ones of exactly the nodes above it.

A lookup is a recursive function on the nodes, and no induction over data is to be had. But a path is
no longer than there are fields, so the least number stands in for it, twice. `AnswerExists`: the
equations of the recursion have a solution on the nodes at most `n` levels above the deepest, for every
`n`, since for the least `n` without one the right answers of the children would give one.
`AnswerRight`: any solution is right, since a deepest node at which it is wrong would have right
children, and they make its answer right (`AnswerGood`): the child and `bigClassifier` hold all that
can match, and a `bigClassifier` that is skipped has nothing better. `OwnLeaf` is the leaf.
`TreeClassifiesRight` applies this to any tree without lists, `TreeBuildRight` to the state in
which the last node has been built (`LastBuilt`).

**`Comparison_proofs`, the driver.** The driver creates each classifier with a rule set of its choice
and calls it. The theorems about the classifiers are instantiated with those rules (`SP`, `SM`, `SS`), their
assumptions follow from `ComparisonAssumption`, and each step of the driver is a step or a stutter of
the classifier that was asked for (`Tuples`, `Tables`, `Trees`). `Classifies` joins their
refinements: whichever method was asked for, the driver implements `Classifier`. Most of this
says that `Space`, `Merge` and `Sort` define the same as `SP`, `SM` and `SS`.

**`ListLemmas`.** `Lists(arr, D)` says that `arr` names each element of `D` once: what sorting,
appending and erasing do to that. That finite sets have a best rule is proved from the library's
well-foundedness of the subset order (`SomeBest`).

Only model-checked:

* liveness: `CallReturns`, `EpisodeEnds`, `SetUpEnds`; fairness and `ENABLED` are out of
  the prover's reach;
* `LevelSound`, `MapSound`, `NodeSound` and the other properties of `containers`: `RedBlackTree` rests on
  a recursive definition of its order, `CuckooMap` on a recursive search, `PortTables` on folds over
  lists, which take an operator as a parameter;
* `RulesRight`, `MegaFlowsRight` and what else `SetUp` says of prefixes, which are laws of powers of
  two and need induction over the number of bits; `MatchFindsNode` and `TracesRight` rest on them;
* `RangesRight`, `DimsRight`, `BucketsRight`, `ChoiceBest`: least costs and best choices are about
  recursive definitions;
* the search of a linear leaf by ids, of which `DeleteRemoves` is false (section 6); all the proofs
  need of `std::lower_bound` is that it returns a position of the list or its end.

## 6. Findings

`wide_key`: a shape on two MAC fields asks for 96 bits of key in a `uint64_t`
(`tuple.cpp:41, 59, 91`). The high bits of the first value are shifted out; the hash still
mixes them. Two rules can then have one key and two hashes. They share a node while the hashes
share a bucket, and after a doubling the delete of one of them looks in another bucket and
reports "Wrong: No such hash_node" (`hashtable.cpp:126`). The agent's masks allow the shape
(`RL/tuplegym.py`, two fields of ten), and 32 + 48 bits (`in_port` and a MAC) suffice.

`hybrid_delete`: a linear leaf looks for the rule to delete with `std::lower_bound` on
`PSRule::id` (`SubHybridTSS.cpp:226-233`) and erases the entry found without comparing. Nothing
sets the ids of the rules the comparison driver makes (`ps-io.cpp:9-18`), and lists are in order
of priority. A delete then takes another rule out of the list, or prints "Not found rule"
(`SubHybridTSS.cpp:235`) for a rule that is there. After it, lookups may be wrong, which is why
`BuildRight` looks at trees with lists before their first update only.

`wide_box`: `RBTreeCanInsert` compares the points of boxes as `unsigned`
(`red_black_tree.cpp:175-180`), so two MAC prefixes such as `00:1A:2B/24` and `00:3C:2B/24` count
as identical and their rules as comparable. The insert compares all 64 bits, finds a fork at
boxes that `IsIntersect` calls overlapping, prints "Warning not intersect?" and exits
(`red_black_tree.cpp:434-445`), or, when the fork is at the first field of the order, goes round
for ever in `TreeInsertHelp` (`red_black_tree.cpp:668-670`).

Three further consequences of conversions the properties are stated around; nothing in the repository
says otherwise of them, so no run has them as a violation:

* The offline partitioners cut ranges to `unsigned` too, before they compare anything. Nested prefixes
  of a MAC of at most 16 bits, a /8 and a /16, both become the whole of `unsigned`, count as
  identical, and a bucket with both passes `IsBucketReallySortable` although no tree can hold them in
  that order. No run of the program calls the partitioners.
* A line with `in_port` of 2^31 or more makes a rule no packet matches (`io.cpp:171-173`), whose value
  spills over others in a key and is rounded in the packet `GenerateTraces` makes for it
  (`io.cpp:571`). It may even round to 2^64, whose conversion to `uint64_t` is undefined.
* The agent's masks allow shapes wider than a key (`wide_key`), so a measurement may fail to delete
  rules it then inserts again. `RLSession` leaves those commands out.

## 7. Plan

Done: `HashTable`, `TupleKey`, `RLTuple` and their proofs; `RLSession`, `DynamicTuple`,
`DtRanges`; the classifiers of the comparison, each refining `Classifier`, and `HybridTSS`;
`RedBlackTree`, `CuckooMap`, `PortTables`; `RuleReader`, `SetUp`, `MegaFlow`; `DtDims` and
`SortablePartitioner`.

Proved: everything the runs check of `HashTable`, `RLTuple`, `RLSession`, `DynamicTuple` and
`Comparison` (so of `PSTSS`, `TupleMerge`, `PartitionSort` and `IntervalTree`) that is not liveness,
and everything `hybrid_tss` checks.

Left open: the lookup of `SetUp` (`MatchFindsNode`, `TracesRight`), for which the laws of prefixes
would have to be proved by induction over bits; the partition of the grid in `DtRanges`, whose
ranges are read back from a recursive table.

### Not modelled

* How lines are cut into words, printing, wording, measuring and arrival times; `GenerateAns`,
  which counts; the thresholds of `getImportantFiled`, which have no effect (every branch adds the
  choice, `io.cpp:94-103`).
* An empty rule file: `GenerateTraces` would divide by the number of rules (`io.cpp:565, 568`) if
  packets are asked for. Files of the model have a line.
* Command 3 of a session, which measures the classifier of the moment (`main.cpp:283-288`): the
  client of the repository never sends it. After a reset it would build and free a classifier that
  the session goes on using.
* A delete in PSTSS or TupleMerge of a rule that is not stored: the driver never does it.
* More than a few thousand intervals that end at one point: the perturbation of
  `MWISIntervals` adds 0.0001 for each, and 10,000 of them reach the next value.
* The Fast variants of the partitioners, whose intervals nothing fills
  (`LightWeightedInterval::Push` has no caller); `AdaptiveIncrementalInsertion` and
  `ComputeMaxIntersection`, which have no caller either; `ReducePreTupleRanges`, which gets an
  empty list.
* The network, its training and the numbers HybridTSS learns; the offline trace generator, which
  samples at random; the generator of attack traces, which has no caller; plots and the build.
