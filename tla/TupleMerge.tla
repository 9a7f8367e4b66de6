----------------------------- MODULE TupleMerge -----------------------------
(***************************************************************************)
(* TupleMergeOnline (partitionsort/TupleMerge): tables in descending order *)
(* of best priority; a rule goes to the first one that is no more specific *)
(* than it.  When the rules of its hash grow too many, a table with longer *)
(* prefixes takes over all rules of the table that fit there.              *)
(*                                                                         *)
(* A pointer to a table is a member of Nat, and the allocator may give the *)
(* address of a freed table to the next one.  Dimify drops a field that no *)
(* rule can have in a table: a port has at most 16 bits and a protocol 8,  *)
(* so only the address fields are ever hashed; one of length 0 hashes      *)
(* alike for all, which is what dropping it does.                          *)
(*                                                                         *)
(* Callers delete only rules that are stored and insert only others, as    *)
(* PerformOnlyPacketClassification does (Simulation.cpp:179-182).          *)
(***************************************************************************)
EXTENDS PrefixTable

CONSTANTS
  collideLimit,     \* 10 in the code
  deltaThreshold,   \* 4: Relax drops the field that is so much shorter
  Quarter           \* 8: Relax takes a bit off for each so many bits of a prefix

MergeAssumption ==
  /\ collideLimit \in Nat
  /\ deltaThreshold \in Nat
  /\ Quarter \in Nat \ {0}

VARIABLES
  table,        \* the live tables by address
  tables,       \* their addresses, in the order of the vector
  assignments,  \* for each rule that has an entry, the address of its table
  scan,         \* the lookup in progress, or NoScan
  answer        \* the packet and the result of a lookup, until the next update

vars == <<table, tables, assignments, scan, answer>>
store == <<table, tables, assignments>>

NoScan == [packet |-> <<>>, q |-> 0, prior |-> 0]

Stored == UNION {table[t].rules : t \in DOMAIN table}

Init ==
  /\ table = [t \in {} |-> NewTable([f \in Indexed |-> 0])]
  /\ tables = <<>>
  /\ assignments = [r \in {} |-> 0]
  /\ scan = NoScan
  /\ answer = <<>>

\* where the next table is allocated
Address == CHOOSE a \in 1 .. Cardinality(DOMAIN table) + 1 : a \notin DOMAIN table

\* CanInsert, for a table of lengths len
CanInsert(len, r) == \A f \in Indexed : len[f] <= PrefixLen[r][f]

----------------------------------------------------------------------------
(***************************************************************************)
(* InsertRule into a table that takes the rule.                            *)
(***************************************************************************)

\* the first table of the list that r can go to; 0 when there is none
FirstTable(r) ==
  LET fit == {i \in DOMAIN tables : CanInsert(table[tables[i]].lengths, r)}
  IN  IF fit = {} THEN 0 ELSE tables[CHOOSE i \in fit : \A j \in fit : i <= j]

\* the rules NumCollisions counts and Collisions returns
Collisions(T, r) == Chain(T, HashRule(r, T))

\* BestTuple and superTuple, over all fields
Least(S, f) == CHOOSE l \in {PrefixLen[r][f] : r \in S} : \A r \in S : l <= PrefixLen[r][f]
Greatest(S, f) == CHOOSE l \in {PrefixLen[r][f] : r \in S} : \A r \in S : l >= PrefixLen[r][f]
Delta(S, f) == Greatest(S, f) - Least(S, f)

\* bestD: the first field in which the rules differ most
BestField(S) ==
  CHOOSE f \in Fields : \A g \in Fields : /\ Delta(S, g) <= Delta(S, f)
                                          /\ g < f => Delta(S, g) < Delta(S, f)

\* compatTuple, half-way up in the field bestD
SplitLengths(S) ==
  [f \in Indexed |-> IF f = BestField(S) THEN (Greatest(S, f) + Least(S, f)) \div 2
                                         ELSE Least(S, f)]

\* the rules GetRules returns that the target takes
Moved(T, len) == {q \in T.rules : CanInsert(len, q)}

\* the deletions and insertions of the move, in any order
Lighten(T, S) ==
  [T EXCEPT !.rules = @ \ S,
            !.maxPriority = IF T.rules \subseteq S THEN -1 ELSE Top(T.rules \ S)]
Take(T, S) ==
  [T EXCEPT !.rules = @ \cup S, !.maxPriority = IF Top(S) > @ THEN Top(S) ELSE @]

Assign(S, t) ==
  assignments' = [q \in DOMAIN assignments \cup S |-> IF q \in S THEN t ELSE assignments[q]]

\* sorts the list by the tables the step leaves
Resort(list) == tables' \in Sorted(table', list)

\* r is now in table t and its hash has no more than collideLimit rules
InsertPlain(r, t) ==
  LET h == [table EXCEPT ![t] = Insertion(@, r)] IN
  /\ Cardinality(Collisions(h[t], r)) <= collideLimit
  /\ table' = h
  /\ Assign({r}, t)
  /\ IF Prio[r] > table[t].maxPriority THEN Resort(tables) ELSE UNCHANGED tables

\* the tables after the rules in S went from t, which is T, to target
Parted(t, T, S, to, target) ==
  [a \in DOMAIN table \cup {to} |->
     IF a = t THEN Lighten(T, S) ELSE IF a = to THEN Take(target, S) ELSE table[a]]
Reassign(r, t, S, to) ==
  assignments' = [q \in DOMAIN assignments \cup {r} |->
                    IF q \in S THEN to ELSE IF q = r THEN t ELSE assignments[q]]

\* mutant: the moved rules keep their assignments
MoveUnassigned(r, t, T, new, to, target) ==
  /\ table' = Parted(t, T, Moved(T, target.lengths), to, target)
  /\ Assign({r}, t)
  /\ Resort(IF new THEN Append(tables, to) ELSE tables)

(***************************************************************************)
(* The split of table t, which is T with r in it: the rules that fit go to *)
(* the table at address "to", new or not.  hasChanged is set when r was    *)
(* the best of T, when a deletion takes T's best or last rule, and when an *)
(* insertion raises the best of the target.                                *)
(***************************************************************************)
Move(r, t, T, new, to, target) ==
  LET S == Moved(T, target.lengths)
      list == IF new THEN Append(tables, to) ELSE tables
      hasChanged == \/ Prio[r] > table[t].maxPriority
                    \/ Lighten(T, S).maxPriority # T.maxPriority
                    \/ Top(S) > target.maxPriority
  IN  /\ table' = Parted(t, T, S, to, target)
      /\ Reassign(r, t, S, to)
      /\ IF hasChanged THEN Resort(list) ELSE tables' = list

\* FindOrMake finds a table; it may be t, then nothing moves
InsertSplit(r, t) ==
  LET T == Insertion(table[t], r)
      len == SplitLengths(Collisions(T, r))
      same == {i \in DOMAIN tables : table[tables[i]].lengths = len}
      to == tables[CHOOSE i \in same : \A j \in same : i <= j]
  IN  /\ Cardinality(Collisions(T, r)) > collideLimit
      /\ same # {}
      /\ IF to # t THEN Move(r, t, T, FALSE, to, table[to])
         ELSE /\ table' = [table EXCEPT ![t] = T]
              /\ Assign({r}, t)
              /\ IF Prio[r] > table[t].maxPriority
                 THEN Resort(tables) ELSE UNCHANGED tables

\* FindOrMake makes one
InsertSplitNew(r, t) ==
  LET T == Insertion(table[t], r)
      len == SplitLengths(Collisions(T, r))
  IN  /\ Cardinality(Collisions(T, r)) > collideLimit
      /\ \A a \in DOMAIN table : table[a].lengths # len
      /\ Move(r, t, T, TRUE, Address, NewTable(len))

----------------------------------------------------------------------------
(***************************************************************************)
(* InsertRule that makes a table.                                          *)
(***************************************************************************)

\* the end of Relax: with 32 bits and quarters of 8, 1 .. 3 bits less in the
\* second to the last quarter and 4 less at full length
Shorten(len, f) ==
  IF len = 0 THEN 0
  ELSE IF len = Width[f] THEN len - ((len - 1) \div Quarter + 1)
  ELSE len - (len - 1) \div Quarter

Relax(r) ==
  LET delta == PrefixLen[r][0] - PrefixLen[r][1]
      kept == [f \in Indexed |-> IF \/ f = 0 /\ -delta > deltaThreshold
                                    \/ f = 1 /\ delta > deltaThreshold
                                 THEN 0 ELSE PrefixLen[r][f]]
  IN  [f \in Indexed |-> Shorten(kept[f], f)]

InsertNewTable(r) ==
  LET h == [a \in DOMAIN table \cup {Address} |->
              IF a = Address THEN Insertion(NewTable(Relax(r)), r) ELSE table[a]]
  IN  /\ table' = h
      /\ Assign({r}, Address)
      /\ Resort(Append(tables, Address))

InsertRule(r) ==
  /\ scan = NoScan /\ r \notin Stored
  /\ LET t == FirstTable(r) IN
     \/ t # 0 /\ (InsertPlain(r, t) \/ InsertSplit(r, t) \/ InsertSplitNew(r, t))
     \/ t = 0 /\ InsertNewTable(r)
  /\ answer' = <<>>
  /\ UNCHANGED scan

----------------------------------------------------------------------------
(***************************************************************************)
(* DeleteRule.  hasChanged is not initialised: when Deletion does not set  *)
(* it, the tables may be sorted or not.                                    *)
(***************************************************************************)
\* the list without its entry a: tables.erase(find(...))
Erased(list, a) ==
  LET n == CHOOSE i \in DOMAIN list : list[i] = a
  IN  [i \in 1 .. Len(list) - 1 |-> IF i < n THEN list[i] ELSE list[i + 1]]

DeleteRule(r) ==
  /\ scan = NoScan /\ r \in DOMAIN assignments
  /\ LET t == assignments[r]
         T == Deletion(table[t], r)
         gone == T.rules = {}
         list == IF gone THEN Erased(tables, t) ELSE tables
     IN  /\ table' = IF gone THEN [a \in DOMAIN table \ {t} |-> table[a]]
                     ELSE [table EXCEPT ![t] = T]
         /\ \/ Resort(list)
            \/ ~DeletionChanges(table[t], r) /\ tables' = list
  /\ assignments' = [q \in DOMAIN assignments \ {r} |-> assignments[q]]
  /\ answer' = <<>>
  /\ UNCHANGED scan

----------------------------------------------------------------------------
(***************************************************************************)
(* ClassifyAPacket, one step for each table probed.  The variant that      *)
(* counts accesses goes on to the end of the list, past tables that cannot *)
(* improve the answer.                                                     *)
(***************************************************************************)
ClassifyStart(p) ==
  /\ scan = NoScan
  /\ scan' = [NoScan EXCEPT !.packet = p]
  /\ UNCHANGED <<store, answer>>

NextTable == table[tables[scan.q + 1]]

ScanOver == scan.q < Len(tables) => NextTable.maxPriority <= scan.prior

ClassifyProbe ==
  /\ scan # NoScan /\ ~ScanOver
  /\ LET result == FindMatchPacket(NextTable, scan.packet) IN
     scan' = [scan EXCEPT !.q = @ + 1, !.prior = IF result > @ THEN result ELSE @]
  /\ UNCHANGED <<store, answer>>

ClassifyEnd ==
  /\ scan # NoScan /\ ScanOver
  /\ answer' = <<scan.packet, scan.prior>>
  /\ scan' = NoScan
  /\ UNCHANGED store

Next == \/ \E r \in Rules : InsertRule(r) \/ DeleteRule(r)
        \/ \E p \in Packets : ClassifyStart(p)
        \/ ClassifyProbe \/ ClassifyEnd

Spec == Init /\ [][Next]_vars

----------------------------------------------------------------------------
(***************************************************************************)
(* Properties.                                                             *)
(***************************************************************************)

\* Types of the members (TupleMergeOnline.h:81-82); the vector lists every live
\* table once and no freed one.
TypeOK ==
  /\ \A t \in DOMAIN table : t \in Nat /\ table[t] \in Table
  /\ tables \in Seq(DOMAIN table)
  /\ Elements(tables) = DOMAIN table /\ Len(tables) = Cardinality(DOMAIN table)
  /\ DOMAIN assignments \subseteq Rules
  /\ scan = NoScan \/ scan \in [packet : Packets, q : 0 .. Len(tables), prior : Nat]

\* The rules that have an assignment are the stored ones, and it names the one
\* table, not yet freed, that has the rule: also when a split moved the rule,
\* after a table was freed and at the address of one (TupleMergeOnline.cpp:144,
\* 154, 228).
AssignmentExact ==
  /\ DOMAIN assignments = Stored
  /\ \A t \in DOMAIN table : \A r \in table[t].rules : assignments[r] = t

\* The vector descends, although splits and deletes sort it only when they
\* think it necessary: the early end of a lookup (l.106) rests on it.
TablesSorted == Descends(table, tables)

\* Each table caches the best priority it holds, -1 when a split emptied it.
TablesExact ==
  \A t \in DOMAIN table : table[t].maxPriority = Top(table[t].rules)

\* A stored rule fits its table, and no two tables have the same lengths, so
\* the split finds the table it would make (FindOrMake).
TablesDistinct ==
  /\ \A t \in DOMAIN table : \A r \in table[t].rules : \A f \in Indexed :
       table[t].lengths[f] <= PrefixLen[r][f]
  /\ \A t, u \in DOMAIN table : table[t].lengths = table[u].lengths => t = u

\* During a lookup the best match so far is that of the tables probed, and when
\* the lookup ends early nothing better is left (TupleMergeOnline.cpp:102-116).
Best(S) == IF Top(S) = -1 THEN 0 ELSE Top(S)
Probed == UNION {table[tables[i]].rules : i \in 1 .. scan.q}
ScanExact ==
  scan # NoScan =>
    /\ scan.prior = Best({r \in Probed : Matches(r, scan.packet)})
    /\ ScanOver => scan.prior = Best({r \in Stored : Matches(r, scan.packet)})

\* The structure lookups and splits rest on.
TablesSound == TablesSorted /\ TablesExact /\ TablesDistinct /\ ScanExact

\* TupleMerge implements the classifier: a split moves rules and loses none.
Abstract == INSTANCE Classifier WITH stored <- Stored
ClassifierSpec == Abstract!Spec
=============================================================================
