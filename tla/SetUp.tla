-------------------------------- MODULE SetUp --------------------------------
(***************************************************************************)
(* What main() (main.cpp:459-511) does before the first classifier is      *)
(* built: it reads the rules, and makes the packets of the run from them   *)
(* or reads the packets an earlier run of the program saved.  Files stay   *)
(* when the program ends; everything else starts again.                    *)
(*                                                                         *)
(* Left out: the shuffle of the rules (main asks for none), the choice of  *)
(* important fields, the arrival times, and files that are empty.          *)
(***************************************************************************)
EXTENDS Integers, Sequences, FiniteSets, FiniteSetsExt

CONSTANTS
  Fields, Width, Kind, IntBits, PointBits,   \* of RuleReader
  FlowFields, PortFields, WordBits,  \* of MegaFlow
  KeyBits, HashBits, Hash32_2(_, _), \* of TupleHash
  DoubleBits, \* 53, the bits of a double that count
  Lines,      \* the lines a rule file may have, each a number
  Text,       \* Text[l]: what line l says, see RuleReader
  Files,      \* rule files: sequences of lines
  Packets,    \* functions from Fields to values
  Shapes,     \* shapes of tuples
  TraceNums,  \* values of the argument t
  Copies      \* what MyPareto may return

Reader == INSTANCE RuleReader
Flow == INSTANCE MegaFlow

\* the words a tuple computes from the rules of all lines
LineRule == [line \in Lines |-> Reader!RuleOf(Text[line], 0)]
LineLo == [line \in Lines |-> LineRule[line].lo]
LineHi == [line \in Lines |-> LineRule[line].hi]
LinePrefixLen == [line \in Lines |-> LineRule[line].prefix_len]
ExactLines == {line \in Lines : Reader!Exact(Text[line])}
Words == INSTANCE TupleHash WITH
           Rules <- ExactLines, Lo <- LineLo, Hi <- LineHi, PrefixLen <- LinePrefixLen

(***************************************************************************)
(* PrefixAssumption is what modules Prefix and TupleKey, and through them  *)
(* the classifiers, ask of the rules, and ValueFits what RLTuple asks:     *)
(* here both are computed from the lines whose values survive the int.  A  *)
(* value that does not has more bits than its field, and would spill in a  *)
(* key over the values before it.                                          *)
(***************************************************************************)
ASSUME SetUpAssumption ==
  /\ Reader!ReaderAssumption /\ Flow!FlowAssumption
  /\ Words!PrefixAssumption /\ Words!KeyAssumption
  /\ \A line \in ExactLines, f \in Fields : Words!ValueFits(line, f)
  /\ Files \subseteq Seq(Lines) /\ \A file \in Files : file # <<>>
  /\ \A line \in Lines : \A f \in DOMAIN Text[line] :
       /\ Kind[f] = "range" => Text[line][f].lo \in 0 .. Reader!Top(f)
                               /\ Text[line][f].hi \in 0 .. Reader!Top(f)
       /\ Kind[f] = "value" => Text[line][f].value \in 0 .. Reader!Top(f)
  /\ DoubleBits \in Nat /\ \A f \in Fields : Width[f] < DoubleBits
  /\ TraceNums \subseteq Nat

VARIABLES
  file,               \* the rule file
  saved,              \* the trace file next to it; <<>> when there is none yet
  pc,
  args,               \* the arguments t, d and p of this run
  priority,
  rules,
  trace_num,
  traces,
  index,              \* of GenerateTraces, modulo rules_num
  rule_distribution

vars == <<file, saved, pc, args, priority, rules, trace_num, traces, index,
          rule_distribution>>

Init ==
  /\ file \in Files /\ saved = <<>>
  /\ pc = "off"
  /\ args = [t |-> 0, pareto |-> FALSE, saved |-> FALSE]
  /\ priority = 0 /\ rules = <<>> /\ trace_num = 0 /\ traces = <<>> /\ index = 0
  /\ rule_distribution = <<>>

FromScratch ==
  /\ pc' = "count"
  /\ priority' = 0 /\ rules' = <<>> /\ trace_num' = 0 /\ traces' = <<>> /\ index' = 0
  /\ rule_distribution' = <<>>
  /\ UNCHANGED <<file, saved>>

\* the program starts, without a trace file
Start ==
  /\ pc = "off"
  /\ args' \in [t : TraceNums, pareto : BOOLEAN, saved : {FALSE}]
  /\ FromScratch

\* and once more, with the trace file it has saved
StartAgain ==
  /\ pc = "run"
  /\ args' = [args EXCEPT !.saved = TRUE]
  /\ FromScratch

----------------------------------------------------------------------------
(***************************************************************************)
(* ReadRules reads the file twice: for its length, and for the rules.      *)
(***************************************************************************)
CountLines ==
  /\ pc = "count"
  /\ priority' = Len(file)
  /\ pc' = "read"
  /\ UNCHANGED <<file, saved, args, rules, trace_num, traces, index, rule_distribution>>

ReadLine ==
  /\ pc = "read" /\ Len(rules) < Len(file)
  /\ rules' = Append(rules, Reader!RuleOf(Text[file[Len(rules) + 1]], priority))
  /\ priority' = priority - 1
  /\ UNCHANGED <<file, saved, pc, args, trace_num, traces, index, rule_distribution>>

\* mutant: as many packets as were asked for
AskedTraces(t) == t

\* at least one packet for every rule
EnoughTraces(t) == Max({t, Len(rules)})

RulesRead ==
  /\ pc = "read" /\ Len(rules) = Len(file)
  /\ trace_num' = EnoughTraces(args.t)
  /\ pc' = IF args.saved THEN "load" ELSE "generate"
  /\ UNCHANGED <<file, saved, args, priority, rules, traces, index, rule_distribution>>

----------------------------------------------------------------------------
(***************************************************************************)
(* GenerateTraces, one turn of its loop: copies of the packet in the       *)
(* middle of the next rule.                                                *)
(***************************************************************************)
\* the double nearest to x, of two the one whose last bit is 0
Double(x) ==
  LET unit == 2 ^ Min({e \in 0 .. PointBits : x < 2 ^ (DoubleBits + e)})
      whole == x \div unit
      rest == 2 * (x % unit)
      up == rest > unit \/ (rest = unit /\ whole % 2 = 1)
  IN  (IF up THEN whole + 1 ELSE whole) * unit

\* what the conversion of 2 ^ PointBits may leave, which C++ does not define
Undefined == {0, 2 ^ PointBits - 1}

\* computed in double; only the low end of a rule that is not exact is too long for one
Middle(rule, undefined) ==
  LET point(f) == Double(rule.lo[f]) + (rule.hi[f] - rule.lo[f]) \div 2
  IN  [key |-> [f \in Fields |-> IF point(f) < 2 ^ PointBits THEN point(f) ELSE undefined],
       rule_id |-> rule.priority]

Wanted == IF args.pareto THEN Copies ELSE {trace_num \div Len(rules)}

\* a number that is too large for an int comes out negative, and counts as large
Capped(copies, left) == IF copies \in 0 .. left THEN copies ELSE left

Repeat(x, n) == [i \in 1 .. n |-> x]

\* mutant: the count of a rule starts again when its turn comes again
CountAfresh(dist, id, n) == [i \in DOMAIN dist \cup {id} |-> IF i = id THEN n ELSE dist[i]]

Count(dist, id, n) ==
  [i \in DOMAIN dist \cup {id} |->
     (IF i \in DOMAIN dist THEN dist[i] ELSE 0) + (IF i = id THEN n ELSE 0)]

Generate ==
  /\ pc = "generate" /\ Len(traces) < trace_num
  /\ \E wanted \in Wanted, undefined \in Undefined :
       LET copies == Capped(wanted, trace_num - Len(traces))
           rule == rules[index + 1]
       IN  /\ traces' = traces \o Repeat(Middle(rule, undefined), copies)
           /\ rule_distribution' = Count(rule_distribution, rule.priority, copies)
           /\ index' = (index + 1) % Len(rules)
  /\ UNCHANGED <<file, saved, pc, args, priority, rules, trace_num>>

SaveTraces ==
  /\ pc = "generate" /\ Len(traces) >= trace_num
  /\ saved' = traces
  /\ trace_num' = Len(traces)
  /\ pc' = "run"
  /\ UNCHANGED <<file, args, priority, rules, traces, index, rule_distribution>>

\* ReadTraces, and main counts whose packets they are
Counts(list) ==
  [id \in {list[i].rule_id : i \in DOMAIN list} |->
     Cardinality({i \in DOMAIN list : list[i].rule_id = id})]

ReadTraces ==
  /\ pc = "load"
  /\ traces' = saved
  /\ rule_distribution' = Counts(saved)
  /\ trace_num' = Len(saved)
  /\ pc' = "run"
  /\ UNCHANGED <<file, saved, args, priority, rules, index>>

Work == CountLines \/ ReadLine \/ RulesRead \/ Generate \/ SaveTraces \/ ReadTraces
Next == Start \/ StartAgain \/ Work

\* the one thread goes on; nothing makes the program start again
Spec == Init /\ [][Next]_vars /\ WF_vars(Work)

----------------------------------------------------------------------------
(***************************************************************************)
(* Properties.                                                             *)
(***************************************************************************)

\* A rule means what its line says: a packet is in the ranges that were computed
\* exactly when the line says so, for addresses with host bits, the value 0 and
\* fields a line does not name too, unless a value of the line is lost in an int
\* (in_port from 2^31 on): then no packet is in them.  Of two lines the earlier one
\* wins (io.cpp:119-189, elementary.cpp:90-139).
RulesRight ==
  \A i \in DOMAIN rules :
    /\ \A j \in 1 .. i - 1 : rules[j].priority > rules[i].priority
    /\ rules[i].priority > 0
    /\ \A p \in Packets :
         Reader!MatchRuleTrace(rules[i], p)
           <=> file[i] \in ExactLines /\ Reader!LineMatches(Text[file[i]], p)

(***************************************************************************)
(* The words of the rules depend on the file alone, so the next two look   *)
(* at a file once, before the program starts, and at its lines that are    *)
(* exact.                                                                  *)
(***************************************************************************)

\* A packet that matches a rule in a tuple the rule fits is looked for under the
\* rule's key and in the rule's bucket, whatever the shape and the kinds of its
\* fields (tuple.cpp:36-52, rltuple.cpp:617-627).
MatchFindsNode ==
  pc = "off" =>
    \A i \in DOMAIN file, p \in Packets, s \in Shapes :
      file[i] \in ExactLines => Words!SameWords(file[i], p, s)

\* When the lengths of the shape add up to at most KeyBits, rules of the file with
\* the same key have the same hash: the hypothesis under which module HashTable
\* proves the table correct (hashtable.cpp:44-62 compares keys in one bucket).
KeyDeterminesHash ==
  pc = "off" =>
    \A i, j \in DOMAIN file, s \in Shapes :
      {file[i], file[j]} \subseteq ExactLines => Words!OneHash(file[i], file[j], s)

\* Every packet of the run matches the rule it is counted for (if its line is exact:
\* else the double in between may miss the rule's one value), the distribution is
\* what a count of the packets gives, made with them or recounted from a file, and
\* without Pareto every rule has its share (main.cpp:478-511, io.cpp:546-584).
TracesRight ==
  pc = "run" =>
    /\ \A k \in DOMAIN traces :
         \E i \in DOMAIN rules :
           /\ rules[i].priority = traces[k].rule_id
           /\ file[i] \in ExactLines => Reader!MatchRuleTrace(rules[i], traces[k].key)
    /\ rule_distribution = Counts(traces)
    /\ ~args.pareto =>
         \A i \in DOMAIN rules :
           /\ rules[i].priority \in DOMAIN rule_distribution
           /\ rule_distribution[rules[i].priority] >= args.t \div Len(rules)

\* The set-up ends: every turn of the loop that makes packets makes one
\* (io.cpp:559-567 under main.cpp:478).
SetUpEnds == pc = "count" ~> pc = "run"

\* The packets of one flow entry are alike for the rules: every packet it covers
\* matches the same rules, as far as the fields the entry is made of go; every packet
\* of the run is covered; and no two entries cover one packet, which CheckMegaFlowRules
\* looks for (io.cpp:224-271, 371-451, trie.cpp:39-91).
FlowMatches(p) ==
  {i \in DOMAIN rules : \A f \in FlowFields : rules[i].lo[f] <= p[f] /\ p[f] <= rules[i].hi[f]}
MegaFlowsRight ==
  pc = "run" =>
    LET cut == Flow!RulesPortPrefix({rules[i] : i \in DOMAIN rules})
        keys == {traces[k].key : k \in DOMAIN traces}
        flows == Flow!MegaFlowRules(cut, keys)
    IN  /\ \A m \in flows :
             Cardinality({FlowMatches(p) : p \in {q \in Packets : Flow!Covers(m, q)}}) = 1
        /\ \A m, n \in flows : m # n => ~Flow!Contain(m, n)
        /\ \A key \in keys : \E m \in flows : Flow!Covers(m, key)
=============================================================================
