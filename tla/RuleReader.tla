----------------------------- MODULE RuleReader -----------------------------
(***************************************************************************)
(* ReadRules (io/io.cpp) with setRuleFieldByname and fillEmptyField        *)
(* (elementary.cpp): what the program makes of one line of a rule file.    *)
(*                                                                         *)
(* A line names some of the fields, each with an item whose form depends   *)
(* on the kind of the field: an address or MAC with a prefix length (48    *)
(* when a MAC has none), a port or a range of ports, or one value.  How a  *)
(* line is cut into names and numbers is left out.  Ports and values pass  *)
(* through an int on their way to a uint64_t.                              *)
(***************************************************************************)
EXTENDS Integers

CONSTANTS
  Fields,   \* 0 .. 11
  Width,    \* Width[f]: RULE_FILED_MAXLENTH[f]
  Kind,     \* Kind[f]: "prefix", "range" or "value"
  IntBits,  \* 32, the width of int
  PointBits \* 64, the width of the ends of a range

ReaderAssumption ==
  /\ Fields \subseteq Nat
  /\ Width \in [Fields -> Nat \ {0}]
  /\ Kind \in [Fields -> {"prefix", "range", "value"}]
  /\ IntBits \in Nat \ {0} /\ PointBits \in Nat /\ IntBits < PointBits
  /\ \A f \in Fields : /\ Kind[f] = "range" => Width[f] < IntBits
                       /\ Kind[f] = "value" => Width[f] <= IntBits   \* in_port has 32

Top(f) == 2 ^ Width[f] - 1

\* fillEmptyField, on a rule that is all zero but for its name
EmptyField(f) == [lo |-> 0, hi |-> Top(f), len |-> 0]

\* the address with its host bits cleared, up to the address with all of them set
PrefixField(f, item) ==
  LET mask == 2 ^ (Width[f] - item.len) - 1
      left == item.value - (item.value % (mask + 1))
  IN  [lo |-> left, hi |-> left + mask, len |-> item.len]

(***************************************************************************)
(* atoi, and the parameter of setRuleFieldByname: the number is cut to an  *)
(* int, and the sign of the int fills the bits above.  (eth_type is read   *)
(* by strtoul, which gives its 16 bits the same.)                          *)
(***************************************************************************)
Atoi(number) ==
  LET word == number % 2 ^ IntBits
  IN  IF word < 2 ^ (IntBits - 1) THEN word ELSE word - 2 ^ IntBits + 2 ^ PointBits

\* the width of a port if it is one port, 0 for any other range
GetPortMaskSimple(f, lo, hi) == IF lo = hi THEN Width[f] ELSE 0
RangeField(f, item) ==
  LET lo == Atoi(item.lo)
      hi == Atoi(item.hi)
  IN  [lo |-> lo, hi |-> hi, len |-> GetPortMaskSimple(f, lo, hi)]

\* the length that goes with one value is the width of its field
ValueField(f, item) ==
  [lo |-> Atoi(item.value), hi |-> Atoi(item.value), len |-> Width[f]]

SetField(f, item) ==
  CASE Kind[f] = "prefix" -> PrefixField(f, item)
    [] Kind[f] = "range" -> RangeField(f, item)
    [] Kind[f] = "value" -> ValueField(f, item)

\* mutant: fillEmptyField runs after the fields of the line are set
FieldFilledLate(line, f) ==
  LET field == IF f \in DOMAIN line THEN SetField(f, line[f]) ELSE [lo |-> 0, hi |-> 0, len |-> 0]
  IN  IF field.hi = 0 THEN EmptyField(f) ELSE field

FieldOf(line, f) == IF f \in DOMAIN line THEN SetField(f, line[f]) ELSE EmptyField(f)

RuleOf(line, priority) ==
  [lo |-> [f \in Fields |-> FieldOf(line, f).lo],
   hi |-> [f \in Fields |-> FieldOf(line, f).hi],
   prefix_len |-> [f \in Fields |-> FieldOf(line, f).len],
   priority |-> priority]

\* MatchRuleTrace
MatchRuleTrace(rule, key) == \A f \in Fields : rule.lo[f] <= key[f] /\ key[f] <= rule.hi[f]

(***************************************************************************)
(* What a line says, in the words of the rule file: the reference the      *)
(* reading is compared with.                                               *)
(***************************************************************************)
Says(f, item, v) ==
  CASE Kind[f] = "prefix" ->
         v \div 2 ^ (Width[f] - item.len) = item.value \div 2 ^ (Width[f] - item.len)
    [] Kind[f] = "range" -> item.lo <= v /\ v <= item.hi
    [] Kind[f] = "value" -> v = item.value
LineMatches(line, key) == \A f \in DOMAIN line : Says(f, line[f], key[f])

\* no value of the line is lost on its way through an int
Exact(line) ==
  \A f \in DOMAIN line : Kind[f] = "value" => Atoi(line[f].value) = line[f].value
=============================================================================
