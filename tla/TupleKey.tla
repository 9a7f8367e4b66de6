------------------------------ MODULE TupleKey ------------------------------
(***************************************************************************)
(* What a tuple computes from a rule and from a packet                     *)
(* (tuplestructure/tuple.cpp, RLTuple/rltuple.cpp:90-106, 618-624).  A     *)
(* tuple has a shape: the fields it uses, each with a prefix length.  A    *)
(* rule fits when it is at least as specific as the shape in each of them; *)
(* the bits the shape leaves of the fields are packed into one word, the   *)
(* key (their hash is module TupleHash).                                   *)
(***************************************************************************)
EXTENDS Prefix

CONSTANT KeyBits   \* the width of uint64_t

ASSUME KeyAssumption == KeyBits \in Nat \ {0}

Shape == [used_field : Seq(Fields), prefix_len : Seq(Nat)]

\* x[used_field[j]] >> prefix_len_zero[j], for each field of the shape
Values(x, s) ==
  [j \in DOMAIN s.used_field |->
     Shr(x[s.used_field[j]], Width[s.used_field[j]] - s.prefix_len[j])]

(***************************************************************************)
(* key = (key << prefix_len[j]) | val, in KeyBits bits.  If the value fits *)
(* its field val is below 2 ^ prefix_len[j], and the bitwise or is a sum.  *)
(***************************************************************************)
\* mutant: a value is put on top of the ones before it
KeyOfValuesFlat(v, s) ==
  LET key[j \in DOMAIN v] == IF j = 1 THEN v[1] ELSE (key[j - 1] + v[j]) % 2 ^ KeyBits
  IN  key[Len(v)]

KeyOfValues(v, s) ==
  LET key[j \in DOMAIN v] ==
        IF j = 1 THEN v[1]
        ELSE (key[j - 1] * 2 ^ s.prefix_len[j] + v[j]) % 2 ^ KeyBits
  IN  key[Len(v)]

\* the bits a shape asks for; a key of KeyBits bits loses what is more
Bits(s) == LET bits[j \in 0 .. Len(s.prefix_len)] ==
                 IF j = 0 THEN 0 ELSE bits[j - 1] + s.prefix_len[j]
           IN  bits[Len(s.prefix_len)]
FitsKey(s) == Bits(s) <= KeyBits

\* a value has no more bits than its field; so it is of a rule as ReadRules makes it,
\* unless its in_port is 2^31 or more (module RuleReader)
ValueFits(r, f) == Lo[r][f] < 2 ^ Width[f]

RuleKey(r, s) == KeyOfValues(Values(Lo[r], s), s)
PacketKey(p, s) == KeyOfValues(Values(p, s), s)

\* mutant: only the first field of the shape is compared
FitsFirst(r, s) == PrefixLen[r][s.used_field[1]] >= s.prefix_len[1]

\* the loop over the fields of a candidate tuple
Fits(r, s) ==
  \A j \in DOMAIN s.used_field : PrefixLen[r][s.used_field[j]] >= s.prefix_len[j]

\* available_bits / tuple->prefix_len.size(), for a rule that fits
Slack(r, s) ==
  LET bits[j \in 0 .. Len(s.used_field)] ==
        IF j = 0 THEN 0
        ELSE bits[j - 1] + PrefixLen[r][s.used_field[j]] - s.prefix_len[j]
  IN  bits[Len(s.used_field)] \div Len(s.used_field)
=============================================================================
