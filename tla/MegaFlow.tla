------------------------------ MODULE MegaFlow ------------------------------
(***************************************************************************)
(* RulesPortPrefix and MegaFlowRules (io/io.cpp) over the prefix trie      *)
(* (io/trie.cpp): the wildcard entries a flow cache would hold for a       *)
(* trace.  No run of the program calls them; MegaFlowRules needs port      *)
(* ranges that are prefixes, so its rules are what RulesPortPrefix makes.  *)
(***************************************************************************)
EXTENDS Integers, FiniteSets, FiniteSetsExt

CONSTANTS
  Fields, Width,
  FlowFields,   \* 0 .. 3: addresses and ports
  PortFields,   \* 2 .. 3
  WordBits      \* 32: what a trie is indexed with

FlowAssumption ==
  /\ PortFields \subseteq FlowFields /\ FlowFields \subseteq Fields
  /\ Width \in [Fields -> Nat \ {0}]
  /\ \A f \in FlowFields \ PortFields : Width[f] = WordBits
  /\ \A f \in PortFields : Width[f] <= WordBits

Shr(v, bits) == v \div 2 ^ bits

----------------------------------------------------------------------------
(***************************************************************************)
(* GetPortMask: the range lo .. hi of a field cut into aligned blocks,     *)
(* each the largest that starts where the last one ended.                  *)
(***************************************************************************)
IsBlock(pos, hi, i) ==
  pos + 2 ^ i - 1 <= hi /\ Shr(pos, i) = Shr(pos + 2 ^ i - 1, i)
BlockBits(f, pos, hi) ==
  Max({i \in 0 .. Width[f] : \A j \in 1 .. i : IsBlock(pos, hi, j)})

GetPortMask(f, lo, hi) ==
  LET blocks[pos \in lo .. 2 ^ Width[f]] ==
        IF pos > hi THEN {}
        ELSE LET i == BlockBits(f, pos, hi)
             IN  {[lo |-> pos, hi |-> pos + 2 ^ i - 1, len |-> Width[f] - i]}
                   \cup blocks[pos + 2 ^ i]
  IN  blocks[lo]

\* every block of one port field with every block of the other
PortPrefix(rule) ==
  LET blocks == [f \in PortFields |-> GetPortMask(f, rule.lo[f], rule.hi[f])]
  IN  {[rule EXCEPT !.lo = [f \in Fields |-> IF f \in PortFields THEN b[f].lo ELSE @[f]],
                    !.hi = [f \in Fields |-> IF f \in PortFields THEN b[f].hi ELSE @[f]],
                    !.prefix_len = [f \in Fields |-> IF f \in PortFields THEN b[f].len ELSE @[f]]] :
         b \in {c \in [PortFields -> UNION {blocks[f] : f \in PortFields}] :
                  \A f \in PortFields : c[f] \in blocks[f]}}

RulesPortPrefix(rules) == UNION {PortPrefix(r) : r \in rules}

----------------------------------------------------------------------------
(***************************************************************************)
(* The trie of a field, as the set of its nodes but the root.  A node is   *)
(* the bits on its path; a value narrower than a word has zeros in front.  *)
(* Update returns at once for length 0.                                    *)
(***************************************************************************)
Node(value, depth) == <<depth, Shr(value, WordBits - depth)>>

\* a port is in the low bits of a word
WordLen(f, len) == IF f \in PortFields THEN len + WordBits - Width[f] ELSE len

Path(value, len) == {Node(value, depth) : depth \in 1 .. len}
Trie(rules, f) == UNION {Path(r.lo[f], WordLen(f, r.prefix_len[f])) : r \in rules}

\* mutant: the length of the path that is there
LookupPath(trie, value) ==
  Max({depth \in 0 .. WordBits : Path(value, depth) \subseteq trie})

\* the depth of the first node that is not there, or a whole word
Lookup(trie, value) ==
  Min({depth \in 1 .. WordBits - 1 : Node(value, depth) \notin trie} \cup {WordBits})

----------------------------------------------------------------------------
(***************************************************************************)
(* MegaFlowRules: for every trace, the bits its lookups needed.            *)
(***************************************************************************)
\* range[f][0] and prefix_len[f], the latter in bits of a word
MegaFlowOf(tries, key) ==
  [f \in FlowFields |->
     LET len == Lookup(tries[f], key[f])
     IN  [base |-> Shr(key[f], WordBits - len) * 2 ^ (WordBits - len), len |-> len]]

MegaFlowRules(rules, keys) ==
  LET tries == [f \in FlowFields |-> Trie(rules, f)]
  IN  {MegaFlowOf(tries, key) : key \in keys}

\* CheckMegaFlowRules prints "contain" for such a pair
Contain(m, n) ==
  \A f \in FlowFields :
    LET len == Min({m[f].len, n[f].len})
    IN  Shr(m[f].base, WordBits - len) = Shr(n[f].base, WordBits - len)

\* a packet the entry stands for
Covers(m, key) ==
  \A f \in FlowFields : Shr(key[f], WordBits - m[f].len) = Shr(m[f].base, WordBits - m[f].len)
=============================================================================
