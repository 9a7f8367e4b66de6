------------------------------ MODULE HybridTSS ------------------------------
(***************************************************************************)
(* HybridTSS (partitionsort/HybridTSS): a tree whose inner nodes hash the  *)
(* first bits of one field.  Rules with a shorter prefix, the big ones, go *)
(* to a subtree of their own, bigClassifier, which a lookup consults when  *)
(* maxBigPriority says that it may hold something better.  Leaves are      *)
(* short lists or TupleMerge classifiers (module TupleMerge shows that     *)
(* those are sets of rules).  Training builds trees to learn from what     *)
(* they cost, and frees them; the tree that is used is built once, for all *)
(* rules; updates delete a rule and insert it again                        *)
(* (Simulation.cpp:179-182).                                               *)
(*                                                                         *)
(* A node is named by its path: the hash keys from the root to it, and     *)
(* BIG for bigClassifier.  Which action getAction takes among those left   *)
(* depends on the table that was learned: any one.  A child that was not   *)
(* built (InsertRule, l.286-289) is never missed: every rule was there     *)
(* when the tree was built, and no node is ever removed.                   *)
(*                                                                         *)
(* PSRule::id is never set (ps-io.cpp:9-18, ElementaryClasses.h:52): it    *)
(* has the value the memory had.                                           *)
(***************************************************************************)
EXTENDS PrefixTable

CONSTANTS
  Dims,     \* the fields a node may hash: 0 .. 3
  Bits,     \* Bits[d]: how many bits, 12 .. 27 of an address and 9 .. 16 of a port
  Key(_),   \* the loops of getKey: fold bits into the number of a child
  Binths,   \* what binth may be: 8 in the code
  Ids       \* values the uninitialised id may have

ASSUME TreeAssumption ==
  /\ Dims \subseteq Fields /\ IsFiniteSet(Dims)
  /\ \A d \in Dims : Bits[d] \subseteq 0 .. Width[d]
  /\ \A x \in Packets \cup {Lo[r] : r \in Rules}, d \in Dims : \A b \in Bits[d] :
       Key(Shr(x[d], Width[d] - b)) \in Nat
  /\ Binths \subseteq Nat /\ Ids \subseteq Nat

BIG == -1

VARIABLES
  mode,    \* "train" or "build"
  node,    \* the nodes by path
  que,     \* the nodes still to be built
  binth,   \* fewer rules make a linear leaf
  id,      \* PSRule::id
  stored   \* the rules callers have not deleted

treeVars == <<mode, node, que, binth, id, stored>>

NewNode(s, used) ==
  [fun |-> "none", rules |-> s, used |-> used, tmo |-> {}, dim |-> 0, bit |-> 0,
   maxBigPriority |-> -1, reward |-> 0]

\* what push_back makes of the elements of s that are in S
Sublist(s, S) ==
  LET at == {i \in DOMAIN s : s[i] \in S}
  IN  [n \in 1 .. Cardinality(at) |->
         s[CHOOSE i \in at : Cardinality({j \in at : j < i}) = n - 1]]

\* all rules in the order of the file, best first
AllRules ==
  [i \in 1 .. Cardinality(Rules) |->
     CHOOSE r \in Rules : Cardinality({q \in Rules : Prio[q] > Prio[r]}) = i - 1]

NewTree == [p \in {<<>>} |-> NewNode(AllRules, {})]

TreeInit ==
  /\ mode = "train"
  /\ node = NewTree /\ que = {<<>>}
  /\ binth \in Binths
  /\ id \in [Rules -> Ids]
  /\ stored = Rules

----------------------------------------------------------------------------
(***************************************************************************)
(* Construction.                                                           *)
(***************************************************************************)

\* the child for a rule's low ends or for a packet
getKey(n, v) == Key(Shr(v[n.dim], Width[n.dim] - n.bit))

\* mutant: the big rules are hashed like the others
StepNoBig(n, r) == getKey(n, Lo[r])

\* where node n sends a rule
Step(n, r) ==
  IF PrefixLen[r][n.dim] < n.bit THEN BIG ELSE getKey(n, Lo[r])

\* pairs of address prefix lengths, few rules for each: a TupleMerge leaf
FewPerTuple(s) ==
  2 * Len(s) <= 3 * Cardinality({<<PrefixLen[r][0], PrefixLen[r][1]>> : r \in Elements(s)})

\* the hash actions the bits of state leave
Actions(n) == UNION {{d} \X Bits[d] : d \in Dims \ n.used}

Linear(n) == Len(n.rules) < binth
TM(n) == ~Linear(n) /\ (FewPerTuple(n.rules) \/ Actions(n) = {})

\* getAction: greedy or at random, as epsilion says, some hash action
HashActions(n) == IF Linear(n) \/ TM(n) THEN {} ELSE Actions(n)

BuildLinear(p) ==
  /\ Linear(node[p])
  /\ node' = [node EXCEPT ![p].fun = "linear"]
  /\ que' = que \ {p}

Above(p) == {SubSeq(p, 1, i) : i \in 0 .. Len(p)}

addReward(n, x) == [n EXCEPT !.reward = @ + x]

\* the reward climbs from the leaf to the root; training does without the leaf's classifier
BuildTM(p) ==
  LET s == node[p].rules
      built == [node EXCEPT ![p].fun = "TM",
                            ![p].tmo = IF mode = "build" THEN Elements(s) ELSE {}]
  IN  /\ TM(node[p])
      /\ node' = [q \in DOMAIN node |->
                    IF q \in Above(p) THEN addReward(built[q], -Len(s)) ELSE built[q]]
      /\ que' = que \ {p}

\* mutant: the priority of the last big rule is kept
MaxBigLast(s) == IF s = <<>> THEN -1 ELSE Prio[s[Len(s)]]

MaxBig(s) == Top(Elements(s))

Hashing(n, a) == [n EXCEPT !.fun = "Hash", !.dim = a[1], !.bit = a[2]]

BuildHash(p) ==
  \E a \in HashActions(node[p]) :
    LET n == Hashing(node[p], a)
        sub(k) == Sublist(n.rules, {r \in Rules : Step(n, r) = k})
        children == {Append(p, Step(n, r)) : r \in Elements(n.rules)}
    IN  /\ node' = [q \in DOMAIN node \cup children |->
                      IF q = p THEN [n EXCEPT !.maxBigPriority = MaxBig(sub(BIG))]
                      ELSE IF q \in children THEN NewNode(sub(q[Len(q)]), n.used \cup {n.dim})
                      ELSE node[q]]
        /\ que' = (que \ {p}) \cup children

Build(p) ==
  /\ p \in que
  /\ BuildLinear(p) \/ BuildTM(p) \/ BuildHash(p)
  /\ UNCHANGED <<mode, binth, id, stored>>

\* a tree has been learned from and freed (recurDelete); after the last the one to
\* be used is built
Trained ==
  /\ mode = "train" /\ que = {}
  /\ mode' \in {"train", "build"}
  /\ node' = NewTree /\ que' = {<<>>}
  /\ UNCHANGED <<binth, id, stored>>

----------------------------------------------------------------------------
(***************************************************************************)
(* Updates.                                                                *)
(***************************************************************************)

\* the leaf an update of r ends in
LeafOf(r) ==
  CHOOSE p \in DOMAIN node :
    /\ node[p].fun # "Hash"
    /\ \A i \in DOMAIN p : p[i] = Step(node[SubSeq(p, 1, i - 1)], r)

\* std::lower_bound(rules.begin(), rules.end(), rule, cmp): halves the n
\* positions from the one given, and goes right where cmp says so
LowerBound(s, r) ==
  LET Spans == {w \in (1 .. Len(s) + 1) \X (0 .. Len(s)) : w[1] + w[2] <= Len(s) + 1}
      lower[w \in Spans] ==
        LET first == w[1]
            n == w[2]
            mid == first + n \div 2
        IN  IF n = 0 THEN first
            ELSE IF id[s[mid]] > id[r] THEN lower[<<mid + 1, n - n \div 2 - 1>>]
            ELSE lower[<<first, n \div 2>>]
  IN  lower[<<1, Len(s)>>]

DeleteLinear(p, r) ==
  LET s == node[p].rules
      i == LowerBound(s, r)
  IN  /\ node[p].fun = "linear"
      /\ node' = [node EXCEPT ![p].rules =
                         IF i = Len(s) + 1 THEN s
                         ELSE SubSeq(s, 1, i - 1) \o SubSeq(s, i + 1, Len(s))]

DeleteTM(p, r) ==
  /\ node[p].fun = "TM"
  /\ node' = [node EXCEPT ![p].tmo = @ \ {r}]

DeleteRule(r) ==
  /\ mode = "build" /\ que = {} /\ r \in stored
  /\ DeleteLinear(LeafOf(r), r) \/ DeleteTM(LeafOf(r), r)
  /\ stored' = stored \ {r}
  /\ UNCHANGED <<mode, que, binth, id>>

InsertLinear(p, r) ==
  LET s == node[p].rules
      i == LowerBound(s, r)
  IN  /\ node[p].fun = "linear"
      /\ node' = [node EXCEPT ![p].rules =
                         SubSeq(s, 1, i - 1) \o <<r>> \o SubSeq(s, i, Len(s))]

InsertTM(p, r) ==
  /\ node[p].fun = "TM"
  /\ node' = [node EXCEPT ![p].tmo = @ \cup {r}]

\* callers insert only what they have deleted (Simulation.cpp:179-182)
InsertRule(r) ==
  /\ mode = "build" /\ que = {} /\ r \notin stored
  /\ InsertLinear(LeafOf(r), r) \/ InsertTM(LeafOf(r), r)
  /\ stored' = stored \cup {r}
  /\ UNCHANGED <<mode, que, binth, id>>

TreeNext ==
  \/ \E p \in que : Build(p)
  \/ Trained
  \/ \E r \in Rules : DeleteRule(r) \/ InsertRule(r)

TreeSpec == TreeInit /\ [][TreeNext]_treeVars

----------------------------------------------------------------------------
(***************************************************************************)
(* Lookups only read.                                                      *)
(***************************************************************************)

\* mutant: the last match of a list is taken
MatchLinearLast(s, p) ==
  LET hits == {i \in DOMAIN s : Matches(s[i], p)}
  IN  IF hits = {} THEN -1 ELSE Prio[s[CHOOSE i \in hits : \A j \in hits : i >= j]]

\* the first match ends the loop
MatchLinear(s, p) ==
  LET hits == {i \in DOMAIN s : Matches(s[i], p)}
  IN  IF hits = {} THEN -1 ELSE Prio[s[CHOOSE i \in hits : \A j \in hits : i <= j]]

\* TupleMerge answers 0 for no match
MatchTM(S, p) ==
  LET hits == {r \in S : Matches(r, p)} IN IF hits = {} THEN 0 ELSE Top(hits)

ClassifyAPacket(p) ==
  LET match[q \in DOMAIN node] ==
        LET n == node[q]
            child == Append(q, getKey(n, p))
            own == IF n.fun = "linear" THEN MatchLinear(n.rules, p)
                   ELSE IF n.fun = "TM" THEN MatchTM(n.tmo, p)
                   ELSE IF child \in DOMAIN node THEN match[child] ELSE -1
        IN  IF own < n.maxBigPriority
            THEN LET big == match[Append(q, BIG)] IN IF big > own THEN big ELSE own
            ELSE own
  IN  match[<<>>]

----------------------------------------------------------------------------
(***************************************************************************)
(* Properties.                                                             *)
(***************************************************************************)

\* the rules a node holds for lookups
Held(n) == IF n.fun = "linear" THEN Elements(n.rules) ELSE n.tmo

\* Types of the members (SubHybridTSS.h:46-73).  A field is used once on a path,
\* which is why the construction ends.
TypeOK ==
  /\ \A p \in DOMAIN node :
       /\ node[p].fun \in {"none", "linear", "TM", "Hash"}
       /\ node[p].rules \in Seq(Rules)
       /\ node[p].used \subseteq Dims /\ Cardinality(node[p].used) = Len(p)
       /\ node[p].tmo \subseteq Rules
       /\ node[p].maxBigPriority \in Nat \cup {-1} /\ node[p].reward \in Int
  /\ mode \in {"train", "build"}
  /\ que \subseteq DOMAIN node /\ stored \subseteq Rules /\ binth \in Binths

\* maxBigPriority is set when the node is built and by no update, and still
\* no rule below bigClassifier is better: a lookup that skips it misses nothing
\* (SubHybridTSS.cpp:220).
MaxBigCovers ==
  \A p, q \in DOMAIN node :
    /\ Len(p) < Len(q) /\ SubSeq(q, 1, Len(p)) = p /\ q[Len(p) + 1] = BIG
    => \A r \in Held(node[q]) : Prio[r] <= node[p].maxBigPriority

\* The reward of a node is what the table learns about its action, minus the rules
\* that end up in TupleMerge leaves below it (SubHybridTSS.cpp:84-88, HybridTSS.cpp:292).
RewardExact ==
  que = {} => \A p \in DOMAIN node :
    node[p].reward = -Cardinality({r \in Rules : \E q \in DOMAIN node :
                        p \in Above(q) /\ node[q].fun = "TM" /\ r \in Elements(node[q].rules)})

\* What a node keeps about the nodes below it.
CachesSound == TypeOK /\ MaxBigCovers /\ RewardExact

\* Every lookup finds the best stored match.
AnswersRight ==
  \A p \in Packets :
    LET hits == {r \in stored : Matches(r, p)}
        found == ClassifyAPacket(p)
    IN  IF hits = {} THEN found <= 0 ELSE found = Top(hits)

\* When no leaf is a list, every lookup finds the best match, in whatever tree.
ClassifiesRight ==
  mode = "build" /\ que = {} /\ (\A q \in DOMAIN node : node[q].fun # "linear") => AnswersRight

\* Before the first update every lookup is right, lists included, whatever the
\* ids are: lists are built in descending order of priority.
BuildRight == [][mode = "build" /\ que # {} /\ que' = {} => AnswersRight']_treeVars

\* A delete removes the rule from the tree: lists look for it by its id and
\* report "Not found rule" otherwise (SubHybridTSS.cpp:233-238).
DeleteRemoves ==
  [][\A r \in stored \ stored' : \A p \in DOMAIN node : r \notin Held(node[p])']_treeVars
=============================================================================
