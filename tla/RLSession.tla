------------------------------ MODULE RLSession ------------------------------
(***************************************************************************)
(* A session of the learning agent (RL/train.py, RL/tuplegym.py) with the  *)
(* program (RunRL, main.cpp:222-457).  In an episode the agent composes    *)
(* the shapes of the tuples one field at a time: a command adds a field to *)
(* the current shape, or puts that shape aside and begins another one.     *)
(* After each command the program makes a new classifier with these        *)
(* shapes, inserts all rules, perhaps measures it with deletes and         *)
(* inserts, and sends back what it looks like.  The agent knows the        *)
(* classifier by this observation only; its mask, computed from it, is     *)
(* all that keeps its commands legal.                                      *)
(*                                                                         *)
(* Nothing on either side sees to it that a shape fits the 64 bits of a    *)
(* key: the mask allows two MACs as well.  A tuple of such a shape may     *)
(* lose track of its rules (module MCWideKey); here the agent is one that  *)
(* composes no shape wider than the key.                                   *)
(*                                                                         *)
(* Sockets keep order and lose nothing, and each side waits for the other. *)
(* The costs are numbers the session does not depend on, but for whether   *)
(* one has dropped.  Command 3 is never sent; the end of the client ends   *)
(* the session and is left out.                                            *)
(***************************************************************************)
EXTENDS RLTuple

CONSTANTS
  FixedLen,       \* FixedLen[f]: the length train.py gives to a field f >= 2
  ImportantNum,   \* how many fields getImportantFiled returns, 10 in the code
  ObsTuples,      \* the tuples of an observation, 15 in the code
  MaxEpTuples,    \* an episode ends with so many tuples, 20 in the code
  MaxDrops,       \* or so many drops in a row, 4 in the code
  MaxSteps,       \* or so many commands, 30 in the code
  MaxPairs        \* bound: delete-insert pairs of one measurement

Addresses == {0, 1}

\* what a command may name: every length of an address, one of any other field
Options == {[field |-> f, len |-> n] : f \in Addresses, n \in 1 .. Width[0]}
             \cup {[field |-> f, len |-> FixedLen[f]] : f \in Fields \ Addresses}

NoShape == [used_field |-> <<>>, prefix_len |-> <<>>]
Extend(s, c) == [used_field |-> Append(s.used_field, c.field),
                 prefix_len |-> Append(s.prefix_len, c.len)]

\* one field, or two different ones, and those of them that the key has the bits for
OneField == {Extend(NoShape, c) : c \in Options}
TwoFields == {s \in {Extend(s, c) : s \in OneField, c \in Options} :
                s.used_field[1] # s.used_field[2]}
Composed == {s \in OneField \cup TwoFields : FitsKey(s)}

ASSUME SessionAssumption ==
  /\ Addresses \subseteq Fields /\ Width[1] = Width[0]
  /\ DOMAIN FixedLen = Fields \ Addresses
  /\ \A f \in Fields \ Addresses : FixedLen[f] \in 1 .. Width[f]
  /\ ImportantNum \in 1 .. Cardinality(Options)
  /\ ObsTuples \in Nat \ {0} /\ MaxPairs \in Nat
  /\ MaxEpTuples \in Nat \ {0} /\ MaxDrops \in Nat \ {0} /\ MaxSteps \in Nat \ {0}
  /\ Composed \subseteq Shapes
  /\ \A c \in Options :   \* one field fits, and leaves room for another
       /\ FitsKey(Extend(NoShape, c))
       /\ \E d \in Options : c.field # d.field /\ FitsKey(Extend(Extend(NoShape, c), d))
  /\ Rules # {} /\ ~Careless

VARIABLES
  importantField,        \* set once, before the session
  tuples,                \* the shapes put aside
  current,               \* the shape being composed
  toadd,                 \* shapes the new classifier has still to get
  toinsert,              \* and rules
  absent,                \* the rules a measurement has deleted: one or none
  pairs,                 \* the pairs it has done
  ep_step,
  performance_drop_cnt,
  pc,                    \* "listen", "add", "insert" or "built"
  state,                 \* the last observation the client got
  done                   \* and whether it said that the episode is over

session == <<importantField, tuples, current, toadd, toinsert, absent, pairs,
             ep_step, performance_drop_cnt, pc, state, done>>
client == <<state, done>>

\* the order of a set of pairs of vectors
LexBefore(u, v) ==
  \/ Len(u) < Len(v) /\ \A i \in DOMAIN u : u[i] = v[i]
  \/ \E i \in DOMAIN u \cap DOMAIN v : u[i] < v[i] /\ \A j \in 1 .. i - 1 : u[j] = v[j]
ShapeBefore(s, t) ==
  \/ LexBefore(s.used_field, t.used_field)
  \/ s.used_field = t.used_field /\ LexBefore(s.prefix_len, t.prefix_len)

\* the shapes of S as an iteration goes through them: there is one such list
Ordered(S) == {l \in [1 .. Cardinality(S) -> S] :
                 \A i, j \in DOMAIN l : i < j => ShapeBefore(l[i], l[j])}

\* ReadRules leaves the rules in descending order of priority: main never shuffles
RuleLists == {l \in [1 .. Cardinality(Rules) -> Rules] :
                \A i, j \in DOMAIN l : i < j => Prio[l[i]] > Prio[l[j]]}

(***************************************************************************)
(* getImportantFiled: the choices that split the rules into the most       *)
(* parts, first come first served among equals (std::sort).                *)
(***************************************************************************)
Parts(c) ==
  IF c.field \in Addresses
  THEN {<<Shr(Lo[r][c.field], Width[c.field] - c.len), Shr(Hi[r][c.field], Width[c.field] - c.len)>>
          : r \in {q \in Rules : PrefixLen[q][c.field] >= c.len}}
  ELSE {<<Lo[r][c.field], Hi[r][c.field]>> : r \in Rules}

Important(S) ==
  /\ Cardinality(S) = ImportantNum
  /\ \A c \in S, d \in Options \ S : Cardinality(Parts(c)) >= Cardinality(Parts(d))

----------------------------------------------------------------------------
(***************************************************************************)
(* The observation (RlTuple::getObs).  Of a tuple it shows two fields and  *)
(* their lengths; the two numbers about its lists are left out.            *)
(***************************************************************************)
NoSlot == [f1 |-> 0, l1 |-> 0, f2 |-> 0, l2 |-> 0]
Slot(s) ==
  [f1 |-> IF Len(s.used_field) >= 1 THEN s.used_field[1] ELSE 0,
   l1 |-> IF Len(s.used_field) >= 1 THEN s.prefix_len[1] ELSE 0,
   f2 |-> IF Len(s.used_field) >= 2 THEN s.used_field[2] ELSE 0,
   l2 |-> IF Len(s.used_field) >= 2 THEN s.prefix_len[2] ELSE 0]

Blank == [i \in 1 .. ObsTuples |-> NoSlot]

\* the first tuple of the current shape, then the others in the order of the array
getObs ==
  LET same == {i \in DOMAIN tuples_arr : tuple[tuples_arr[i]].shape = current}
      first == CHOOSE i \in same : \A j \in same : i <= j
      shown == [i \in DOMAIN tuples_arr |->
                  IF i = 1 THEN first ELSE IF i <= first THEN i - 1 ELSE i]
  IN  [i \in 1 .. ObsTuples |->
         IF i > Len(tuples_arr) THEN NoSlot ELSE Slot(tuple[tuples_arr[shown[i]]].shape)]

----------------------------------------------------------------------------
(***************************************************************************)
(* The client's mask (tuplegym.getMask): the commands it may send.  Flag 1 *)
(* adds a field to the current shape, flag 0 begins another one.           *)
(***************************************************************************)
Commands(flag, choices) == {[flag |-> flag, choice |-> c] : c \in choices}

\* single-field shapes among the tuples shown before the first blank or default one
Taken ==
  {c \in Options :
     \E i \in 1 .. ObsTuples :
       /\ state[i].l2 = 0 /\ state[i].f1 = c.field
       /\ c.field \in Addresses => state[i].l1 = c.len
       /\ \A j \in 1 .. i : state[j].l1 # 0}

\* mutant: a new episode is like any other step
getMaskNoStart ==
  IF state[1].l2 # 0
  THEN Commands(0, Options)
  ELSE Commands(1, {c \in Options : c.field # state[1].f1}) \cup Commands(0, Options \ Taken)

getMask ==
  IF state[1].l1 = 0 THEN Commands(1, importantField)
  ELSE IF state[1].l2 # 0 THEN Commands(0, Options)
  ELSE Commands(1, {c \in Options : c.field # state[1].f1}) \cup Commands(0, Options \ Taken)

\* what the current shape is after a command
ShapeAfter(c) == Extend(IF c.flag = 0 THEN NoShape ELSE current, c.choice)

----------------------------------------------------------------------------
(***************************************************************************)
(* The session.                                                            *)
(***************************************************************************)

\* classifier->Free(true), new RlTuple() and Create without rules
NewClassifier ==
  /\ tuple' = <<>>
  /\ tuples_arr' = <<>>
  /\ max_tuples_num' = InitTuples
  /\ id2tuple' = [r \in {} |-> NULL]
  /\ rules_num' = 0
  /\ max_priority' = 0
  /\ answer' = <<>>
  /\ UNCHANGED scan

SessionInit ==
  /\ Init
  /\ importantField \in {S \in SUBSET Options : Important(S)}
  /\ tuples = {} /\ current = NoShape
  /\ toadd = <<>> /\ toinsert = <<>> /\ absent = {} /\ pairs = 0
  /\ ep_step = 0 /\ performance_drop_cnt = 0
  /\ pc = "listen"
  /\ state = Blank /\ done = TRUE

\* command 2, the first of an episode, and its reply, an observation without tuples
Reset ==
  /\ pc = "listen" /\ done
  /\ NewClassifier
  /\ tuples' = {} /\ current' = NoShape
  /\ ep_step' = 0 /\ performance_drop_cnt' = 0
  /\ state' = Blank /\ done' = FALSE
  /\ UNCHANGED <<importantField, toadd, toinsert, absent, pairs, pc>>

\* mutant: nobody counts the commands
CommandUncounted(c) ==
  /\ pc = "listen" /\ ~done /\ c \in getMask /\ FitsKey(ShapeAfter(c))
  /\ tuples' = IF c.flag = 0 THEN tuples \cup {current} ELSE tuples
  /\ current' = ShapeAfter(c)
  /\ NewClassifier
  /\ \E shapes \in Ordered(tuples') : toadd' = Append(shapes, current')
  /\ toinsert' \in RuleLists
  /\ UNCHANGED ep_step
  /\ pairs' = 0
  /\ pc' = "add"
  /\ UNCHANGED <<importantField, absent, performance_drop_cnt, client>>

\* commands 0 and 1; that the shape fits the key is up to the agent
Command(c) ==
  /\ pc = "listen" /\ ~done /\ c \in getMask /\ FitsKey(ShapeAfter(c))
  /\ tuples' = IF c.flag = 0 THEN tuples \cup {current} ELSE tuples
  /\ current' = ShapeAfter(c)
  /\ NewClassifier
  /\ \E shapes \in Ordered(tuples') : toadd' = Append(shapes, current')
  /\ toinsert' \in RuleLists
  /\ ep_step' = ep_step + 1
  /\ pairs' = 0
  /\ pc' = "add"
  /\ UNCHANGED <<importantField, absent, performance_drop_cnt, client>>

AddTuple ==
  /\ pc = "add" /\ toadd # <<>>
  /\ addTuple(Head(toadd))
  /\ toadd' = Tail(toadd)
  /\ pc' = IF Len(toadd) = 1 THEN "insert" ELSE pc
  /\ UNCHANGED <<importantField, tuples, current, toinsert, absent, pairs, ep_step,
                 performance_drop_cnt, client>>

\* RlTuple::step
Step ==
  /\ pc = "insert"
  /\ InsertRule(Head(toinsert))
  /\ toinsert' = Tail(toinsert)
  /\ pc' = IF Len(toinsert) = 1 THEN "built" ELSE pc
  /\ UNCHANGED <<importantField, tuples, current, toadd, absent, pairs, ep_step,
                 performance_drop_cnt, client>>

\* runUpdate: any rules are deleted and inserted again, one after the other
MeasureDelete(r) ==
  /\ pc = "built" /\ absent = {} /\ pairs < MaxPairs
  /\ TupleNum # 0
  /\ DeleteRule(r)
  /\ absent' = {r}
  /\ UNCHANGED <<importantField, tuples, current, toadd, toinsert, pairs, ep_step,
                 performance_drop_cnt, pc, client>>

MeasureInsert(r) ==
  /\ pc = "built" /\ r \in absent
  /\ InsertRule(r)
  /\ absent' = {}
  /\ pairs' = pairs + 1
  /\ UNCHANGED <<importantField, tuples, current, toadd, toinsert, ep_step,
                 performance_drop_cnt, pc, client>>

Over(drops) ==
  Len(tuples_arr) >= MaxEpTuples \/ drops >= MaxDrops \/ ep_step >= MaxSteps

\* the estimate, which is either a drop or not, and the reply
Reply ==
  /\ pc = "built" /\ absent = {}
  /\ state' = getObs
  /\ performance_drop_cnt' \in {0, performance_drop_cnt + 1}
  /\ done' = Over(performance_drop_cnt')
  /\ pc' = "listen"
  /\ UNCHANGED <<store, scan, answer, importantField, tuples, current, toadd, toinsert,
                 absent, pairs, ep_step>>

SessionNext ==
  \/ Reset
  \/ \E flag \in {0, 1}, c \in Options : Command([flag |-> flag, choice |-> c])
  \/ AddTuple \/ Step \/ Reply
  \/ \E r \in Rules : MeasureDelete(r) \/ MeasureInsert(r)

SessionSpec == SessionInit /\ [][SessionNext]_<<vars, session>>
\* each side goes on with what it does, the client with the next episode
FairSession == SessionSpec /\ WF_<<vars, session>>(SessionNext)

----------------------------------------------------------------------------
(***************************************************************************)
(* Properties.                                                             *)
(***************************************************************************)

\* Types of the session's variables (main.cpp:246-261).
SessionTypeOK ==
  /\ importantField \subseteq Options
  /\ tuples \subseteq Shape /\ current \in Shape
  /\ toadd \in Seq(Shape) /\ toinsert \in Seq(Rules) /\ absent \subseteq Rules
  /\ pairs \in 0 .. MaxPairs /\ ep_step \in Nat /\ performance_drop_cnt \in Nat
  /\ pc \in {"listen", "add", "insert", "built"}
  /\ state \in [1 .. ObsTuples -> [f1 : Nat, l1 : Nat, f2 : Nat, l2 : Nat]]
  /\ done \in BOOLEAN

\* The shapes the program is told to build, one command at a time, have one or two
\* different fields: RlTuple divides by their number (rltuple.cpp:107), and only
\* the mask of the other side sees to it.
Legal(s) == /\ Len(s.used_field) \in 1 .. 2 /\ Len(s.prefix_len) = Len(s.used_field)
            /\ \A i, j \in DOMAIN s.used_field : s.used_field[i] = s.used_field[j] => i = j
            /\ \A i \in DOMAIN s.prefix_len : s.prefix_len[i] \in 1 .. Width[s.used_field[i]]
ShapesLegal == /\ \A s \in tuples : Legal(s)
               /\ ep_step > 0 => Legal(current)
               /\ ep_step = 0 => current = NoShape /\ tuples = {}

\* What the client believes to be the current shape is it (rltuple.cpp:149-168), and
\* there is always a command to send, one that makes no shape too wide for a key.
ObservationRight ==
  pc = "listen" /\ ~done => /\ state[1] = Slot(current)
                            /\ \E c \in getMask : FitsKey(ShapeAfter(c))

\* A classifier that is measured or shown holds every rule but the one a measurement
\* has deleted, and does not look unbuilt to runUpdate, which would build it a
\* second time and free it (main.cpp:98, 216).
ClassifierBuilt ==
  pc = "built" => /\ Stored = Rules \ absent
                  /\ absent = {} => TupleNum # 0
                  /\ \A s \in tuples \cup {current} : \E t \in DOMAIN tuple : tuple[t].shape = s

\* An episode stops growing: one tuple more than the limit when a default tuple comes
\* with the last one (main.cpp:448).
EpisodeBounded ==
  /\ Len(tuples_arr) <= MaxEpTuples + 1
  /\ ep_step <= MaxSteps /\ performance_drop_cnt <= MaxDrops

\* A measurement deletes and inserts again only rules the classifier knows: neither
\* half follows a NULL of id2tuple (main.cpp:163-220, rltuple.cpp:69-82, 245).
MeasureSafe ==
  pc = "built" => \A r \in Rules : r \in DOMAIN id2tuple /\ id2tuple[r] # NULL

\* The two sides agree on what is being built, and it can be built and measured.
SessionSound ==
  /\ SessionTypeOK /\ ShapesLegal /\ ObservationRight
  /\ ClassifierBuilt /\ EpisodeBounded /\ MeasureSafe

\* Every episode ends and another one begins: the limits do not depend on the agent
\* making progress, and no reply leaves it without a command to send.
EpisodeEnds == (~done ~> done) /\ (done ~> ~done)
=============================================================================
