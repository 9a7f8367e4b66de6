-------------------------------- MODULE PSTSS --------------------------------
(***************************************************************************)
(* PriorityTupleSpaceSearch (partitionsort/OVS/TupleSpaceSearch.cpp and    *)
(* .h): one tuple for each pair of prefix lengths some rule has, found     *)
(* through a map by updates and through a sorted vector by lookups.  The   *)
(* last delete of a tuple erases it from the map, sorts, and pops the last *)
(* entry of the vector.                                                    *)
(*                                                                         *)
(* Callers delete only rules that are stored and insert only others, as    *)
(* PerformOnlyPacketClassification does (Simulation.cpp:179-182).  A tuple *)
(* in the vector is named by its key in the map: it keeps the key for      *)
(* life, and is never freed.                                               *)
(***************************************************************************)
EXTENDS PrefixTable

VARIABLES
  all_priority_tuples,     \* the map, from keys to tuples
  priority_tuples_vector,  \* the keys of the tuples in it
  scan,                    \* the lookup in progress, or NoScan
  answer                   \* the packet and the result of a lookup, until the next update

vars == <<all_priority_tuples, priority_tuples_vector, scan, answer>>
store == <<all_priority_tuples, priority_tuples_vector>>

NoScan == [packet |-> <<>>, q |-> 0, priority |-> -1]

Stored == UNION {all_priority_tuples[k].rules : k \in DOMAIN all_priority_tuples}

Init ==
  /\ all_priority_tuples = [k \in {} |-> NewTable(LengthsOf(CHOOSE r \in Rules : TRUE))]
  /\ priority_tuples_vector = <<>>
  /\ scan = NoScan
  /\ answer = <<>>

\* dims are FieldSA and FieldDA; each length takes six bits
KeyRulePrefix(r) == PrefixLen[r][0] * 2 ^ 6 + PrefixLen[r][1]

----------------------------------------------------------------------------
(***************************************************************************)
(* Updates.                                                                *)
(***************************************************************************)

\* RetainInvaraintOfPriorityVector
Resort(h, vector) == priority_tuples_vector' \in Sorted(h, vector)

InsertOld(r) ==
  LET k == KeyRulePrefix(r)
      h == [all_priority_tuples EXCEPT ![k] = Insertion(@, r)]
  IN  /\ k \in DOMAIN all_priority_tuples
      /\ all_priority_tuples' = h
      /\ IF Prio[r] > all_priority_tuples[k].maxPriority
         THEN Resort(h, priority_tuples_vector) ELSE UNCHANGED priority_tuples_vector

InsertNew(r) ==
  LET k == KeyRulePrefix(r)
      h == [j \in DOMAIN all_priority_tuples \cup {k} |->
              IF j = k THEN Insertion(NewTable(LengthsOf(r)), r) ELSE all_priority_tuples[j]]
  IN  /\ k \notin DOMAIN all_priority_tuples
      /\ all_priority_tuples' = h
      /\ Resort(h, Append(priority_tuples_vector, k))

InsertRule(r) ==
  /\ scan = NoScan /\ r \notin Stored
  /\ InsertOld(r) \/ InsertNew(r)
  /\ answer' = <<>>
  /\ UNCHANGED scan

DeleteOne(r) ==
  LET k == KeyRulePrefix(r)
      T == all_priority_tuples[k]
      h == [all_priority_tuples EXCEPT ![k] = Deletion(T, r)]
  IN  /\ T.rules # {r}
      /\ all_priority_tuples' = h
      /\ IF DeletionChanges(T, r)
         THEN Resort(h, priority_tuples_vector) ELSE UNCHANGED priority_tuples_vector

\* erase from the map, sort, pop_back
DeleteLast(r) ==
  LET k == KeyRulePrefix(r)
      h == [all_priority_tuples EXCEPT ![k] = Deletion(@, r)]
  IN  /\ all_priority_tuples[k].rules = {r}
      /\ all_priority_tuples' = [j \in DOMAIN all_priority_tuples \ {k} |-> all_priority_tuples[j]]
      /\ \E s \in Sorted(h, priority_tuples_vector) :
           priority_tuples_vector' = SubSeq(s, 1, Len(s) - 1)

DeleteRule(r) ==
  /\ scan = NoScan
  /\ KeyRulePrefix(r) \in DOMAIN all_priority_tuples
  /\ r \in all_priority_tuples[KeyRulePrefix(r)].rules
  /\ DeleteOne(r) \/ DeleteLast(r)
  /\ answer' = <<>>
  /\ UNCHANGED scan

----------------------------------------------------------------------------
(***************************************************************************)
(* ClassifyAPacket, one step for each tuple probed.                        *)
(***************************************************************************)
ClassifyStart(p) ==
  /\ scan = NoScan
  /\ scan' = [NoScan EXCEPT !.packet = p]
  /\ UNCHANGED <<store, answer>>

NextTuple == all_priority_tuples[priority_tuples_vector[scan.q + 1]]

ScanOver == scan.q < Len(priority_tuples_vector) => scan.priority > NextTuple.maxPriority

ClassifyProbe ==
  /\ scan # NoScan /\ ~ScanOver
  /\ LET result == FindMatchPacket(NextTuple, scan.packet) IN
     scan' = [scan EXCEPT !.q = @ + 1, !.priority = IF @ > result THEN @ ELSE result]
  /\ UNCHANGED <<store, answer>>

ClassifyEnd ==
  /\ scan # NoScan /\ ScanOver
  /\ answer' = <<scan.packet, scan.priority>>
  /\ scan' = NoScan
  /\ UNCHANGED store

Next == \/ \E r \in Rules : InsertRule(r) \/ DeleteRule(r)
        \/ \E p \in Packets : ClassifyStart(p)
        \/ ClassifyProbe \/ ClassifyEnd

Spec == Init /\ [][Next]_vars

----------------------------------------------------------------------------
(***************************************************************************)
(* Properties.                                                             *)
(***************************************************************************)

\* Types of the members (TupleSpaceSearch.h:195-196); no pointer of the vector
\* is to a tuple that has left the map.
TypeOK ==
  /\ \A k \in DOMAIN all_priority_tuples : k \in Nat /\ all_priority_tuples[k] \in Table
  /\ priority_tuples_vector \in Seq(DOMAIN all_priority_tuples)
  /\ scan = NoScan \/ scan \in [packet : Packets, q : 0 .. Len(priority_tuples_vector), priority : Nat \cup {-1}]

\* The vector lists the tuples of the map, each once: the entry that the delete
\* of a tuple's last rule pops is that tuple (TupleSpaceSearch.cpp:287-293).
VectorExact ==
  /\ Elements(priority_tuples_vector) = DOMAIN all_priority_tuples
  /\ Len(priority_tuples_vector) = Cardinality(DOMAIN all_priority_tuples)

\* The vector descends, although updates sort it only on a priority change.
VectorSorted == Descends(all_priority_tuples, priority_tuples_vector)

\* No tuple is empty, and each caches the best priority it holds.
TuplesExact ==
  \A k \in DOMAIN all_priority_tuples :
    /\ all_priority_tuples[k].rules # {}
    /\ all_priority_tuples[k].maxPriority = Top(all_priority_tuples[k].rules)

\* During a lookup the best match so far is that of the tuples probed, and when
\* the lookup ends early nothing better is left (TupleSpaceSearch.cpp:248-256).
Probed == UNION {all_priority_tuples[priority_tuples_vector[i]].rules : i \in 1 .. scan.q}
ScanExact ==
  scan # NoScan =>
    /\ scan.priority = Top({r \in Probed : Matches(r, scan.packet)})
    /\ ScanOver => scan.priority = Top({r \in Stored : Matches(r, scan.packet)})

\* The structure lookups and deletes rest on.
TuplesSound == VectorExact /\ VectorSorted /\ TuplesExact /\ ScanExact

\* The search implements the classifier; its -1 is the 0 of "no match".
Abstract == INSTANCE Classifier WITH
  stored <- Stored,
  answer <- IF answer = <<>> \/ answer[2] >= 0 THEN answer ELSE <<answer[1], 0>>
ClassifierSpec == Abstract!Spec
=============================================================================
