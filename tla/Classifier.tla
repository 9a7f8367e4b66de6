----------------------------- MODULE Classifier -----------------------------
(***************************************************************************)
(* What a packet classifier promises (class Classifier, elementary.h): it  *)
(* keeps a set of rules, and a lookup answers with the highest priority    *)
(* among the rules of the set that match the packet, 0 when there is none. *)
(***************************************************************************)
EXTENDS Integers

CONSTANTS
  Rules,
  Prio,            \* priorities are distinct and positive
  Packets,
  Matches(_, _)    \* Matches(r, p): rule r matches packet p

VARIABLES
  stored,
  answer    \* the packet and the result of a lookup, until the next update

\* the highest of the priorities of the rules in S and 0
Best(S) == CHOOSE m \in {0} \cup {Prio[r] : r \in S} : \A r \in S : Prio[r] <= m

Init == stored = {} /\ answer = <<>>

Insert(r) == r \notin stored /\ stored' = stored \cup {r} /\ answer' = <<>>
Delete(r) == r \in stored /\ stored' = stored \ {r} /\ answer' = <<>>

\* a delete of a rule that is not stored may lose others
Lose(r) == /\ r \notin stored
           /\ \E lost \in SUBSET stored : stored' = stored \ lost
           /\ answer' = <<>>

Lookup(p) == /\ answer' = <<p, Best({r \in stored : Matches(r, p)})>>
             /\ UNCHANGED stored

Next == \/ \E r \in Rules : Insert(r) \/ Delete(r) \/ Lose(r)
        \/ \E p \in Packets : Lookup(p)

Spec == Init /\ [][Next]_<<stored, answer>>
=============================================================================
