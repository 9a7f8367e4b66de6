----------------------------- MODULE RuleStore -----------------------------
(***************************************************************************)
(* What a hash table of rules promises, whatever it does with its nodes:   *)
(* an insert adds the rule or changes nothing, a delete of a stored rule   *)
(* removes that rule alone, and a delete of a rule that is not stored may  *)
(* lose the stored rules with the same key, never any other rule.          *)
(***************************************************************************)
CONSTANTS Rules, KeyOf

VARIABLE stored

Init == stored = {}

Insert(r) == r \notin stored /\ stored' = stored \cup {r}
Delete(r) == r \in stored /\ stored' = stored \ {r}
Lose(r) == r \notin stored /\ stored' = {q \in stored : KeyOf[q] # KeyOf[r]}

Next == \E r \in Rules : Insert(r) \/ Delete(r) \/ Lose(r)

Spec == Init /\ [][Next]_stored
=============================================================================
