-------------------------- MODULE ClientSuppression --------------------------
(***************************************************************************)
(* What the set of purged clients promises to the rest of the integration: *)
(* from the moment a purge's mark returns until a router confirms the      *)
(* client online, no node takes the client into its table.                 *)
(***************************************************************************)
CONSTANT Macs

VARIABLES
    owed,       \* marked, and not confirmed online since
    passed      \* let through since the last mark

Mark(S) == owed' = owed \cup S /\ passed' = passed \ S

Confirm(m) == owed' = owed \ {m} /\ UNCHANGED passed

Pass(m) == m \notin owed /\ passed' = passed \cup {m} /\ UNCHANGED owed

Init == owed \in SUBSET Macs /\ passed = {}

Next ==
    \/ \E S \in SUBSET Macs : Mark(S)
    \/ \E m \in Macs : Confirm(m) \/ Pass(m)

Spec == Init /\ [][Next]_<<owed, passed>>
=============================================================================
