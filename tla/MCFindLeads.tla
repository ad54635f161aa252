---------------------------- MODULE MCFindLeads -----------------------------
(* Instances of FindLeads for TLC.                                         *)
EXTENDS FindLeads

CONSTANTS r1, r2, r3, e1, e2, d1, d2

(* Two entries for one business, and one of another domain.                *)
TwoBusinesses == [r \in Raw |-> IF r = r3 THEN e2 ELSE e1]
OwnDomains    == [e \in Email |-> IF e = e1 THEN d1 ELSE d2]
=============================================================================
