----------------------------- MODULE MCOutreach -----------------------------
(* Instances of Outreach for TLC.                                          *)
EXTENDS Outreach, TLC

CONSTANTS l1, l2, l3, d1, d2

OneDomain  == [l \in Lead |-> d1]
TwoDomains == [l \in Lead |-> IF l = l1 THEN d1 ELSE d2]

SameDomainSymmetry == Permutations(Lead)
=============================================================================
