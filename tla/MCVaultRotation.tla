-------------------------- MODULE MCVaultRotation --------------------------
(* Constant values for the runs of VaultRotation.                          *)
EXTENDS VaultRotation, TLC

CONSTANTS ann, bob, cid, v1, v2, i1, i2, a1, p1, p2, p3

OneParent == [a \in Attachments |-> i1]
AnnFounds == [v \in Vaults |-> ann]
AnnLeads == [u \in Users |-> IF u = ann THEN "owner" ELSE "member"]

Symmetry == Permutations(Plans) \cup Permutations(Vaults) \cup Permutations({bob, cid})
=============================================================================
