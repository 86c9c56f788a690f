------------------------ MODULE MCVerificationCodes ------------------------
(***************************************************************************)
(* TLC instance of VerificationCodes.                                      *)
(***************************************************************************)
EXTENDS VerificationCodes, TLC

\* Requests are interchangeable.
Symmetry == Permutations(Requests)

=============================================================================
