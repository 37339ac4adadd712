------------------------------ MODULE MCIssuance ------------------------------
(***************************************************************************)
(* Issuance with two blinded secrets: the calls of one exchange may be     *)
(* made with what belongs to the other.                                    *)
(***************************************************************************)
EXTENDS Issuance, MCKeyCorrectness, TLC

Symmetry == Permutations(Nonces) \cup Permutations(Secrets)
=============================================================================
