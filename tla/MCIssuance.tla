------------------------------- MODULE MCIssuance -------------------------------
(***************************************************************************)
(* Issuance for TLC: calls are interchangeable.                            *)
(***************************************************************************)
EXTENDS Issuance, TLC

CallSymmetry == Permutations(Calls)
=============================================================================
