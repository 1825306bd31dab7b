------------------------------ MODULE MCFactors ------------------------------
(***************************************************************************)
(* Factors for TLC: two handlers and two factors to race on.  The codes are  *)
(* one that both Activate and Verify accept and one that only Verify does.   *)
(***************************************************************************)
EXTENDS Factors, TLC

Symmetry == Permutations(Handlers) \cup Permutations(Identities) \cup Permutations(FactorIDs)
=============================================================================
