----------------------------- MODULE MCBilling -----------------------------
(* Finite instances of Billing. *)
EXTENDS Billing, TLC

Symmetry == Permutations(Accounts) \cup Permutations(Requests) \cup Permutations(Workers)
=============================================================================
