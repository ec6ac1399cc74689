---------------------------- MODULE MCMembership ----------------------------
(* Finite instances of Membership. *)
EXTENDS MembershipHistory, TLC

\* Accounts and requests are interchangeable.
Symmetry == Permutations(Users) \cup Permutations(Requests)
=============================================================================
