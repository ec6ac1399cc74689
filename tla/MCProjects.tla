----------------------------- MODULE MCProjects -----------------------------
(* Finite instances of Projects: home is a personal workspace, shared exists  *)
(* from the start, later is what a migration creates.                         *)
EXTENDS Projects, TLC

CONSTANTS home, shared, later, ann, bob, p1, k1, n1, n2, r1, r2

OnlyTwo == (home :> {ann} @@ shared :> {ann})

\* ann is an admin of both workspaces, bob, who sends nothing, of the shared one.
BobShared == (home :> {ann} @@ shared :> {ann, bob} @@ later :> {})

\* ann, who owns the home workspace, is removed from the shared one.
AnnRemoved == [w \in Workspaces |-> IF w = shared THEN {{bob}} ELSE {}]

Nobody == [w \in Workspaces |-> {}]

One == {{k1}}

Symmetry == Permutations(Requests) \cup Permutations(Names)
=============================================================================
