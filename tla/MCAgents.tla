------------------------------ MODULE MCAgents ------------------------------
(* A finite instance of Agents: two workspaces and two projects.                 *)
EXTENDS Agents, TLC

CONSTANTS old, new, shop, blog, a1, t1, t2, r1, r2

HomeOf == shop :> old @@ blog :> old

Symmetry == Permutations(Requests) \cup Permutations(Tokens)
              \cup Permutations(Projects)
=============================================================================
