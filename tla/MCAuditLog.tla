----------------------------- MODULE MCAuditLog -----------------------------
(* A finite instance of AuditLog: a workspace with a project whose agent has  *)
(* a token, and three entries of that workspace.                              *)
EXTENDS AuditLog, TLC

CONSTANTS mine, shop, key, ann, r1, r2

PartsOf == mine :> {mine, shop, key} @@ shop :> {shop, key} @@ key :> {key}
HomeOf  == key :> mine

\* Entries 1 and 2 go to the audit log with one timestamp, 3 is a forensic one.
TimeOf == [e \in Entries |-> 1]
WsOf   == [e \in Entries |-> mine]
NamesOf == <<{shop, key}, {key}, {shop}>>

Symmetry == Permutations(Requests)
=============================================================================
