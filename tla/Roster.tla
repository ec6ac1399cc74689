------------------------------- MODULE Roster -------------------------------
(***************************************************************************)
(* What the members API promises about one workspace, whatever the         *)
(* handlers read in between: who stands where, and which changes of        *)
(* standing exist at all.  Membership.tla implements it; it is what a      *)
(* client that only sees the members list may rely on.                     *)
(***************************************************************************)
CONSTANTS Users, Grantable    \* accounts; the roles a caller may give

VARIABLES phase,              \* "none", "open" or "closed"
          standing            \* "out", "invited", "owner" or a granted role

vars == <<phase, standing>>

Init ==
    /\ phase = "none"
    /\ standing = [u \in Users |-> "out"]

\* The founder is the only user who ever becomes owner.
Found(o) ==
    /\ phase = "none"
    /\ phase' = "open"
    /\ standing' = [standing EXCEPT ![o] = "owner"]

\* Only a stranger can be invited: a member is never turned into an invitee.
Invite(u) ==
    /\ phase = "open"
    /\ standing[u] = "out"
    /\ standing' = [standing EXCEPT ![u] = "invited"]
    /\ UNCHANGED phase

\* Any user may be given any grantable role; the owner loses his that way.
Grant(u, role) ==
    /\ phase = "open"
    /\ standing' = [standing EXCEPT ![u] = role]
    /\ UNCHANGED phase

\* Everybody but the owner can be shown the door.
Remove(u) ==
    /\ phase = "open"
    /\ standing[u] # "owner"
    /\ standing' = [standing EXCEPT ![u] = "out"]
    /\ UNCHANGED phase

\* Deleting the workspace is the one change that concerns several members.
Close ==
    /\ phase = "open"
    /\ phase' = "closed"
    /\ standing' = [u \in Users |-> "out"]

Next ==
    \/ Close
    \/ \E u \in Users :
        \/ Found(u) \/ Invite(u) \/ Remove(u)
        \/ \E role \in Grantable : Grant(u, role)

Spec == Init /\ [][Next]_vars
=============================================================================
