-------------------------- MODULE MembershipHistory --------------------------
(***************************************************************************)
(* Membership with a history variable: whom a demotion has counted.  It    *)
(* follows the handlers and never holds one up.                            *)
(***************************************************************************)
EXTENDS Membership

\* counted[r] are the admins a demotion has counted.
VARIABLE counted

HistoryInit == Init /\ counted = [r \in Requests |-> {}]

HistoryNext ==
    /\ Next
    /\ counted' = [r \in Requests |->
                     IF At(r, "count") /\ req'[r].pc = "update" THEN ActiveAdmins
                     ELSE IF At(r, "update") /\ req'[r] = req[r] THEN counted[r]
                     ELSE {}]

HistorySpec == HistoryInit /\ [][HistoryNext]_<<vars, counted>>

\* "You are the only admin. Promote another member first." (services.py:354): a
\* demotion takes the last ACTIVE admin or owner away only when what it has
\* read is no longer so: its target was promoted meanwhile, or one of those
\* it has counted is no admin any more.
DemotionLeavesAnAdmin ==
    [][\A r \in Requests :
         /\ At(r, "update") /\ req[r].op = "demote" /\ req'[r] # req[r]
         /\ ActiveAdmins # {} /\ ActiveAdmins' = {}
         => \/ req[r].seen.role # member[req[r].target].role
            \/ ~(counted[r] \subseteq ActiveAdmins)]_<<vars, counted>>
-----------------------------------------------------------------------------
\* What makes it inductive: a demotion of an admin that is about to be written
\* has counted two.
TwoCounted ==
    \A r \in Requests :
        /\ At(r, "update") /\ req[r].op = "demote"
        /\ req[r].seen.role \in AdminRoles
        => ~(Cardinality(counted[r]) <= 1)

HistoryInv == counted \in [Requests -> SUBSET Users] /\ TwoCounted
=============================================================================
