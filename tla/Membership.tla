----------------------------- MODULE Membership -----------------------------
(***************************************************************************)
(* The membership rows of one workspace and the handlers that change them: *)
(* WorkspaceService.create_workspace and delete_workspace, the four        *)
(* MemberService handlers (apps/workspaces/services.py) and the shared     *)
(* branch of ProjectService.invite_to_project (apps/secrets_app).          *)
(*                                                                         *)
(* Every handler awaits the database several times and none of them holds  *)
(* a lock or a transaction across those awaits, so a request is a small    *)
(* process: it reads the caller's row, then the target's row, then perhaps *)
(* counts the admins, and writes last.  Each database call is one action;  *)
(* between two of them any other request may run.  What a request carries  *)
(* from one call to the next is its record in req.                         *)
(***************************************************************************)
EXTENDS Integers, FiniteSets

CONSTANTS
    Users,        \* accounts that may be members
    Requests,     \* HTTP requests that can be in progress at the same time
    FounderKeys,  \* may the owner's key be given (TRUE) or empty (FALSE)
    PlainRoles,   \* the roles without admin rights: member and read_only
    MaxRows,      \* bound: invitations are sent while fewer rows were inserted
    MaxBatch      \* bound: entries of one invite request

ASSUME RolesAssumption ==
    /\ "member" \in PlainRoles
    /\ PlainRoles \subseteq {"member", "read_only"}

ASSUME KeysAssumption == FounderKeys \subseteq BOOLEAN

ASSUME BoundsAssumption == MaxRows \in Nat /\ MaxBatch \in Nat \ {0}

VARIABLES
    ws,        \* "none", the type of the live workspace, or "deleted"
    member,    \* member[u]: u's row in the memberships table, or Absent
    nextId,    \* primary key of the next inserted row
    req        \* req[r]: what request r has read so far

vars == <<ws, member, nextId, req>>

-----------------------------------------------------------------------------
AdminRoles == {"owner", "admin"}
Grantable  == {"admin"} \cup PlainRoles    \* what the request schemas accept
Roles      == {"owner"} \cup Grantable

\* A row of the memberships table; id is its primary key.
Row == [id : Nat \ {0}, role : Roles, status : {"active", "invited"},
        key : BOOLEAN]
Absent == [id |-> 0, role |-> "none", status |-> "none", key |-> FALSE]

Live == ws \in {"personal", "shared"}

\* What get_membership finds: an ACTIVE row.
IsActive(u) == member[u].status = "active"
IsAdmin(u)  == IsActive(u) /\ member[u].role \in AdminRoles

ActiveAdmins == {u \in Users : IsAdmin(u)}
Owners       == {u \in Users : member[u].role = "owner"}

-----------------------------------------------------------------------------
\* The record of a request: the handler, where it stands, the role its caller
\* was read with (kept by remove_member only), the target and the row read for
\* it, the role to give, and the invite entries still to process.
Ops == {"invite", "project_invite", "update_role", "promote", "demote",
        "remove", "delete"}
Pcs == {"idle", "target", "count", "update", "activate", "create", "drop",
        "drop_ws"}

Record(pc, op, mine, target, role, key, left) ==
    [pc |-> pc, op |-> op, mine |-> mine, target |-> target, seen |-> Absent,
     role |-> role, key |-> key, left |-> left]

Idle == Record("idle", "none", "none", "none", "none", FALSE, 0)

Pending == [pc : Pcs \ {"idle"}, op : Ops, mine : Roles \cup {"none"},
            target : Users \cup {"none"}, seen : Row \cup {Absent},
            role : Roles \cup {"none"}, key : BOOLEAN, left : 0..MaxBatch]

TypeOK ==
    /\ ws \in {"none", "personal", "shared", "deleted"}
    /\ member \in [Users -> Row \cup {Absent}]
    /\ nextId \in Nat \ {0}
    /\ req \in [Requests -> Pending \cup {Idle}]

Init ==
    /\ ws = "none"
    /\ member = [u \in Users |-> Absent]
    /\ nextId = 1
    /\ req = [r \in Requests |-> Idle]

-----------------------------------------------------------------------------
\* Steps a request is made of.

At(r, pc) == req[r].pc = pc

Advance(r, rec) == req' = [req EXCEPT ![r] = rec]

Answer(r) == Advance(r, Idle)

\* A batch goes on with its next entry, any other request is answered.
EntryDone(r) ==
    IF req[r].left > 1
    THEN Advance(r, Record("target", "invite", "none", "none", "none", FALSE,
                           req[r].left - 1))
    ELSE Answer(r)

\* Slip: the write goes by user and workspace, not by primary key.
SomeRowThere(r) == member[req[r].target] # Absent

\* The row that the request read is still there under the same primary key:
\* UPDATE and DELETE statements name the primary key.
RowStillThere(r) == member[req[r].target].id = req[r].seen.id

-----------------------------------------------------------------------------
\* create_workspace, and the personal workspace of register_user: the
\* workspace and the owner's row, in one transaction.
CreateWorkspace(o, type, key) ==
    /\ ws = "none"
    /\ ws' = type
    /\ member' = [member EXCEPT ![o] = [id |-> nextId, role |-> "owner",
                                        status |-> "active", key |-> key]]
    /\ nextId' = nextId + 1
    /\ UNCHANGED req

\* First await of every handler: the caller's own row.  A caller without an
\* ACTIVE row, or without the role the handler asks for, is refused at once,
\* which changes nothing.
Begin(r, a, rec) ==
    /\ At(r, "idle")
    /\ IsActive(a)
    /\ Advance(r, rec)
    /\ UNCHANGED <<ws, member, nextId>>

BeginInvite(r, a, n) ==
    /\ IsAdmin(a)
    /\ Begin(r, a, Record("target", "invite", "none", "none", "none", FALSE, n))

BeginProjectInvite(r, a, u, role, key) ==
    /\ IsAdmin(a)
    /\ ws = "shared"
    /\ Begin(r, a, Record("target", "project_invite", "none", u, role, key, 0))

BeginUpdateRole(r, a, u, role) ==
    /\ IsAdmin(a)
    /\ Begin(r, a, Record("target", "update_role", "none", u, role, FALSE, 0))

ActionRole(op) == IF op = "promote" THEN "admin" ELSE "member"

BeginRoleAction(r, a, u, op) ==
    /\ IsAdmin(a)
    /\ Begin(r, a, Record("target", op, "none", u, ActionRole(op), FALSE, 0))

\* remove_member checks the caller's role only after it has read the target.
BeginRemove(r, a, u) ==
    Begin(r, a, Record("target", "remove", member[a].role, u, "none", FALSE, 0))

BeginDeleteWorkspace(r, a) ==
    /\ member[a].role = "owner"
    /\ ws # "personal"
    /\ Begin(r, a, Record("drop_ws", "delete", "none", "none", "none", FALSE, 0))

-----------------------------------------------------------------------------
\* Second await: the target's row, whatever its status.

\* One entry of process_member_invites: an entry with a key activates a row
\* that has none or is still INVITED; a user without a row gets one; all other
\* entries, an unknown address among them, are reported and skipped.
ReadInvitee(r, u, role, key) ==
    LET seen == member[u]
        to(pc) == Advance(r, [req[r] EXCEPT !.pc = pc, !.target = u,
                                            !.seen = seen, !.role = role,
                                            !.key = key])
    IN
    /\ At(r, "target") /\ req[r].op = "invite"
    /\ \/ seen # Absent /\ key /\ (~seen.key \/ seen.status = "invited")
          /\ to("activate")
       \/ seen # Absent /\ ~(key /\ (~seen.key \/ seen.status = "invited"))
          /\ EntryDone(r)
       \/ seen = Absent /\ to("create")
    /\ UNCHANGED <<ws, member, nextId>>

ReadProjectInvitee(r) ==
    /\ At(r, "target") /\ req[r].op = "project_invite"
    /\ IF member[req[r].target] # Absent
       THEN Answer(r)
       ELSE Advance(r, [req[r] EXCEPT !.pc = "create", !.seen = Absent])
    /\ UNCHANGED <<ws, member, nextId>>

ReadRoleTarget(r) ==
    LET seen == member[req[r].target] IN
    /\ At(r, "target") /\ req[r].op = "update_role"
    /\ IF seen = Absent \/ seen.role = "owner"
       THEN Answer(r)
       ELSE Advance(r, [req[r] EXCEPT !.pc = "update", !.seen = seen])
    /\ UNCHANGED <<ws, member, nextId>>

\* change_member_role_action has no owner guard; a demotion of an admin or of
\* the owner goes on to count the admins.
ReadActionTarget(r) ==
    LET seen == member[req[r].target]
        counts == req[r].op = "demote" /\ seen.role \in AdminRoles
    IN
    /\ At(r, "target") /\ req[r].op \in {"promote", "demote"}
    /\ IF seen = Absent
       THEN Answer(r)
       ELSE Advance(r, [req[r] EXCEPT !.pc = IF counts THEN "count" ELSE "update",
                                      !.seen = seen])
    /\ UNCHANGED <<ws, member, nextId>>

\* Slips: the owner is not protected; the other admins are not.
MayRemoveOwner(mine, seen) ==
    /\ seen # Absent
    /\ ~(mine = "admin" /\ seen.role = "admin")
    /\ mine \in AdminRoles

MayRemoveAdmin(mine, seen) ==
    /\ seen # Absent
    /\ seen.role # "owner"
    /\ mine \in AdminRoles

MayRemove(mine, seen) ==
    /\ seen # Absent
    /\ seen.role # "owner"
    /\ ~(mine = "admin" /\ seen.role = "admin")
    /\ mine \in AdminRoles

ReadRemoveTarget(r) ==
    LET seen == member[req[r].target] IN
    /\ At(r, "target") /\ req[r].op = "remove"
    /\ IF MayRemove(req[r].mine, seen)
       THEN Advance(r, [req[r] EXCEPT !.pc = "drop", !.seen = seen])
       ELSE Answer(r)
    /\ UNCHANGED <<ws, member, nextId>>

\* Slip: the member to be demoted is not counted.
CountNobody(r) ==
    /\ At(r, "count")
    /\ IF Cardinality(ActiveAdmins) <= 0
       THEN Answer(r)
       ELSE Advance(r, [req[r] EXCEPT !.pc = "update"])
    /\ UNCHANGED <<ws, member, nextId>>

\* Third await of a demotion: how many ACTIVE admins and owners there are.
CountAdmins(r) ==
    /\ At(r, "count")
    /\ IF Cardinality(ActiveAdmins) <= 1
       THEN Answer(r)
       ELSE Advance(r, [req[r] EXCEPT !.pc = "update"])
    /\ UNCHANGED <<ws, member, nextId>>

-----------------------------------------------------------------------------
\* Last await: the write.

\* asave(update_fields=["role", ...]): an UPDATE by primary key, which raises
\* DatabaseError when the row is gone.
WriteRole(r) ==
    LET u == req[r].target IN
    /\ At(r, "update")
    /\ member' = IF RowStillThere(r)
                 THEN [member EXCEPT ![u].role = req[r].role]
                 ELSE member
    /\ Answer(r)
    /\ UNCHANGED <<ws, nextId>>

\* Slip: the key is stored and the status left as it is.
WriteKeyOnly(r) ==
    LET u == req[r].target IN
    /\ At(r, "activate")
    /\ member' = IF RowStillThere(r)
                 THEN [member EXCEPT ![u] = [@ EXCEPT !.key = TRUE,
                                                      !.role = req[r].role]]
                 ELSE member
    /\ EntryDone(r)
    /\ UNCHANGED <<ws, nextId>>

\* asave(update_fields=["encrypted_workspace_key", "status", "role", ...])
WriteActivate(r) ==
    LET u == req[r].target IN
    /\ At(r, "activate")
    /\ member' = IF RowStillThere(r)
                 THEN [member EXCEPT ![u] = [@ EXCEPT !.key = TRUE,
                                                      !.status = "active",
                                                      !.role = req[r].role]]
                 ELSE member
    /\ EntryDone(r)
    /\ UNCHANGED <<ws, nextId>>

\* Slips: no foreign key to the workspace; no unique constraint.
InsertFailsOnMember(u) == member[u] # Absent

InsertFailsWhenClosed(u) == ~Live

\* An INSERT fails on the unique constraint (user, workspace) and on the
\* foreign key of a deleted workspace; the handler survives both.
InsertFails(u) == member[u] # Absent \/ ~Live

\* acreate of an invitation: INVITED without a key, ACTIVE with one.  The
\* shared branch of invite_to_project always inserts an ACTIVE row.
WriteCreate(r) ==
    LET u == req[r].target
        status == IF req[r].op = "project_invite" \/ req[r].key
                  THEN "active" ELSE "invited"
    IN
    /\ At(r, "create")
    /\ \/ /\ InsertFails(u)
          /\ UNCHANGED <<member, nextId>>
       \/ /\ ~InsertFails(u)
          /\ member' = [member EXCEPT ![u] = [id |-> nextId,
                                              role |-> req[r].role,
                                              status |-> status,
                                              key |-> req[r].key]]
          /\ nextId' = nextId + 1
    /\ EntryDone(r)
    /\ UNCHANGED ws

\* tm.adelete(): a DELETE by primary key, silent when the row is gone.
WriteRemove(r) ==
    /\ At(r, "drop")
    /\ member' = IF RowStillThere(r)
                 THEN [member EXCEPT ![req[r].target] = Absent]
                 ELSE member
    /\ Answer(r)
    /\ UNCHANGED <<ws, nextId>>

\* ws.adelete() cascades to every membership of the workspace.
WriteDeleteWorkspace(r) ==
    /\ At(r, "drop_ws")
    /\ ws' = "deleted"
    /\ member' = [u \in Users |-> Absent]
    /\ Answer(r)
    /\ UNCHANGED nextId

-----------------------------------------------------------------------------
\* What a client may ask for, and what the server does with it.  The bound
\* MaxRows is on the clients: no server step is ever blocked by it.
NewRequest(r) ==
    \E a \in Users :
        \/ nextId < MaxRows /\ \E n \in 1..MaxBatch : BeginInvite(r, a, n)
        \/ nextId < MaxRows /\ \E u \in Users, role \in Grantable, key \in BOOLEAN :
               BeginProjectInvite(r, a, u, role, key)
        \/ \E u \in Users, role \in Grantable : BeginUpdateRole(r, a, u, role)
        \/ \E u \in Users, op \in {"promote", "demote"} :
               BeginRoleAction(r, a, u, op)
        \/ \E u \in Users : BeginRemove(r, a, u)
        \/ BeginDeleteWorkspace(r, a)

ServerStep(r) ==
    \/ \E u \in Users, role \in Grantable, key \in BOOLEAN :
           ReadInvitee(r, u, role, key)
    \/ ReadProjectInvitee(r)
    \/ ReadRoleTarget(r)
    \/ ReadActionTarget(r)
    \/ ReadRemoveTarget(r)
    \/ CountAdmins(r)
    \/ WriteRole(r)
    \/ WriteActivate(r)
    \/ WriteCreate(r)
    \/ WriteRemove(r)
    \/ WriteDeleteWorkspace(r)

Next ==
    \/ \E o \in Users, type \in {"personal", "shared"}, key \in FounderKeys :
           CreateWorkspace(o, type, key)
    \/ \E r \in Requests : NewRequest(r) \/ ServerStep(r)

Spec == Init /\ [][Next]_vars

-----------------------------------------------------------------------------
(* What makes the invariants below inductive. *)

\* Primary keys are never reused, neither in the table nor in what requests
\* still remember.
KeysFresh ==
    /\ \A u \in Users : member[u].id < nextId
    /\ \A r \in Requests : req[r].seen.id < nextId

\* What a request is about to write: a grantable role, for a known target; a
\* removal was decided on a row that was not the owner's.
WritesAreChecked ==
    \A r \in Requests :
        /\ req[r].op # "invite" /\ req[r].pc = "target" => req[r].target \in Users
        /\ req[r].pc \in {"count", "update", "activate", "create"} =>
               req[r].target \in Users /\ req[r].role \in Grantable
        /\ req[r].op \in {"project_invite", "update_role", "promote", "demote"} =>
               req[r].role \in Grantable
        /\ req[r].pc \in {"count", "update", "activate", "drop"} =>
               req[r].seen # Absent
        /\ req[r].pc = "drop" =>
               req[r].target \in Users /\ req[r].seen.role # "owner"
        /\ req[r].pc = "drop_ws" => req[r].op = "delete"
        /\ req[r].left > 0 => req[r].op = "invite"

\* A removal that is about to be written was allowed when its target was read.
RemovalsAreAllowed ==
    \A r \in Requests : At(r, "drop") => MayRemove(req[r].mine, req[r].seen)

\* A row seen without the owner role has not got it since.
SeenOwnerStays ==
    \A r \in Requests : req[r].target \in Users /\ req[r].seen # Absent =>
        (RowStillThere(r) /\ member[req[r].target].role = "owner"
         => req[r].seen.role = "owner")

\* Nobody can send a request before there is a workspace.
QuietBeforeCreation == ws = "none" => \A r \in Requests : req[r] = Idle

OwnersAreActive == \A u \in Users : member[u].role = "owner" => IsActive(u)

-----------------------------------------------------------------------------
(* Properties *)

\* A membership row exists only in a live workspace: an invitation that was
\* checked before the workspace was deleted does not leave a row behind
\* (services.py:239-262 against 117-127, secrets_app/services.py:305-314).
NoOrphanRow == \A u \in Users : member[u] # Absent => Live

\* An INVITED row holds no workspace key: whatever the order in which
\* invitations, activations and role changes land, access to the key and the
\* ACTIVE status are given together (services.py:241-262).
InvitedHoldsNoKey ==
    \A u \in Users : member[u].status = "invited" => ~member[u].key

\* Nobody becomes owner after the workspace was created, and so an owner role
\* that is lost never comes back; no handler transfers it
\* (services.py:295-298, 343-358).
OwnersOnlyShrink == [][Live => Owners' \subseteq Owners]_vars

\* The row that holds the owner role is never removed but with the whole
\* workspace, although remove_member decides on a row it read one await
\* earlier (services.py:311-324).
OwnerNeverRemoved ==
    [][\A u \in Owners : ws' # "deleted" => member'[u].id = member[u].id]_vars

\* Once no owner is left and no deletion is in progress the workspace can
\* never be deleted: delete_workspace asks for a role nobody can get
\* (services.py:117-121).
Ownerless ==
    Live /\ Owners = {} /\ \A r \in Requests : req[r].op # "delete"

OwnerlessStays == [][Ownerless => Ownerless']_vars

\* A request changes or removes only the row it has read: a member who was
\* removed and invited again is not touched by a role change or a removal
\* that was aimed at the first membership (services.py:300, 324, 359).
StaleWriteMisses ==
    [][\A u \in Users : member[u] # Absent /\ member'[u] # member[u] /\ ws' = ws
         => \E r \in Requests : /\ req'[r] # req[r]
                                /\ req[r].target = u
                                /\ req[r].seen.id = member[u].id]_vars

\* "Admins cannot remove other admins" (services.py:319): a removal asked for
\* by an admin takes the row of an admin only when somebody has promoted that
\* row, the same one, since it was read.
AdminsKeepAdmins ==
    [][\A r \in Requests :
         req[r].pc = "drop" /\ req[r].mine = "admin" /\ req'[r] # req[r]
         => \A u \in Users : member'[u] = Absent /\ member[u].role = "admin"
               => req[r].target = u /\ req[r].seen.id = member[u].id
                  /\ req[r].seen.role \in PlainRoles]_vars

\* The inductive invariant of MembershipProofs.
IInv ==
    /\ TypeOK
    /\ NoOrphanRow
    /\ InvitedHoldsNoKey
    /\ KeysFresh
    /\ WritesAreChecked
    /\ SeenOwnerStays
    /\ OwnersAreActive
    /\ QuietBeforeCreation

-----------------------------------------------------------------------------
(* What the members API promises, see Roster. *)

Phase == IF Live THEN "open" ELSE IF ws = "none" THEN "none" ELSE "closed"

Standing(u) ==
    IF member[u] = Absent THEN "out"
    ELSE IF member[u].status = "invited" THEN "invited" ELSE member[u].role

Promised == INSTANCE Roster
    WITH phase <- Phase, standing <- [u \in Users |-> Standing(u)]

\* The handlers, with all their stale reads, implement the roster: the owner
\* is never removed, no second owner appears, no member becomes an invitee and
\* no row outlives the workspace (services.py:80-360).
ImplementsRoster == Promised!Spec

=============================================================================
