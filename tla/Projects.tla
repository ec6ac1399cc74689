------------------------------ MODULE Projects ------------------------------
(***************************************************************************)
(* Projects and the secrets in them: ProjectService and SecretService of   *)
(* apps/secrets_app/services.py.  What becomes of the agents of a project  *)
(* is in Agents.                                                           *)
(*                                                                         *)
(* A secret is encrypted by the client under the key of one workspace.     *)
(* Moving a project to another workspace therefore needs new ciphertexts   *)
(* for all its secrets, which the client prepares from a list it fetched   *)
(* before.  As in Membership, a request is a small process that reads      *)
(* first and writes last, and each await is one action.  Every caller here *)
(* is an owner or admin where the handler asks for one at the time it asks,*)
(* and may have lost that role when the handler writes.  A lookup that     *)
(* fails and a write the database refuses both end the request with        *)
(* nothing changed, so consecutive lookups that only decide between going  *)
(* on and refusing are one action.                                         *)
(***************************************************************************)
EXTENDS Naturals, FiniteSets

CONSTANTS
    Workspaces,   \* ids of workspaces, those still to be created included
    Personal,     \* the personal ones
    FirstAdmins,  \* FirstAdmins[w]: owner and admins of w, if it exists from the start
    AdminSets,    \* AdminSets[w]: bound, the sets of admins that w may be given
    Users,        \* users who may be admins
    Callers,      \* those of them who send requests
    Projects,     \* ids of projects
    Names,        \* project names
    Keys,         \* environment and name of a secret
    Environments, \* the sets of keys that clean_environment empties
    Requests,     \* requests in progress at the same time
    MaxRows       \* bound: secrets are asked for while fewer were inserted

ASSUME PersonalAssumption == Personal \subseteq Workspaces
ASSUME AdminsAssumption ==
    /\ Callers \subseteq Users
    /\ FirstAdmins \in [Workspaces -> SUBSET Users]
    /\ AdminSets \in [Workspaces -> SUBSET (SUBSET Users)]
ASSUME EnvironmentsAssumption == Environments \subseteq SUBSET Keys
ASSUME RowsAssumption == MaxRows \in Nat
ASSUME NoneAssumption == "none" \notin Workspaces \cup Users

VARIABLES
    live,         \* the workspaces that exist
    admins,       \* admins[w]: owner and admins of w at the moment
    proj,         \* proj[p]: the row of project p, or NoProject
    born,         \* projects and workspaces that were ever inserted
    secret,       \* secret[p][k]: the row, or NoSecret
    nextId,       \* primary key of the next secret
    req           \* req[r]: what request r has read so far

vars == <<live, admins, proj, born, secret, nextId, req>>
db   == <<live, admins, proj, born, secret, nextId>>

-----------------------------------------------------------------------------
NoProject == [ws |-> "none", name |-> "none"]
Project   == [ws : Workspaces, name : Names]

NoSecret == [id |-> 0, under |-> "none", policy |-> "none"]
Secret   == [id : Nat \ {0}, under : Workspaces, policy : {"open", "limited"}]
NoKeys   == [k \in Keys |-> 0]

\* A request: the row of its project as it was read, the primary keys of the
\* secrets it has listed or read, and what it was asked to write.  lost is
\* history: where the caller has ceased to be an admin since it began.
Idle == [pc |-> "idle", caller |-> "none", p |-> "none", row |-> NoProject,
         to |-> "none", name |-> "none", ids |-> NoKeys, keys |-> {},
         policy |-> "none", lost |-> {}]
Pcs == {"resolve_move", "target", "move", "resolve_invite", "migrate",
        "insert_project", "check_name", "save", "drop_project",
        "read", "upsert", "read_one", "set_value", "read_policy", "set_policy",
        "read_drop", "drop_secret", "clean"}
Pending == [pc : Pcs, caller : Callers \cup {"none"}, p : Projects \cup {"none"},
            row : [ws : Workspaces \cup {"none"}, name : Names \cup {"none"}],
            to : Workspaces \cup {"none"},
            name : Names \cup {"none"}, ids : [Keys -> Nat], keys : SUBSET Keys,
            policy : {"none", "open", "limited"}, lost : SUBSET Workspaces]

TypeOK ==
    /\ live \subseteq Workspaces
    /\ admins \in [Workspaces -> SUBSET Users]
    /\ proj \in [Projects -> Project \cup {NoProject}]
    /\ born \subseteq Projects \cup Workspaces
    /\ secret \in [Projects -> [Keys -> Secret \cup {NoSecret}]]
    /\ nextId \in Nat \ {0}
    /\ req \in [Requests -> Pending \cup {Idle}]

Init ==
    /\ live = {w \in Workspaces : FirstAdmins[w] # {}}
    /\ admins = FirstAdmins
    /\ proj = [p \in Projects |-> NoProject]
    /\ born = live
    /\ secret = [p \in Projects |-> [k \in Keys |-> NoSecret]]
    /\ nextId = 1
    /\ req = [r \in Requests |-> Idle]

-----------------------------------------------------------------------------
\* Steps a request is made of.

At(r, pc) == req[r].pc = pc

Start(r, rec) ==
    /\ At(r, "idle")
    /\ req' = [req EXCEPT ![r] = rec]
    /\ UNCHANGED db

Go(r, pc) == req' = [req EXCEPT ![r].pc = pc]

Answer(r) == req' = [req EXCEPT ![r] = Idle]

\* Slip: the caller's role is not asked for.
ResolvedForAnyone(r) ==
    {p \in Projects : /\ proj[p].name = req[r].row.name
                      /\ proj[p].ws \in live
                      /\ req[r].row.ws \in {"none", proj[p].ws}}

\* resolve_project: by name, in one workspace or in all of the caller's.
Resolved(r) ==
    {p \in Projects : /\ proj[p].name = req[r].row.name
                      /\ proj[p].ws \in live
                      /\ req[r].row.ws \in {"none", proj[p].ws}
                      /\ req[r].caller \in admins[proj[p].ws]}

\* Slip: no foreign key to the workspace.
AllowedAnywhere(p, row) == \A q \in Projects \ {p} : proj[q] # row

\* The unique constraint (workspace, name) and the foreign key to workspaces.
Allowed(p, row) ==
    /\ row.ws \in live
    /\ \A q \in Projects \ {p} : proj[q] # row

Ids(p) == [k \in Keys |-> secret[p][k].id]

\* Slips: the whole row is written, with a fresh policy; nothing is written.
RewrappedWithPolicy(p, K, w) ==
    [secret EXCEPT ![p] = [k \in Keys |-> IF k \in K
                                          THEN [@[k] EXCEPT !.under = w,
                                                            !.policy = "open"]
                                          ELSE @[k]]]

RewrappedNothing(p, K, w) == secret

\* The secrets of p with new ciphertexts under w for the keys in K.
Rewrapped(p, K, w) ==
    [secret EXCEPT ![p] = [k \in Keys |-> IF k \in K
                                          THEN [@[k] EXCEPT !.under = w]
                                          ELSE @[k]]]

\* The rows of project p that request r has read and that are still there.
StillThere(r, p) == {k \in Keys : req[r].ids[k] # 0 /\ secret[p][k].id = req[r].ids[k]}

-----------------------------------------------------------------------------
\* create_project: the name is looked up, then the row is inserted.
BeginCreate(r, c, w, n) ==
    /\ c \in admins[w]
    /\ \A q \in Projects : proj[q] # [ws |-> w, name |-> n]
    /\ Start(r, [Idle EXCEPT !.pc = "insert_project", !.to = w, !.name = n])

InsertProject(r) ==
    LET row == [ws |-> req[r].to, name |-> req[r].name] IN
    /\ At(r, "insert_project")
    /\ \/ \E p \in Projects \ born :
            /\ Allowed(p, row)
            /\ proj' = [proj EXCEPT ![p] = row]
            /\ born' = born \cup {p}
       \/ /\ \A p \in Projects \ born : ~Allowed(p, row)
          /\ UNCHANGED <<proj, born>>
    /\ Answer(r)
    /\ UNCHANGED <<live, admins, secret, nextId>>

\* update_project: the row is read, a new name is looked up, and the whole row
\* is saved as it was read, workspace included; asave() without update_fields
\* inserts the row when it is gone.
BeginUpdate(r, c, p, n) ==
    /\ proj[p] # NoProject
    /\ c \in admins[proj[p].ws]
    /\ Start(r, [Idle EXCEPT !.pc = IF n = proj[p].name THEN "save" ELSE "check_name",
                             !.p = p, !.row = proj[p], !.name = n])

CheckName(r) ==
    /\ At(r, "check_name")
    /\ IF \A q \in Projects : proj[q] # [req[r].row EXCEPT !.name = req[r].name]
       THEN Go(r, "save")
       ELSE Answer(r)
    /\ UNCHANGED db

SaveProject(r) ==
    LET p == req[r].p
        row == [req[r].row EXCEPT !.name = req[r].name]
    IN
    /\ At(r, "save")
    /\ proj' = IF Allowed(p, row) THEN [proj EXCEPT ![p] = row] ELSE proj
    /\ Answer(r)
    /\ UNCHANGED <<live, admins, born, secret, nextId>>

\* delete_project: the row goes with its secrets.
BeginDelete(r, c, p) ==
    /\ proj[p] # NoProject
    /\ c \in admins[proj[p].ws]
    /\ Start(r, [Idle EXCEPT !.pc = "drop_project", !.p = p])

DropProject(r) ==
    LET p == req[r].p IN
    /\ At(r, "drop_project")
    /\ proj' = [proj EXCEPT ![p] = NoProject]
    /\ secret' = [secret EXCEPT ![p] = [k \in Keys |-> NoSecret]]
    /\ Answer(r)
    /\ UNCHANGED <<live, admins, born, nextId>>

-----------------------------------------------------------------------------
\* transfer_project.  The client has listed the secrets and re-encrypts them
\* for the target workspace; it may or may not name the source workspace.
\* That the caller is an admin there is only asked later.
BeginTransfer(r, c, p, w, source) ==
    /\ proj[p] # NoProject
    /\ source \in {"none", proj[p].ws}
    /\ Start(r, [Idle EXCEPT !.pc = "resolve_move", !.caller = c, !.to = w,
                             !.row = [ws |-> source, name |-> proj[p].name],
                             !.ids = Ids(p)])

ResolveTransfer(r) ==
    /\ At(r, "resolve_move")
    /\ \/ \E p \in Resolved(r) :
            IF proj[p].ws = req[r].to
            THEN Answer(r)
            ELSE req' = [req EXCEPT ![r].pc = "target", ![r].p = p, ![r].row = proj[p]]
       \/ Resolved(r) = {} /\ Answer(r)
    /\ UNCHANGED db

\* The target exists, the caller is an admin there and the name is free.
CheckTarget(r) ==
    /\ At(r, "target")
    /\ IF /\ req[r].to \in live
          /\ req[r].caller \in admins[req[r].to]
          /\ \A q \in Projects : proj[q] # [req[r].row EXCEPT !.ws = req[r].to]
       THEN Go(r, "move")
       ELSE Answer(r)
    /\ UNCHANGED db

\* One transaction: the workspace of the project as it is now and the listed
\* secrets that still exist (the registrations of its agents are in Agents).
Transfer(r) ==
    LET p == req[r].p  w == req[r].to IN
    /\ At(r, "move")
    /\ IF proj[p] # NoProject /\ Allowed(p, [proj[p] EXCEPT !.ws = w])
       THEN /\ proj' = [proj EXCEPT ![p].ws = w]
            /\ secret' = Rewrapped(p, StillThere(r, p), w)
       ELSE UNCHANGED <<proj, secret>>
    /\ Answer(r)
    /\ UNCHANGED <<live, admins, born, nextId>>

\* invite_to_project in a personal workspace: a new shared workspace takes the
\* project over.  Again the client has re-encrypted what it has listed.
BeginInvite(r, c, p) ==
    /\ proj[p] # NoProject
    /\ Start(r, [Idle EXCEPT !.pc = "resolve_invite", !.caller = c,
                             !.row = proj[p], !.ids = Ids(p)])

\* In a shared workspace the invitation changes no project (see Membership).
ResolveInvite(r) ==
    /\ At(r, "resolve_invite")
    /\ \/ \E p \in Resolved(r) :
            IF proj[p].ws \in Personal
            THEN req' = [req EXCEPT ![r].pc = "migrate", ![r].p = p]
            ELSE Answer(r)
       \/ Resolved(r) = {} /\ Answer(r)
    /\ UNCHANGED db

\* One transaction: workspace, owner, project, update_or_create by key, and the
\* invitee, who may be made an admin too.
Migrate(r, w, invited) ==
    LET p == req[r].p
        listed == {k \in Keys : req[r].ids[k] # 0}
        lost == {k \in listed : secret[p][k] = NoSecret}
    IN
    /\ At(r, "migrate")
    /\ w \in Workspaces \ (born \cup Personal)
    /\ IF proj[p] # NoProject
       THEN /\ live' = live \cup {w}
            /\ admins' = [admins EXCEPT ![w] = {req[r].caller} \cup invited]
            /\ born' = born \cup {w}
            /\ proj' = [proj EXCEPT ![p].ws = w]
            /\ secret' = [secret EXCEPT ![p] =
                   [k \in Keys |->
                      IF k \in lost
                      THEN [id |-> nextId, under |-> w, policy |-> "open"]
                      ELSE IF k \in listed THEN [@[k] EXCEPT !.under = w] ELSE @[k]]]
            /\ nextId' = IF lost = {} THEN nextId ELSE nextId + 1
       ELSE UNCHANGED db
    /\ Answer(r)

\* delete_workspace takes everything in it along (its handler is in
\* Membership).
DeleteWorkspace(w) ==
    LET gone == {p \in Projects : proj[p].ws = w} IN
    /\ w \in live \ Personal
    /\ live' = live \ {w}
    /\ admins' = [admins EXCEPT ![w] = {}]
    /\ proj' = [p \in Projects |-> IF p \in gone THEN NoProject ELSE proj[p]]
    /\ secret' = [p \in Projects |-> IF p \in gone
                                     THEN [k \in Keys |-> NoSecret] ELSE secret[p]]
    /\ UNCHANGED <<born, nextId, req>>

\* A promotion, demotion, removal or invitation (their handlers are in
\* Membership).
SetAdmins(w, A) ==
    /\ w \in live /\ A # admins[w]
    /\ admins' = [admins EXCEPT ![w] = A]
    /\ req' = [r \in Requests |->
                 IF req[r].caller \in admins[w] \ A
                 THEN [req[r] EXCEPT !.lost = @ \cup {w}] ELSE req[r]]
    /\ UNCHANGED <<live, proj, born, secret, nextId>>

-----------------------------------------------------------------------------
\* bulk_upsert_secrets.  The client encrypts for the workspace it knows the
\* project to be in; which of the keys exist is read before they are written.
BeginUpsert(r, p, K) ==
    /\ proj[p] # NoProject /\ K # {}
    /\ Start(r, [Idle EXCEPT !.pc = "read", !.p = p, !.to = proj[p].ws, !.keys = K])

ReadExisting(r) ==
    LET p == req[r].p IN
    /\ At(r, "read")
    /\ IF proj[p] = NoProject
       THEN Answer(r)
       ELSE req' = [req EXCEPT ![r].pc = "upsert", ![r].ids = Ids(p)]
    /\ UNCHANGED db

\* bulk_create fails as a whole when one of the keys was inserted meanwhile;
\* bulk_update(["value"]) passes over rows that are gone.
Upsert(r) ==
    LET p == req[r].p  w == req[r].to
        new == {k \in req[r].keys : req[r].ids[k] = 0}
        old == StillThere(r, p) \cap req[r].keys
    IN
    /\ At(r, "upsert")
    /\ IF new = {} \/ (proj[p] # NoProject /\ \A k \in new : secret[p][k] = NoSecret)
       THEN /\ secret' = [secret EXCEPT ![p] =
                   [k \in Keys |->
                      IF k \in new
                      THEN [id |-> nextId, under |-> w, policy |-> "open"]
                      ELSE IF k \in old THEN [@[k] EXCEPT !.under = w] ELSE @[k]]]
            /\ nextId' = IF new = {} THEN nextId ELSE nextId + 1
       ELSE UNCHANGED <<secret, nextId>>
    /\ Answer(r)
    /\ UNCHANGED <<live, admins, proj, born>>

\* update_secret, update_secret_policy and delete_secret: the row is read, then
\* written or deleted by primary key.
BeginSecret(r, p, k, pc, policy) ==
    /\ secret[p][k] # NoSecret
    /\ Start(r, [Idle EXCEPT !.pc = pc, !.p = p, !.to = proj[p].ws, !.keys = {k},
                             !.policy = policy])

After(pc) == CASE pc = "read_one"    -> "set_value"
               [] pc = "read_policy" -> "set_policy"
               [] pc = "read_drop"   -> "drop_secret"

ReadSecret(r) ==
    LET p == req[r].p
        ids == [k \in Keys |-> IF k \in req[r].keys THEN secret[p][k].id ELSE 0]
    IN
    /\ req[r].pc \in {"read_one", "read_policy", "read_drop"}
    /\ IF ids = NoKeys
       THEN Answer(r)
       ELSE req' = [req EXCEPT ![r].pc = After(@), ![r].ids = ids]
    /\ UNCHANGED db

\* Slip: asave() without update_fields inserts the row when it is gone.
SetValueOrInsert(r) ==
    LET p == req[r].p IN
    /\ At(r, "set_value")
    /\ secret' = [secret EXCEPT ![p] =
                      [k \in Keys |-> IF k \in req[r].keys
                                      THEN [id |-> req[r].ids[k], under |-> req[r].to,
                                            policy |-> "open"]
                                      ELSE @[k]]]
    /\ Answer(r)
    /\ UNCHANGED <<live, admins, proj, born, nextId>>

SetValue(r) ==
    /\ At(r, "set_value")
    /\ secret' = Rewrapped(req[r].p, StillThere(r, req[r].p), req[r].to)
    /\ Answer(r)
    /\ UNCHANGED <<live, admins, proj, born, nextId>>

SetPolicy(r) ==
    LET p == req[r].p IN
    /\ At(r, "set_policy")
    /\ secret' = [secret EXCEPT ![p] =
                      [k \in Keys |-> IF k \in StillThere(r, p)
                                      THEN [@[k] EXCEPT !.policy = req[r].policy]
                                      ELSE @[k]]]
    /\ Answer(r)
    /\ UNCHANGED <<live, admins, proj, born, nextId>>

DropSecret(r) ==
    LET p == req[r].p IN
    /\ At(r, "drop_secret")
    /\ secret' = [secret EXCEPT ![p] = [k \in Keys |-> IF k \in StillThere(r, p)
                                                       THEN NoSecret ELSE @[k]]]
    /\ Answer(r)
    /\ UNCHANGED <<live, admins, proj, born, nextId>>

\* clean_environment: all the rows of one environment.
BeginClean(r, c, p, E) ==
    /\ proj[p] # NoProject
    /\ c \in admins[proj[p].ws]
    /\ Start(r, [Idle EXCEPT !.pc = "clean", !.p = p, !.keys = E])

Clean(r) ==
    /\ At(r, "clean")
    /\ secret' = [secret EXCEPT ![req[r].p] =
                      [k \in Keys |-> IF k \in req[r].keys THEN NoSecret ELSE @[k]]]
    /\ Answer(r)
    /\ UNCHANGED <<live, admins, proj, born, nextId>>

-----------------------------------------------------------------------------
\* The bound MaxRows is on the clients: no server step is blocked by it.
NewRequest(r) ==
    \/ \E c \in Callers, w \in Workspaces, n \in Names : BeginCreate(r, c, w, n)
    \/ \E c \in Callers, p \in Projects :
         \/ \E n \in Names : BeginUpdate(r, c, p, n)
         \/ BeginDelete(r, c, p)
         \/ \E w \in Workspaces, s \in Workspaces \cup {"none"} :
                nextId <= MaxRows /\ BeginTransfer(r, c, p, w, s)
         \/ nextId <= MaxRows /\ BeginInvite(r, c, p)
         \/ \E E \in Environments : BeginClean(r, c, p, E)
    \/ \E p \in Projects :
         \/ \E K \in SUBSET Keys : nextId <= MaxRows /\ BeginUpsert(r, p, K)
         \/ \E k \in Keys :
              \/ BeginSecret(r, p, k, "read_one", "none")
              \/ \E policy \in {"open", "limited"} :
                     BeginSecret(r, p, k, "read_policy", policy)
              \/ BeginSecret(r, p, k, "read_drop", "none")

ServerStep(r) ==
    \/ InsertProject(r) \/ CheckName(r) \/ SaveProject(r)
    \/ DropProject(r)
    \/ ResolveTransfer(r) \/ CheckTarget(r) \/ Transfer(r)
    \/ ResolveInvite(r)
    \/ \E w \in Workspaces, invited \in {{}} \cup {{u} : u \in Users} :
           Migrate(r, w, invited)
    \/ ReadExisting(r) \/ Upsert(r)
    \/ ReadSecret(r) \/ SetValue(r) \/ SetPolicy(r) \/ DropSecret(r)
    \/ Clean(r)

Next ==
    \/ \E r \in Requests : NewRequest(r) \/ ServerStep(r)
    \/ \E w \in Workspaces : DeleteWorkspace(w) \/ \E A \in AdminSets[w] : SetAdmins(w, A)

Spec == Init /\ [][Next]_vars

\* The event loop resumes every request whose database call has returned.
FairSpec == Spec /\ \A r \in Requests : WF_vars(ServerStep(r))

-----------------------------------------------------------------------------
(* Properties *)

\* Nothing is left behind when a workspace or a project goes, although
\* requests that have looked both up are still to write: a project is in a
\* live workspace, secrets are in a project
\* (services.py:59-63, 99, 114-117, 170-191, 270-302, 361-367).
NoOrphans ==
    \A p \in Projects :
        /\ proj[p] # NoProject => proj[p].ws \in live
        /\ proj[p] = NoProject => Ids(p) = NoKeys

\* The policy of a secret changes in an update_secret_policy request for that
\* row and nowhere else in this service: an upsert, an update, a transfer or a
\* migration that has read the row before does not put the old policy back
\* (services.py:186, 286-292, 367, 433, 516).
PolicyIsKept ==
    [][\A p \in Projects, k \in Keys :
         secret[p][k] # NoSecret /\ secret'[p][k].id = secret[p][k].id
           /\ secret'[p][k].policy # secret[p][k].policy
         => \E r \in Requests : /\ At(r, "set_policy") /\ req'[r] = Idle
                                /\ req[r].p = p /\ k \in req[r].keys]_vars

\* A secret that was deleted does not come back: a row that appears is a new
\* one, never the one a slower request still holds
\* (services.py:367, 433, 476, 535-539).
DeletedSecretsStayDeleted ==
    [][\A p \in Projects, k \in Keys :
         secret'[p][k].id \in {0, secret[p][k].id, nextId}]_vars

\* "CLI must re-encrypt all secrets" when a project moves
\* (WORKSPACE_ENCRYPTION_ARCHITECTURE.md:340-342): a secret can be read with
\* the key of the workspace its project is in.
Readable(p, k) == secret[p][k] = NoSecret \/ secret[p][k].under = proj[p].ws

\* What the client or the handler of r has read of k before is no longer so: a
\* move was prepared for another row or for none, a value was encrypted for a
\* workspace that the project has left, an update is of the project as it was.
IsStale(r, p, k) ==
    \/ req[r].pc \in {"move", "migrate"} /\ req[r].ids[k] # secret[p][k].id
    \/ req[r].pc \in {"upsert", "set_value"} /\ req[r].to # proj[p].ws
    \/ req[r].pc = "save" /\ req[r].row.ws # proj[p].ws

\* Only a request whose premises have changed under way makes a secret
\* unreadable; two requests that overlap on different secrets, or one that runs
\* by itself, never do (services.py:170-191, 270-302, 367, 433).
LostOnlyToStaleness ==
    [][\A p \in Projects, k \in Keys :
         Readable(p, k) /\ ~Readable(p, k)'
         => \E r \in Requests : /\ req[r].p = p /\ IsStale(r, p, k)
                                /\ req'[r] = Idle]_vars

\* "Only workspace owners and admins can perform this action"
\* (selectors.py:95): who moves a project is an admin of the workspace that it
\* is taken from and of the one it goes to, unless he has lost that role while
\* his request was under way, or another request has moved the project since
\* (services.py:145-158, 170-175, 253-256, 270-284).
MovedByAnAdmin ==
    [][\A r \in Requests, p \in Projects :
         /\ req[r].pc \in {"move", "migrate"} /\ req'[r] = Idle
         /\ req[r].p = p /\ proj'[p] # proj[p] /\ req[r].row.ws = proj[p].ws
         => \A w \in {proj[p].ws, proj'[p].ws} :
               req[r].caller \in admins'[w] \/ w \in req[r].lost]_vars

\* A project changes its workspace by a transfer or a migration; the update of
\* a project is of its name and description (schemas.py:32-36).
UpdateKeepsWorkspace ==
    [][\A r \in Requests, p \in Projects :
         At(r, "save") /\ req'[r] = Idle /\ req[r].p = p /\ proj[p] # NoProject
         => proj'[p].ws = proj[p].ws]_vars

-----------------------------------------------------------------------------
(* The inductive invariant *)

\* What a request relies on: who has resolved a project was an admin of its
\* workspace, and is one as long as it is there and nobody has changed that.
Admitted(q, w) == w \in live => q.caller \in admins[w] \/ w \in q.lost

Grounded(q) ==
    /\ q.pc \notin {"idle", "insert_project", "resolve_move", "resolve_invite"}
       => q.p \in Projects
    /\ q.pc \in {"insert_project", "resolve_move", "target", "move", "read", "upsert",
                 "read_one", "set_value", "read_policy", "set_policy", "read_drop",
                 "drop_secret"} => q.to \in Workspaces
    /\ q.pc \in {"insert_project", "check_name", "save"} => q.name \in Names
    /\ q.pc \in {"check_name", "save"} => q.row \in Project /\ q.p \in born
    /\ q.pc \in {"read_policy", "set_policy"} => q.policy # "none"
    /\ q.pc = "resolve_invite" => q.row \in Project
    /\ q.pc = "set_policy" => \A k \in Keys : q.ids[k] # 0 => k \in q.keys
    /\ q.pc \in {"resolve_move", "target", "move", "resolve_invite", "migrate"}
       => q.caller \in Callers
    /\ q.pc \in {"target", "move", "migrate"} =>
          q.row.ws \in Workspaces \cap born /\ Admitted(q, q.row.ws)
    /\ q.pc \in {"target", "move"} => q.row \in Project
    /\ q.pc = "move" => q.to \in born /\ Admitted(q, q.to)

IInv ==
    /\ TypeOK
    /\ NoOrphans
    /\ live \subseteq born
    /\ \A p \in Projects : proj[p] # NoProject => p \in born
    /\ \A r \in Requests : Grounded(req[r])
=============================================================================
