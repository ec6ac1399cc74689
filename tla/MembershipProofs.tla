-------------------------- MODULE MembershipProofs --------------------------
(***************************************************************************)
(* What Membership.tla is proved to do, for any number of users, requests  *)
(* in progress, rows and batch entries.                                    *)
(***************************************************************************)
EXTENDS MembershipHistory, FiniteSetTheorems, TLAPS

LEMMA InitInv == Init => IInv
  <1> USE DEF Init, Idle, Record, Absent
  <1>1. Init => TypeOK
    BY DEF TypeOK
  <1>2. Init => NoOrphanRow /\ InvitedHoldsNoKey /\ OwnersAreActive
    BY DEF NoOrphanRow, InvitedHoldsNoKey, OwnersAreActive
  <1>3. Init => /\ KeysFresh /\ WritesAreChecked /\ SeenOwnerStays
                /\ QuietBeforeCreation
    BY DEF KeysFresh, WritesAreChecked, SeenOwnerStays, QuietBeforeCreation
  <1> QED
    BY <1>1, <1>2, <1>3 DEF IInv

-----------------------------------------------------------------------------
(* Steps that only change the record of a request. *)

\* A request may take any record that fits the invariant.
LEMMA ReadStep ==
  ASSUME IInv, UNCHANGED <<ws, member, nextId>>, ws # "none",
         NEW r \in Requests, NEW rec, Advance(r, rec),
         rec \in Pending \cup {Idle},
         rec.seen.id < nextId,
         rec.op # "invite" /\ rec.pc = "target" => rec.target \in Users,
         rec.pc \in {"count", "update", "activate", "create"} =>
             rec.target \in Users /\ rec.role \in Grantable,
         rec.op \in {"project_invite", "update_role", "promote", "demote"} =>
             rec.role \in Grantable,
         rec.pc \in {"count", "update", "activate", "drop"} => rec.seen # Absent,
         rec.pc = "drop" => rec.target \in Users /\ rec.seen.role # "owner",
         rec.pc = "drop_ws" => rec.op = "delete",
         rec.left > 0 => rec.op = "invite",
         rec.seen # Absent /\ rec.target \in Users =>
             \/ member[rec.target] = rec.seen
             \/ rec.seen = req[r].seen /\ rec.target = req[r].target
  PROVE  IInv'
  <1> USE DEF IInv, Advance
  <1>1. \A q \in Requests : req'[q] = IF q = r THEN rec ELSE req[q]
    BY DEF TypeOK
  <1>2. TypeOK'
    BY DEF TypeOK
  <1>3. (NoOrphanRow /\ InvitedHoldsNoKey /\ OwnersAreActive)'
    BY DEF NoOrphanRow, InvitedHoldsNoKey, OwnersAreActive, Live, IsActive
  <1>4. KeysFresh'
    BY <1>1 DEF KeysFresh
  <1>5. WritesAreChecked'
    BY <1>1 DEF WritesAreChecked
  <1>6. SeenOwnerStays'
    <2> SUFFICES ASSUME NEW q \in Requests,
                        req'[q].target \in Users, req'[q].seen # Absent,
                        member[req'[q].target].id = req'[q].seen.id,
                        member[req'[q].target].role = "owner"
                 PROVE  req'[q].seen.role = "owner"
      BY DEF SeenOwnerStays, RowStillThere
    <2>1. CASE q # r
      BY <1>1, <2>1 DEF SeenOwnerStays, RowStillThere
    <2>2. CASE q = r
      BY <1>1, <2>2 DEF SeenOwnerStays, RowStillThere
    <2> QED
      BY <2>1, <2>2
  <1>7. QuietBeforeCreation'
    BY DEF QuietBeforeCreation
  <1> QED
    BY <1>2, <1>3, <1>4, <1>5, <1>6, <1>7

\* A request in progress is about a workspace that exists or existed.
LEMMA Busy ==
  ASSUME IInv, NEW r \in Requests, req[r].pc # "idle"
  PROVE  ws # "none"
  BY DEF IInv, QuietBeforeCreation, Idle, Record

\* A request that is answered, or about to read its next entry, remembers
\* neither a row nor a decision.
Resting(rec) ==
    /\ rec.seen = Absent
    /\ rec.pc = "idle" \/ rec.pc = "target"
    /\ rec.pc = "idle" => rec.op = "none"
    /\ rec.pc = "target" => rec.op = "invite"
    /\ rec.left > 0 => rec.op = "invite"

LEMMA IdleRests == Resting(Idle)
  BY DEF Resting, Idle, Record

\* The record with which a batch goes on with its next entry.
LEMMA EntryDoneRecord ==
  ASSUME IInv, NEW r \in Requests, EntryDone(r)
  PROVE  \E rec \in Pending \cup {Idle} : Advance(r, rec) /\ Resting(rec)
  <1> USE DEF IInv
  <1>1. CASE req[r].left > 1
    <2> DEFINE rec == Record("target", "invite", "none", "none", "none", FALSE,
                             req[r].left - 1)
    <2>1. req[r] \in Pending
      BY <1>1 DEF TypeOK, Idle, Record
    <2>2. req[r].left - 1 \in 0..MaxBatch
      BY <2>1, <1>1, BoundsAssumption DEF Pending
    <2>3. rec \in Pending
      BY <2>2 DEF Pending, Pcs, Ops, Record
    <2>4. Advance(r, rec)
      BY <1>1 DEF EntryDone
    <2>5. Resting(rec)
      BY DEF Record, Resting
    <2> HIDE DEF rec
    <2> QED
      BY <2>3, <2>4, <2>5
  <1>2. CASE ~(req[r].left > 1)
    BY <1>2, IdleRests DEF EntryDone, Answer
  <1> QED
    BY <1>1, <1>2

\* Reaching such a record without touching the table keeps the invariant.
LEMMA RestStep ==
  ASSUME IInv, UNCHANGED <<ws, member, nextId>>, ws # "none",
         NEW r \in Requests, Answer(r) \/ EntryDone(r)
  PROVE  IInv'
  <1>1. PICK rec \in Pending \cup {Idle} : Advance(r, rec) /\ Resting(rec)
    BY EntryDoneRecord, IdleRests DEF Answer
  <1>2. rec.seen.id < nextId
    BY <1>1 DEF IInv, TypeOK, Resting, Absent
  <1> QED
    BY <1>1, <1>2, ReadStep DEF Resting

-----------------------------------------------------------------------------
(* Steps that write the table. *)

\* A write that answers the request, or goes on with the next entry, keeps the
\* invariant if it makes nobody owner and never reuses a primary key.
LEMMA WriteStep ==
  ASSUME IInv, NEW r \in Requests, EntryDone(r) \/ Answer(r),
         ws' \in {"personal", "shared", "deleted"},
         member' \in [Users -> Row \cup {Absent}],
         nextId' \in Nat \ {0}, nextId <= nextId',
         \A u \in Users : member'[u].id < nextId',
         NoOrphanRow', InvitedHoldsNoKey', OwnersAreActive',
         \A u \in Users : member'[u].role = "owner" => member'[u] = member[u]
  PROVE  IInv'
  <1> USE DEF IInv
  <1>1. PICK rec \in Pending \cup {Idle} : Advance(r, rec) /\ Resting(rec)
    BY EntryDoneRecord, IdleRests DEF Answer
  <1>2. \A q \in Requests : req'[q] = IF q = r THEN rec ELSE req[q]
    BY <1>1 DEF TypeOK, Advance
  <1>3. TypeOK'
    BY <1>1 DEF TypeOK, Advance
  <1>4. KeysFresh'
    <2>1. \A q \in Requests : req[q].seen.id \in Nat
      BY DEF TypeOK, Pending, Row, Idle, Record, Absent
    <2> QED
      BY <1>1, <1>2, <2>1 DEF KeysFresh, TypeOK, Absent, Resting
  <1>5. WritesAreChecked'
    BY <1>1, <1>2 DEF WritesAreChecked, Resting
  <1>6. SeenOwnerStays'
    BY <1>1, <1>2 DEF Resting, SeenOwnerStays, RowStillThere
  <1>7. QuietBeforeCreation'
    BY DEF QuietBeforeCreation
  <1> QED
    BY <1>3, <1>4, <1>5, <1>6, <1>7

-----------------------------------------------------------------------------
(* One lemma per kind of action. *)

LEMMA CreateInv ==
  ASSUME IInv, NEW o \in Users, NEW type \in {"personal", "shared"},
         NEW key \in FounderKeys, CreateWorkspace(o, type, key)
  PROVE  IInv'
  <1> USE DEF IInv, CreateWorkspace
  <1>1. \A u \in Users : member[u] = Absent
    BY DEF NoOrphanRow, Live
  <1>2. /\ TypeOK'
        /\ \A u \in Users : member'[u] =
              IF u = o THEN [id |-> nextId, role |-> "owner",
                             status |-> "active", key |-> key]
              ELSE Absent
    BY <1>1, KeysAssumption DEF TypeOK, Row, Roles
  <1>3. (NoOrphanRow /\ InvitedHoldsNoKey /\ OwnersAreActive)'
    BY <1>2 DEF NoOrphanRow, InvitedHoldsNoKey, OwnersAreActive, Live, IsActive,
                Absent
  <1>4. KeysFresh'
    BY <1>2 DEF KeysFresh, TypeOK, Absent, Pending, Row, Idle, Record
  <1>5. WritesAreChecked'
    BY DEF WritesAreChecked
  <1>6. SeenOwnerStays'
    BY <1>2 DEF SeenOwnerStays, RowStillThere, KeysFresh, TypeOK, Absent
  <1>7. QuietBeforeCreation'
    BY DEF QuietBeforeCreation
  <1> QED
    BY <1>2, <1>3, <1>4, <1>5, <1>6, <1>7

\* A request starts with a record that names no row yet.
LEMMA BeginStep ==
  ASSUME IInv, NEW r \in Requests, NEW a \in Users,
         NEW pc \in {"target", "drop_ws"}, NEW op \in Ops,
         NEW mine \in Roles \cup {"none"}, NEW target \in Users \cup {"none"},
         NEW role \in Grantable \cup {"none"}, NEW key \in BOOLEAN,
         NEW left \in 0..MaxBatch,
         Begin(r, a, Record(pc, op, mine, target, role, key, left)),
         op = "invite" \/ pc = "drop_ws" \/ target \in Users,
         op \in {"project_invite", "update_role", "promote", "demote"} =>
             role \in Grantable,
         pc = "drop_ws" => op = "delete",
         left > 0 => op = "invite"
  PROVE  IInv'
  <1> DEFINE rec == Record(pc, op, mine, target, role, key, left)
  <1>1. rec.pc = pc /\ rec.op = op /\ rec.target = target /\ rec.seen = Absent
        /\ rec.role = role /\ rec.left = left
    BY DEF Record
  <1>2. rec \in Pending
    BY DEF Record, Pending, Pcs, Roles
  <1>3. Advance(r, rec) /\ UNCHANGED <<ws, member, nextId>>
    BY DEF Begin
  <1>4. rec.seen.id < nextId
    BY <1>1 DEF IInv, TypeOK, Absent
  <1>5. ws # "none"
    BY DEF Begin, IsActive, IInv, NoOrphanRow, Live, Absent
  <1> HIDE DEF rec
  <1> QED
    BY <1>1, <1>2, <1>3, <1>4, <1>5, ReadStep

LEMMA BeginInv ==
  ASSUME IInv, NEW r \in Requests, NewRequest(r)
  PROVE  IInv'
  <1> PICK a \in Users :
        \/ \E n \in 1..MaxBatch : BeginInvite(r, a, n)
        \/ \E u \in Users, role \in Grantable, key \in BOOLEAN :
               BeginProjectInvite(r, a, u, role, key)
        \/ \E u \in Users, role \in Grantable : BeginUpdateRole(r, a, u, role)
        \/ \E u \in Users, op \in {"promote", "demote"} :
               BeginRoleAction(r, a, u, op)
        \/ \E u \in Users : BeginRemove(r, a, u)
        \/ BeginDeleteWorkspace(r, a)
    BY DEF NewRequest
  <1>1. 0 \in 0..MaxBatch /\ ~(0 > 0)
    BY BoundsAssumption
  <1>2. IsActive(a) => member[a] \in Row
    BY DEF IInv, TypeOK, IsActive, Absent
  <1>3. ASSUME NEW n \in 1..MaxBatch, BeginInvite(r, a, n)
        PROVE  IInv'
    <2>1. n \in 0..MaxBatch
      BY BoundsAssumption
    <2> QED
      BY <1>1, <1>3, <2>1, BeginStep DEF BeginInvite, Ops
  <1>4. ASSUME NEW u \in Users, NEW role \in Grantable, NEW key \in BOOLEAN,
               BeginProjectInvite(r, a, u, role, key)
        PROVE  IInv'
    BY <1>1, <1>4, BeginStep DEF BeginProjectInvite, Ops
  <1>5. ASSUME NEW u \in Users, NEW role \in Grantable,
               BeginUpdateRole(r, a, u, role)
        PROVE  IInv'
    BY <1>1, <1>5, BeginStep DEF BeginUpdateRole, Ops
  <1>6. ASSUME NEW u \in Users, NEW op \in {"promote", "demote"},
               BeginRoleAction(r, a, u, op)
        PROVE  IInv'
    <2>1. ActionRole(op) \in Grantable
      BY RolesAssumption DEF ActionRole, Grantable
    <2> QED
      BY <1>1, <1>6, <2>1, BeginStep DEF BeginRoleAction, Ops
  <1>7. ASSUME NEW u \in Users, BeginRemove(r, a, u)
        PROVE  IInv'
    <2>1. member[a].role \in Roles
      BY <1>2, <1>7 DEF Row, BeginRemove, Begin
    <2> QED
      BY <1>1, <1>7, <2>1, BeginStep DEF BeginRemove, Ops
  <1>8. ASSUME BeginDeleteWorkspace(r, a)
        PROVE  IInv'
    BY <1>1, <1>8, BeginStep DEF BeginDeleteWorkspace, Ops
  <1> QED
    BY <1>3, <1>4, <1>5, <1>6, <1>7, <1>8

\* A request that has read row s takes it up and moves on to pc.
LEMMA TakeUp ==
  ASSUME NEW old \in Pending, NEW pc \in Pcs \ {"idle"}, NEW u \in Users,
         NEW s \in Row \cup {Absent}, NEW role \in Roles, NEW key \in BOOLEAN
  PROVE  /\ [old EXCEPT !.pc = pc, !.target = u, !.seen = s, !.role = role,
                         !.key = key] \in Pending
         /\ [old EXCEPT !.pc = pc, !.seen = s] \in Pending
         /\ [old EXCEPT !.pc = pc] \in Pending
  BY DEF Pending

\* Once a request has chosen its target's row it will write, or count first.
LEMMA ChosenStep ==
  ASSUME IInv, UNCHANGED <<ws, member, nextId>>, ws # "none",
         NEW r \in Requests, NEW u \in Users, NEW rec \in Pending, Advance(r, rec),
         rec.pc \in {"count", "update", "activate", "create", "drop"},
         rec.op = req[r].op, rec.left = req[r].left, rec.target = u,
         \/ rec.seen = member[u]
         \/ rec.seen = req[r].seen /\ u = req[r].target,
         rec.pc # "drop" => rec.role \in Grantable,
         rec.op \in {"project_invite", "update_role", "promote", "demote"} =>
             rec.role \in Grantable,
         rec.pc \in {"count", "update", "activate", "drop"} => rec.seen # Absent,
         rec.pc = "drop" => rec.seen.role # "owner"
  PROVE  IInv'
  <1>1. rec.seen.id < nextId
    BY DEF IInv, KeysFresh
  <1>2. rec.left > 0 => rec.op = "invite"
    BY DEF IInv, WritesAreChecked
  <1> QED
    BY <1>1, <1>2, ReadStep

\* The reads of the second and third await write only the request.
LEMMA ReadInviteeInv ==
  ASSUME IInv, NEW r \in Requests, NEW u \in Users, NEW role \in Grantable,
         NEW key \in BOOLEAN, ReadInvitee(r, u, role, key)
  PROVE  IInv'
  <1>1. req[r] \in Pending /\ member[u] \in Row \cup {Absent} /\ role \in Roles
    BY DEF IInv, TypeOK, ReadInvitee, At, Idle, Record, Roles
  <1>ws. ws # "none"
    BY Busy DEF ReadInvitee, At
  <1>2. ASSUME NEW pc \in {"activate", "create"},
               pc = "activate" => member[u] # Absent,
               Advance(r, [req[r] EXCEPT !.pc = pc, !.target = u,
                               !.seen = member[u], !.role = role, !.key = key])
        PROVE  IInv'
    <2> DEFINE rec == [req[r] EXCEPT !.pc = pc, !.target = u,
                                 !.seen = member[u], !.role = role, !.key = key]
    <2>1. rec \in Pending
      BY <1>1, TakeUp DEF Pcs
    <2>2. /\ rec.pc = pc /\ rec.target = u /\ rec.seen = member[u]
          /\ rec.role = role /\ rec.op = req[r].op /\ rec.left = req[r].left
      BY <1>1 DEF Pending
    <2>3. Advance(r, rec) /\ UNCHANGED <<ws, member, nextId>>
      BY <1>2 DEF ReadInvitee
    <2> HIDE DEF rec
    <2> QED
      BY <1>ws, <1>2, <2>1, <2>2, <2>3, ChosenStep
  <1>3. CASE EntryDone(r)
    BY <1>ws, <1>3, RestStep DEF ReadInvitee
  <1> QED
    BY <1>2, <1>3 DEF ReadInvitee

LEMMA ReadTargetInv ==
  ASSUME IInv, NEW r \in Requests,
         \/ ReadProjectInvitee(r)
         \/ ReadRoleTarget(r)
         \/ ReadActionTarget(r)
         \/ ReadRemoveTarget(r)
  PROVE  IInv'
  <1> DEFINE u == req[r].target
  <1>1. req[r] \in Pending /\ At(r, "target") /\ req[r].op # "invite"
    BY DEF IInv, TypeOK, ReadProjectInvitee, ReadRoleTarget, ReadActionTarget,
           ReadRemoveTarget, At, Idle, Record
  <1>2. u \in Users /\ member[u] \in Row \cup {Absent}
    BY <1>1 DEF IInv, WritesAreChecked, TypeOK, At
  <1>3. req[r].op # "remove" => req[r].role \in Grantable
    BY DEF IInv, WritesAreChecked, ReadProjectInvitee, ReadRoleTarget,
           ReadActionTarget, ReadRemoveTarget
  <1>ws. ws # "none"
    BY <1>1, Busy DEF At
  <1>4. UNCHANGED <<ws, member, nextId>>
    BY DEF ReadProjectInvitee, ReadRoleTarget, ReadActionTarget, ReadRemoveTarget
  <1>5. ASSUME NEW pc \in {"count", "update", "create", "drop"},
               Advance(r, [req[r] EXCEPT !.pc = pc, !.seen = member[u]]),
               pc # "drop" => req[r].op # "remove",
               pc = "drop" => req[r].op = "remove" /\ member[u].role # "owner",
               pc \in {"count", "update", "drop"} => member[u] # Absent
        PROVE  IInv'
    <2> DEFINE rec == [req[r] EXCEPT !.pc = pc, !.seen = member[u]]
    <2>1. rec \in Pending
      BY <1>1, <1>2 DEF Pending, Pcs
    <2>2. /\ rec.pc = pc /\ rec.target = u /\ rec.seen = member[u]
          /\ rec.role = req[r].role /\ rec.op = req[r].op /\ rec.left = req[r].left
      BY <1>1 DEF Pending
    <2>3. Advance(r, rec)
      BY <1>5
    <2> HIDE DEF rec
    <2> QED
      BY <1>ws, <1>2, <1>3, <1>4, <1>5, <2>1, <2>2, <2>3, ChosenStep
  <1>6. CASE Answer(r)
    BY <1>ws, <1>4, <1>6, RestStep
  <1>7. CASE ReadProjectInvitee(r)
    BY <1>5, <1>6, <1>7 DEF ReadProjectInvitee
  <1>8. CASE ReadRoleTarget(r)
    BY <1>5, <1>6, <1>8 DEF ReadRoleTarget
  <1>9. CASE ReadActionTarget(r)
    BY <1>5, <1>6, <1>9 DEF ReadActionTarget
  <1>10. CASE ReadRemoveTarget(r)
    BY <1>5, <1>6, <1>10 DEF ReadRemoveTarget, MayRemove
  <1> QED
    BY <1>7, <1>8, <1>9, <1>10

LEMMA CountInv ==
  ASSUME IInv, NEW r \in Requests, CountAdmins(r)
  PROVE  IInv'
  <1> DEFINE rec == [req[r] EXCEPT !.pc = "update"]
  <1>1. req[r] \in Pending /\ req[r].pc = "count"
    BY DEF IInv, TypeOK, CountAdmins, At, Idle, Record
  <1>2. rec \in Pending
    BY <1>1 DEF Pending, Pcs
  <1>3. /\ rec.pc = "update" /\ rec.target = req[r].target /\ rec.seen = req[r].seen
        /\ rec.role = req[r].role /\ rec.op = req[r].op /\ rec.left = req[r].left
    BY <1>1 DEF Pending
  <1>4. /\ req[r].target \in Users /\ req[r].role \in Grantable
        /\ req[r].seen # Absent
    BY <1>1 DEF IInv, WritesAreChecked
  <1>5. UNCHANGED <<ws, member, nextId>> /\ (Answer(r) \/ Advance(r, rec))
    BY DEF CountAdmins
  <1>6. ws # "none"
    BY <1>1, Busy
  <1> HIDE DEF rec
  <1> QED
    BY <1>2, <1>3, <1>4, <1>5, <1>6, ChosenStep, RestStep

-----------------------------------------------------------------------------
(* Writes. *)

\* UPDATE of the row that was read: no owner is made, the key and the status
\* are written together.
LEMMA UpdateInv ==
  ASSUME IInv, NEW r \in Requests, WriteRole(r) \/ WriteActivate(r)
  PROVE  IInv'
  <1> DEFINE u == req[r].target
             new == member'[u]
  <1>1. u \in Users /\ req[r].role \in Grantable /\ req[r].seen # Absent
    BY DEF IInv, WritesAreChecked, WriteRole, WriteActivate, At
  <1>2. req[r].seen \in Row
    BY <1>1 DEF IInv, TypeOK, Pending, Idle, Record
  <1>3. /\ UNCHANGED <<ws, nextId>> /\ (EntryDone(r) \/ Answer(r))
        /\ ws # "none"
    BY Busy DEF WriteRole, WriteActivate, At
  <1>4. CASE member' = member
    BY <1>3, <1>4, RestStep
  <1>5. CASE member' # member
    <2>1. member[u].id = req[r].seen.id
      BY <1>5 DEF WriteRole, WriteActivate, RowStillThere
    <2>2. member[u] \in Row
      BY <1>1, <1>2, <2>1 DEF IInv, TypeOK, Row, Absent
    <2>3. \/ new = [member[u] EXCEPT !.role = req[r].role]
          \/ new = [member[u] EXCEPT !.key = TRUE, !.status = "active",
                                      !.role = req[r].role]
      BY <1>1, <1>5 DEF WriteRole, WriteActivate, IInv, TypeOK
    <2>4. \A v \in Users \ {u} : member'[v] = member[v]
      BY <1>1, <1>5 DEF WriteRole, WriteActivate, IInv, TypeOK
    <2>5. /\ new \in Row /\ new.id = member[u].id /\ new.role \in Grantable
          /\ \/ new.status = member[u].status /\ new.key = member[u].key
             \/ new.status = "active" /\ new.key = TRUE
      BY <1>1, <2>2, <2>3 DEF Row, Roles
    <2>6. new.role # "owner"
      BY <2>5, RolesAssumption DEF Grantable
    <2>7. member' \in [Users -> Row \cup {Absent}]
      BY <1>1, <2>4, <2>5 DEF WriteRole, WriteActivate, IInv, TypeOK
    <2> HIDE DEF new
    <2>8. (NoOrphanRow /\ InvitedHoldsNoKey /\ OwnersAreActive)'
      BY <1>1, <1>3, <2>2, <2>4, <2>5, <2>6
         DEF new, IInv, NoOrphanRow, InvitedHoldsNoKey, OwnersAreActive, Live,
             IsActive, Row, Absent
    <2>9. \A v \in Users : member'[v].id < nextId'
      BY <1>1, <1>3, <2>4, <2>5 DEF new, IInv, KeysFresh
    <2> QED
      BY <1>3, <2>4, <2>6, <2>7, <2>8, <2>9, WriteStep DEF new, IInv, TypeOK
  <1> QED
    BY <1>4, <1>5

\* INSERT of an invited or a directly added member.
LEMMA InsertInv ==
  ASSUME IInv, NEW r \in Requests, WriteCreate(r)
  PROVE  IInv'
  <1> DEFINE u == req[r].target
             status == IF req[r].op = "project_invite" \/ req[r].key
                       THEN "active" ELSE "invited"
             new == [id |-> nextId, role |-> req[r].role, status |-> status,
                     key |-> req[r].key]
  <1>1. u \in Users /\ req[r].role \in Grantable
    BY DEF IInv, WritesAreChecked, WriteCreate, At
  <1>2. UNCHANGED ws /\ EntryDone(r) /\ ws # "none"
    BY Busy DEF WriteCreate, At
  <1>3. CASE UNCHANGED <<member, nextId>>
    BY <1>2, <1>3, RestStep
  <1>4. CASE /\ Live
             /\ member' = [member EXCEPT ![u] = new]
             /\ nextId' = nextId + 1
    <2>1. req[r].key \in BOOLEAN
      <3>1. req[r] \in Pending
        BY DEF WriteCreate, At, IInv, TypeOK, Idle, Record
      <3> QED
        BY <3>1 DEF Pending
    <2>2. new \in Row
      BY <1>1, <2>1 DEF IInv, TypeOK, Row, Roles
    <2>3. /\ new.id = nextId /\ new.role # "owner"
          /\ new.status = "invited" => ~new.key
      BY <1>1, RolesAssumption DEF Grantable
    <2>4. \A v \in Users : member'[v] = IF v = u THEN new ELSE member[v]
      BY <1>4 DEF IInv, TypeOK
    <2> HIDE DEF new
    <2>5. member' \in [Users -> Row \cup {Absent}]
      BY <1>1, <1>4, <2>2 DEF IInv, TypeOK
    <2>6. (NoOrphanRow /\ InvitedHoldsNoKey /\ OwnersAreActive)'
      BY <1>2, <1>4, <2>3, <2>4
         DEF IInv, NoOrphanRow, InvitedHoldsNoKey, OwnersAreActive, Live, IsActive
    <2>7. nextId \in Nat /\ nextId' \in Nat \ {0} /\ nextId <= nextId'
      BY <1>4 DEF IInv, TypeOK
    <2>8. \A v \in Users : member'[v].id < nextId'
      <3>1. \A v \in Users : member[v].id \in Nat /\ member[v].id < nextId
        BY DEF IInv, TypeOK, KeysFresh, Row, Absent
      <3> QED
        BY <1>4, <2>3, <2>4, <2>7, <3>1
    <2> QED
      BY <1>2, <2>3, <2>4, <2>5, <2>6, <2>7, <2>8, WriteStep DEF IInv, TypeOK
  <1> QED
    BY <1>3, <1>4 DEF WriteCreate, InsertFails

\* DELETE of one row, and of the workspace with all its rows.
LEMMA DeleteInv ==
  ASSUME IInv, NEW r \in Requests, WriteRemove(r) \/ WriteDeleteWorkspace(r)
  PROVE  IInv'
  <1>1. /\ Answer(r) /\ nextId' = nextId
        /\ ws' \in {"personal", "shared", "deleted"}
        /\ nextId' \in Nat \ {0} /\ nextId <= nextId'
    BY Busy DEF WriteRemove, WriteDeleteWorkspace, IInv, TypeOK, At
  <1>2. /\ member' \in [Users -> Row \cup {Absent}]
        /\ \A u \in Users : \/ member'[u] = Absent
                            \/ member'[u] = member[u] /\ ws' = ws
    BY DEF WriteRemove, WriteDeleteWorkspace, IInv, TypeOK
  <1>3. (NoOrphanRow /\ InvitedHoldsNoKey /\ OwnersAreActive)'
    BY <1>2 DEF IInv, NoOrphanRow, InvitedHoldsNoKey, OwnersAreActive, Live,
                IsActive, Absent
  <1>4. \A u \in Users : member'[u].id < nextId'
    BY <1>1, <1>2 DEF IInv, KeysFresh, Absent
  <1>5. \A u \in Users : member'[u].role = "owner" => member'[u] = member[u]
    BY <1>2 DEF Absent
  <1> QED
    BY <1>1, <1>2, <1>3, <1>4, <1>5, WriteStep

-----------------------------------------------------------------------------
(* The theorems. *)

LEMMA NextInv == IInv /\ [Next]_vars => IInv'
  <1> SUFFICES ASSUME IInv, [Next]_vars
               PROVE  IInv'
    OBVIOUS
  <1>1. CASE UNCHANGED vars
    BY <1>1 DEF vars, IInv, TypeOK, NoOrphanRow, InvitedHoldsNoKey, KeysFresh,
                WritesAreChecked, SeenOwnerStays, OwnersAreActive, QuietBeforeCreation, RowStillThere,
                IsActive, Live
  <1>2. ASSUME NEW o \in Users, NEW type \in {"personal", "shared"},
               NEW key \in FounderKeys, CreateWorkspace(o, type, key)
        PROVE  IInv'
    BY <1>2, CreateInv
  <1>3. ASSUME NEW r \in Requests, NewRequest(r)
        PROVE  IInv'
    BY <1>3, BeginInv
  <1>4. ASSUME NEW r \in Requests, ServerStep(r)
        PROVE  IInv'
    BY <1>4, ReadInviteeInv, ReadTargetInv, CountInv, UpdateInv, InsertInv,
       DeleteInv DEF ServerStep
  <1> QED
    BY <1>1, <1>2, <1>3, <1>4 DEF Next

\* The inductive invariant holds in every reachable state: type correctness,
\* fresh primary keys, checked writes and the facts about owners together.
THEOREM Invariance == Spec => []IInv
  BY InitInv, NextInv, PTL DEF Spec

\* No membership row without a live workspace, for any number of requests in
\* progress (services.py:117-127 against 205-275).
THEOREM NoOrphans == Spec => []NoOrphanRow
  <1>1. IInv => NoOrphanRow
    BY DEF IInv
  <1> QED
    BY <1>1, Invariance, PTL

\* An invitation never carries the workspace key (services.py:241-262).
THEOREM InvitationsAreKeyless == Spec => []InvitedHoldsNoKey
  <1>1. IInv => InvitedHoldsNoKey
    BY DEF IInv
  <1> QED
    BY <1>1, Invariance, PTL

-----------------------------------------------------------------------------
(* The roster: what a step may do to a member's standing. *)

\* The ways in which a step touches the table.
Founded(o) ==
    /\ ws = "none" /\ ws' \in {"personal", "shared"}
    /\ \E key \in BOOLEAN :
         member' = [member EXCEPT ![o] = [id |-> nextId, role |-> "owner",
                                          status |-> "active", key |-> key]]

Inserted(u) ==
    /\ Live /\ ws' = ws /\ member[u] = Absent
    /\ \E row \in Row : /\ member' = [member EXCEPT ![u] = row]
                        /\ row.role # "owner"

Changed(u) ==
    /\ Live /\ ws' = ws /\ member[u] # Absent
    /\ \E row \in Row : /\ member' = [member EXCEPT ![u] = row]
                        /\ row.role # "owner" /\ row.id = member[u].id
                        /\ row.status \in {"active", member[u].status}

Removed(u) ==
    /\ Live /\ ws' = ws /\ member[u] # Absent /\ member[u].role # "owner"
    /\ member' = [member EXCEPT ![u] = Absent]

Dissolved == Live /\ ws' = "deleted" /\ member' = [u \in Users |-> Absent]

LEMMA TableStep ==
  ASSUME IInv, Next
  PROVE  \/ UNCHANGED <<ws, member>>
         \/ \E u \in Users : Founded(u) \/ Inserted(u) \/ Changed(u) \/ Removed(u)
         \/ Dissolved
  <1>1. CASE \E o \in Users, type \in {"personal", "shared"}, key \in FounderKeys :
                CreateWorkspace(o, type, key)
    BY <1>1, KeysAssumption DEF CreateWorkspace, Founded
  <1>2. ASSUME NEW r \in Requests, NewRequest(r)
        PROVE  UNCHANGED <<ws, member>>
    BY <1>2 DEF NewRequest, BeginInvite, BeginProjectInvite, BeginUpdateRole,
                BeginRoleAction, BeginRemove, BeginDeleteWorkspace, Begin
  <1>3. ASSUME NEW r \in Requests,
               \/ \E u \in Users, role \in Grantable, key \in BOOLEAN :
                      ReadInvitee(r, u, role, key)
               \/ ReadProjectInvitee(r) \/ ReadRoleTarget(r)
               \/ ReadActionTarget(r) \/ ReadRemoveTarget(r) \/ CountAdmins(r)
        PROVE  UNCHANGED <<ws, member>>
    BY <1>3 DEF ReadInvitee, ReadProjectInvitee, ReadRoleTarget,
                ReadActionTarget, ReadRemoveTarget, CountAdmins
  <1>4. ASSUME NEW r \in Requests, WriteRole(r) \/ WriteActivate(r), member' # member
        PROVE  Changed(req[r].target)
    <2> DEFINE u == req[r].target
               row == member'[u]
    <2>1. u \in Users /\ req[r].role \in Grantable /\ req[r].seen # Absent
      BY <1>4 DEF IInv, WritesAreChecked, WriteRole, WriteActivate, At
    <2>2. req[r].seen \in Row /\ member[u].id = req[r].seen.id
      BY <1>4, <2>1 DEF IInv, TypeOK, Pending, Idle, Record, WriteRole,
                        WriteActivate, RowStillThere
    <2>3. member[u] \in Row
      BY <2>1, <2>2 DEF IInv, TypeOK, Row, Absent
    <2>4. \/ row = [member[u] EXCEPT !.role = req[r].role]
          \/ row = [member[u] EXCEPT !.key = TRUE, !.status = "active",
                                      !.role = req[r].role]
      BY <1>4, <2>1 DEF WriteRole, WriteActivate, IInv, TypeOK
    <2>5. /\ row \in Row /\ row.id = member[u].id /\ row.role \in Grantable
          /\ row.status = "active" \/ row.status = member[u].status
      BY <2>1, <2>3, <2>4 DEF Row, Roles
    <2>6. member[u] # Absent /\ Live /\ ws' = ws /\ row.role # "owner"
      BY <1>4, <2>1, <2>3, <2>5, RolesAssumption
         DEF IInv, NoOrphanRow, Row, Absent, WriteRole, WriteActivate, Grantable
    <2>7. member' = [member EXCEPT ![u] = row]
      BY <1>4, <2>1 DEF WriteRole, WriteActivate, IInv, TypeOK
    <2> HIDE DEF row
    <2> QED
      BY <2>1, <2>5, <2>6, <2>7 DEF Changed
  <1>5. ASSUME NEW r \in Requests, WriteCreate(r), member' # member
        PROVE  Inserted(req[r].target)
    <2>1. req[r].target \in Users /\ req[r].role \in Grantable /\ req[r] \in Pending
      BY <1>5 DEF IInv, WritesAreChecked, WriteCreate, At, TypeOK, Idle, Record
    <2>2. req[r].role \in Roles \ {"owner"} /\ req[r].key \in BOOLEAN
      BY <2>1, RolesAssumption DEF Grantable, Roles, Pending
    <2> QED
      BY <1>5, <2>1, <2>2 DEF WriteCreate, InsertFails, Inserted, Row, IInv, TypeOK
  <1>6. ASSUME NEW r \in Requests, WriteRemove(r), member' # member
        PROVE  Removed(req[r].target)
    <2> DEFINE u == req[r].target
    <2>1. /\ u \in Users /\ req[r].seen # Absent /\ req[r].seen.role # "owner"
          /\ member[u].id = req[r].seen.id /\ ws' = ws
          /\ member' = [member EXCEPT ![u] = Absent]
      BY <1>6 DEF IInv, WritesAreChecked, WriteRemove, At, RowStillThere
    <2>2. member[u].role # "owner"
      BY <2>1 DEF IInv, SeenOwnerStays, RowStillThere
    <2>3. member[u] # Absent
      BY <1>6, <2>1 DEF IInv, TypeOK
    <2> QED
      BY <2>1, <2>2, <2>3 DEF Removed, IInv, NoOrphanRow
  <1>7. ASSUME NEW r \in Requests, WriteDeleteWorkspace(r)
        PROVE  UNCHANGED <<ws, member>> \/ Dissolved
    <2>1. ws # "none" /\ ws' = "deleted" /\ member' = [u \in Users |-> Absent]
      BY <1>7, Busy DEF WriteDeleteWorkspace, At
    <2>2. CASE Live
      BY <2>1, <2>2 DEF Dissolved
    <2>3. CASE ~Live
      <3>1. member = [u \in Users |-> Absent]
        BY <2>3 DEF IInv, TypeOK, NoOrphanRow
      <3>2. ws = "deleted"
        BY <2>1, <2>3 DEF IInv, TypeOK, Live
      <3> QED
        BY <2>1, <3>1, <3>2
    <2> QED
      BY <2>2, <2>3
  <1>8. ASSUME NEW r \in Requests, ServerStep(r)
        PROVE  \/ UNCHANGED <<ws, member>>
               \/ \E u \in Users : Inserted(u) \/ Changed(u) \/ Removed(u)
               \/ Dissolved
    <2>1. /\ req[r].pc \in {"update", "activate", "create", "drop"} =>
               req[r].target \in Users
      BY DEF IInv, WritesAreChecked
    <2>2. WriteRole(r) \/ WriteActivate(r) \/ WriteCreate(r) \/ WriteRemove(r) =>
             ws' = ws /\ req[r].target \in Users
      BY <2>1 DEF WriteRole, WriteActivate, WriteCreate, WriteRemove, At
    <2> QED
      BY <1>3, <1>4, <1>5, <1>6, <1>7, <1>8, <2>2 DEF ServerStep
  <1> QED
    BY <1>1, <1>2, <1>8 DEF Next

\* The owner role is never given after the creation.
LEMMA OwnersStep ==
  ASSUME IInv, Next, Live
  PROVE  Owners' \subseteq Owners
  <1>1. ASSUME NEW u \in Users, Founded(u) \/ Inserted(u) \/ Changed(u) \/ Removed(u)
        PROVE  Owners' \subseteq Owners
    BY <1>1 DEF Founded, Inserted, Changed, Removed, Owners, Live, IInv, TypeOK,
                Absent
  <1>2. CASE Dissolved
    BY <1>2 DEF Dissolved, Owners, Absent
  <1> QED
    BY <1>1, <1>2, TableStep DEF Owners

\* Nobody becomes owner after the creation, whichever handlers overlap.
THEOREM OwnersShrink == Spec => OwnersOnlyShrink
  <1>1. IInv /\ [Next]_vars => [Live => Owners' \subseteq Owners]_vars
    BY OwnersStep DEF vars
  <1> QED
    BY <1>1, Invariance, PTL DEF Spec, OwnersOnlyShrink

\* The owner's row survives every removal that was decided on an older read.
THEOREM OwnerSurvives == Spec => OwnerNeverRemoved
  <1> DEFINE Kept == \A u \in Owners : ws' # "deleted" => member'[u].id = member[u].id
  <1>1. IInv /\ [Next]_vars => [Kept]_vars
    <2> SUFFICES ASSUME IInv, Next, NEW u \in Owners, ws' # "deleted"
                 PROVE  member'[u].id = member[u].id
      BY DEF vars
    <2>1. u \in Users /\ member[u].role = "owner" /\ member[u] # Absent /\ Live
      BY DEF Owners, IInv, NoOrphanRow, Absent
    <2>2. ASSUME NEW v \in Users, Founded(v) \/ Inserted(v) \/ Changed(v) \/ Removed(v)
          PROVE  member'[u].id = member[u].id
      BY <2>1, <2>2 DEF Founded, Inserted, Changed, Removed, Live, IInv, TypeOK
    <2> QED
      BY <2>2, TableStep DEF Dissolved
  <1> QED
    BY <1>1, Invariance, PTL DEF Spec, OwnerNeverRemoved

\* No request turns into a deletion, and none begins without an owner.
LEMMA NoDeletionBegins ==
  ASSUME IInv, Next, Ownerless
  PROVE  \A r \in Requests : req'[r].op # "delete"
  <1> DEFINE Harmless(x) == x.op # "delete"
  <1>1. ASSUME NEW r \in Requests, NEW x, Harmless(x), Advance(r, x)
        PROVE  \A q \in Requests : req'[q].op # "delete"
    BY <1>1 DEF Advance, Ownerless, IInv, TypeOK
  <1>2. ASSUME NEW r \in Requests, NewRequest(r)
        PROVE  \E x : Harmless(x) /\ Advance(r, x)
    <2>1. \A a \in Users : ~BeginDeleteWorkspace(r, a)
      BY DEF BeginDeleteWorkspace, Ownerless, Owners
    <2>2. ASSUME NEW a \in Users, NEW x, Begin(r, a, x), Harmless(x)
          PROVE  \E y : Harmless(y) /\ Advance(r, y)
      BY <2>2 DEF Begin
    <2>3. ASSUME NEW a \in Users, NEW n \in 1..MaxBatch, BeginInvite(r, a, n)
          PROVE  \E y : Harmless(y) /\ Advance(r, y)
      BY <2>2, <2>3 DEF BeginInvite, Record
    <2>4. ASSUME NEW a \in Users, NEW u \in Users, NEW role \in Grantable,
                 NEW key \in BOOLEAN,
                 BeginProjectInvite(r, a, u, role, key) \/ BeginUpdateRole(r, a, u, role)
          PROVE  \E y : Harmless(y) /\ Advance(r, y)
      BY <2>2, <2>4 DEF BeginProjectInvite, BeginUpdateRole, Record
    <2>5. ASSUME NEW a \in Users, NEW u \in Users, NEW op \in {"promote", "demote"},
                 BeginRoleAction(r, a, u, op)
          PROVE  \E y : Harmless(y) /\ Advance(r, y)
      BY <2>2, <2>5 DEF BeginRoleAction, Record
    <2>6. ASSUME NEW a \in Users, NEW u \in Users, BeginRemove(r, a, u)
          PROVE  \E y : Harmless(y) /\ Advance(r, y)
      BY <2>2, <2>6 DEF BeginRemove, Record
    <2>7. PICK a \in Users :
             \/ \E n \in 1..MaxBatch : BeginInvite(r, a, n)
             \/ \E u \in Users, role \in Grantable, key \in BOOLEAN :
                    BeginProjectInvite(r, a, u, role, key)
             \/ \E u \in Users, role \in Grantable : BeginUpdateRole(r, a, u, role)
             \/ \E u \in Users, op \in {"promote", "demote"} :
                    BeginRoleAction(r, a, u, op)
             \/ \E u \in Users : BeginRemove(r, a, u)
      BY <1>2, <2>1 DEF NewRequest
    <2>8. CASE \E u \in Users, role \in Grantable : BeginUpdateRole(r, a, u, role)
      BY <2>8, <2>2 DEF BeginUpdateRole, Record
    <2> HIDE DEF Harmless
    <2> QED
      BY <2>3, <2>4, <2>5, <2>6, <2>7, <2>8
  <1>3. ASSUME NEW r \in Requests, ServerStep(r)
        PROVE  \E x : Harmless(x) /\ Advance(r, x)
    <2>1. req[r] \in Pending \cup {Idle} /\ Harmless(req[r])
      BY DEF Ownerless, IInv, TypeOK
    <2>2. ~WriteDeleteWorkspace(r)
      BY <2>1 DEF WriteDeleteWorkspace, At, IInv, WritesAreChecked
    <2>3. EntryDone(r) \/ Answer(r) => \E y : Harmless(y) /\ Advance(r, y)
      BY DEF EntryDone, Answer, Idle, Record
    <2>4. /\ Harmless([req[r] EXCEPT !.pc = "update"])
          /\ \A x, s :
                Harmless([req[r] EXCEPT !.pc = x, !.seen = s])
          /\ \A x, t, s, e, k :
                Harmless([req[r] EXCEPT !.pc = x, !.target = t, !.seen = s,
                                        !.role = e, !.key = k])
      BY <2>1 DEF Pending, Idle, Record
    <2> HIDE DEF Harmless
    <2>5. ASSUME NEW u \in Users, NEW role \in Grantable, NEW key \in BOOLEAN,
                 ReadInvitee(r, u, role, key)
          PROVE  \E y : Harmless(y) /\ Advance(r, y)
      BY <2>3, <2>4, <2>5 DEF ReadInvitee
    <2>6. ReadProjectInvitee(r) \/ ReadRoleTarget(r) \/ ReadRemoveTarget(r)
             => \E y : Harmless(y) /\ Advance(r, y)
      BY <2>3, <2>4 DEF ReadProjectInvitee, ReadRoleTarget, ReadRemoveTarget
    <2>7. ReadActionTarget(r) \/ CountAdmins(r)
             => \E y : Harmless(y) /\ Advance(r, y)
      BY <2>3, <2>4 DEF ReadActionTarget, CountAdmins
    <2>8. WriteRole(r) \/ WriteActivate(r) \/ WriteCreate(r) \/ WriteRemove(r)
             => \E y : Harmless(y) /\ Advance(r, y)
      BY <2>3 DEF WriteRole, WriteActivate, WriteCreate, WriteRemove
    <2> QED
      BY <1>3, <2>2, <2>5, <2>6, <2>7, <2>8 DEF ServerStep
  <1>4. CASE \E o \in Users, type \in {"personal", "shared"}, key \in FounderKeys :
                CreateWorkspace(o, type, key)
    BY <1>4 DEF CreateWorkspace, Ownerless
  <1> QED
    BY <1>1, <1>2, <1>3, <1>4 DEF Next

\* A workspace without an owner, and without a deletion under way, stays.
THEOREM OwnerlessForever == Spec => OwnerlessStays
  <1>1. IInv /\ [Next]_vars => [Ownerless => Ownerless']_vars
    <2> SUFFICES ASSUME IInv, Next, Ownerless
                 PROVE  Ownerless'
      BY DEF vars
    <2>1. ASSUME NEW r \in Requests, WriteDeleteWorkspace(r)
          PROVE  FALSE
      BY <2>1 DEF WriteDeleteWorkspace, At, IInv, WritesAreChecked, Ownerless
    <2>2. ASSUME NEW r \in Requests, ServerStep(r)
          PROVE  ws' = ws
      BY <2>1, <2>2 DEF ServerStep, ReadInvitee, ReadProjectInvitee, ReadRoleTarget,
           ReadActionTarget, ReadRemoveTarget, CountAdmins, WriteRole,
           WriteActivate, WriteCreate, WriteRemove
    <2>3. ASSUME NEW r \in Requests, NewRequest(r)
          PROVE  ws' = ws
      BY <2>3 DEF NewRequest, BeginInvite, BeginProjectInvite, BeginUpdateRole,
                  BeginRoleAction, BeginRemove, BeginDeleteWorkspace, Begin
    <2>4. ws' = ws
      BY <2>2, <2>3 DEF Next, CreateWorkspace, Ownerless, Live
    <2>5. Owners' = {}
      <3>1. Owners' \subseteq Owners
        BY OwnersStep DEF Ownerless
      <3> QED
        BY <3>1 DEF Ownerless
    <2>6. \A r \in Requests : req'[r].op # "delete"
      BY NoDeletionBegins
    <2> QED
      BY <2>4, <2>5, <2>6 DEF Ownerless, Live
  <1> QED
    BY <1>1, Invariance, PTL DEF Spec, OwnerlessStays

-----------------------------------------------------------------------------
(* What a request may do on what it has read. *)

\* Every step of a request writes its record and no other.
LEMMA StepAdvances ==
  ASSUME NEW r \in Requests, NewRequest(r) \/ ServerStep(r)
  PROVE  \E rec : Advance(r, rec)
  <1> DEFINE Moved == \E rec : Advance(r, rec)
  <1>1. \A rec : Advance(r, rec) => Moved
    OBVIOUS
  <1>2. Answer(r) \/ EntryDone(r) => Moved
    BY DEF Answer, EntryDone
  <1> HIDE DEF Moved
  <1>3. NewRequest(r) => Moved
    BY <1>1 DEF NewRequest, BeginInvite, BeginProjectInvite, BeginUpdateRole,
                BeginRoleAction, BeginRemove, BeginDeleteWorkspace, Begin
  <1>4. ASSUME NEW u \in Users, NEW role \in Grantable, NEW key \in BOOLEAN,
               ReadInvitee(r, u, role, key)
        PROVE  Moved
    BY <1>1, <1>2, <1>4 DEF ReadInvitee
  <1>5. ReadProjectInvitee(r) \/ ReadRoleTarget(r) \/ ReadActionTarget(r)
        \/ ReadRemoveTarget(r) \/ CountAdmins(r) => Moved
    BY <1>1, <1>2 DEF ReadProjectInvitee, ReadRoleTarget, ReadActionTarget,
                      ReadRemoveTarget, CountAdmins
  <1>6. WriteRole(r) \/ WriteActivate(r) \/ WriteCreate(r) \/ WriteRemove(r)
        \/ WriteDeleteWorkspace(r) => Moved
    BY <1>2 DEF WriteRole, WriteActivate, WriteCreate, WriteRemove,
                WriteDeleteWorkspace
  <1> QED
    BY <1>3, <1>4, <1>5, <1>6 DEF Moved, ServerStep

\* A record that changes is that of the request whose step it is.
LEMMA OneMoves ==
  ASSUME IInv, Next, NEW r \in Requests, req'[r] # req[r]
  PROVE  NewRequest(r) \/ ServerStep(r)
  <1>1. ASSUME NEW q \in Requests, NEW rec, Advance(q, rec)
        PROVE  q = r
    BY <1>1 DEF Advance, IInv, TypeOK
  <1>2. \A q \in Requests : NewRequest(q) \/ ServerStep(q) => q = r
    BY <1>1, StepAdvances
  <1> QED
    BY <1>2 DEF Next, CreateWorkspace

\* Where a request stands says what its next step is.
LEMMA NextCall ==
  ASSUME NEW r \in Requests, NewRequest(r) \/ ServerStep(r)
  PROVE  /\ At(r, "idle") => NewRequest(r)
         /\ At(r, "count") => CountAdmins(r)
         /\ At(r, "update") => WriteRole(r)
         /\ At(r, "activate") => WriteActivate(r)
         /\ At(r, "create") => WriteCreate(r)
         /\ At(r, "drop") => WriteRemove(r)
         /\ At(r, "drop_ws") => WriteDeleteWorkspace(r)
  <1>1. NewRequest(r) => At(r, "idle")
    BY DEF NewRequest, BeginInvite, BeginProjectInvite, BeginUpdateRole,
           BeginRoleAction, BeginRemove, BeginDeleteWorkspace, Begin
  <1>2. ServerStep(r) =>
            \/ At(r, "target")
            \/ At(r, "count") /\ CountAdmins(r)
            \/ At(r, "update") /\ WriteRole(r)
            \/ At(r, "activate") /\ WriteActivate(r)
            \/ At(r, "create") /\ WriteCreate(r)
            \/ At(r, "drop") /\ WriteRemove(r)
            \/ At(r, "drop_ws") /\ WriteDeleteWorkspace(r)
    BY DEF ServerStep, ReadInvitee, ReadProjectInvitee, ReadRoleTarget,
           ReadActionTarget, ReadRemoveTarget, CountAdmins, WriteRole, WriteActivate,
           WriteCreate, WriteRemove, WriteDeleteWorkspace
  <1> QED
    BY <1>1, <1>2 DEF At

\* A write leaves the request answered or at its next entry.
LEMMA WritesMoveOn ==
  ASSUME IInv, NEW r \in Requests, Answer(r) \/ EntryDone(r)
  PROVE  req'[r].pc \in {"idle", "target"}
  BY DEF Answer, EntryDone, Advance, Idle, Record, IInv, TypeOK

\* A row that was given to somebody else since is out of reach of a request
\* that read the first one (services.py:300, 324, 359).
THEOREM StaleWritesMiss == Spec => StaleWriteMisses
  <1> DEFINE Aimed == \A u \in Users :
          member[u] # Absent /\ member'[u] # member[u] /\ ws' = ws
          => \E r \in Requests : /\ req'[r] # req[r]
                                 /\ req[r].target = u
                                 /\ req[r].seen.id = member[u].id
  <1>1. IInv /\ [Next]_vars => [Aimed]_vars
    <2> SUFFICES ASSUME IInv, Next, NEW u \in Users, member[u] # Absent,
                        member'[u] # member[u], ws' = ws
                 PROVE  \E r \in Requests : /\ req'[r] # req[r]
                                            /\ req[r].target = u
                                            /\ req[r].seen.id = member[u].id
      BY DEF vars
    <2>1. Live
      BY DEF IInv, NoOrphanRow
    <2>2. PICK r \in Requests : NewRequest(r) \/ ServerStep(r)
      BY <2>1 DEF Next, CreateWorkspace, Live
    <2>3. ~NewRequest(r)
      BY DEF NewRequest, BeginInvite, BeginProjectInvite, BeginUpdateRole,
             BeginRoleAction, BeginRemove, BeginDeleteWorkspace, Begin
    <2>4. ~WriteDeleteWorkspace(r)
      BY <2>1 DEF WriteDeleteWorkspace, Live
    <2>5. ~WriteCreate(r)
      BY DEF WriteCreate, InsertFails, IInv, TypeOK
    <2>6. WriteRole(r) \/ WriteActivate(r) \/ WriteRemove(r)
      BY <2>2, <2>3, <2>4, <2>5
         DEF ServerStep, ReadInvitee, ReadProjectInvitee, ReadRoleTarget,
             ReadActionTarget, ReadRemoveTarget, CountAdmins
    <2>7. req[r].target = u /\ req[r].seen.id = member[u].id
      BY <2>6 DEF WriteRole, WriteActivate, WriteRemove, RowStillThere, IInv, TypeOK
    <2>8. /\ req[r].pc \in {"update", "activate", "drop"}
          /\ Answer(r) \/ EntryDone(r)
      BY <2>6 DEF WriteRole, WriteActivate, WriteRemove, At
    <2>9. req'[r] # req[r]
      BY <2>8, WritesMoveOn
    <2> QED
      BY <2>7, <2>9
  <1> QED
    BY <1>1, Invariance, PTL DEF Spec, StaleWriteMisses

\* A request comes to its write from the row it reads, or from the count.
LEMMA TowardsWrite ==
  ASSUME IInv, Next, NEW r \in Requests, req'[r] # req[r],
         req'[r].pc \in {"count", "update", "activate", "create", "drop"}
  PROVE  /\ ServerStep(r)
         /\ ~(Answer(r) \/ EntryDone(r))
         /\ At(r, "target") \/ CountAdmins(r)
  <1>1. NewRequest(r) \/ ServerStep(r)
    BY OneMoves
  <1>2. ~(Answer(r) \/ EntryDone(r))
    BY WritesMoveOn
  <1>3. ~NewRequest(r)
    BY DEF NewRequest, BeginInvite, BeginProjectInvite, BeginUpdateRole, BeginRoleAction,
           BeginRemove, BeginDeleteWorkspace, Begin, Advance, Record, IInv, TypeOK
  <1>4. ~(\/ At(r, "update") \/ At(r, "activate") \/ At(r, "create")
          \/ At(r, "drop") \/ At(r, "drop_ws"))
    BY <1>1, <1>2, NextCall
       DEF WriteRole, WriteActivate, WriteCreate, WriteRemove, WriteDeleteWorkspace
  <1>5. req[r].pc \in Pcs
    BY DEF IInv, TypeOK, Pending, Idle, Record, Pcs
  <1>6. At(r, "target") \/ At(r, "count")
    BY <1>1, <1>3, <1>4, <1>5, NextCall DEF Pcs, At
  <1> QED
    BY <1>1, <1>2, <1>3, <1>6, NextCall

\* What a request keeps and takes up when it reads its target's row.
TakesUp(r, pc) ==
    /\ req'[r].pc = pc
    /\ req'[r].op = req[r].op /\ req'[r].mine = req[r].mine
    /\ req'[r].seen = member[req'[r].target]

LEMMA ReadsTakeUp ==
  ASSUME IInv, NEW r \in Requests, At(r, "target"), ServerStep(r),
         ~(Answer(r) \/ EntryDone(r))
  PROVE  \/ req[r].op = "invite" /\ (TakesUp(r, "activate") \/ TakesUp(r, "create"))
         \/ req[r].op = "project_invite" /\ TakesUp(r, "create")
         \/ req[r].op = "update_role" /\ TakesUp(r, "update")
         \/ /\ req[r].op \in {"promote", "demote"}
            /\ \/ TakesUp(r, "count")
               \/ /\ TakesUp(r, "update")
                  /\ ~(req[r].op = "demote" /\ req'[r].seen.role \in AdminRoles)
         \/ /\ req[r].op = "remove" /\ TakesUp(r, "drop")
            /\ MayRemove(req'[r].mine, req'[r].seen)
  <1>1. req[r] \in Pending
    BY DEF IInv, TypeOK, At, Idle, Record
  <1>2. ASSUME NEW pc, NEW t, NEW s, NEW e, NEW k, s = member[t],
               Advance(r, [req[r] EXCEPT !.pc = pc, !.target = t, !.seen = s,
                                         !.role = e, !.key = k])
        PROVE  TakesUp(r, pc)
    <2> DEFINE x == [req[r] EXCEPT !.pc = pc, !.target = t, !.seen = s,
                                   !.role = e, !.key = k]
    <2>1. x.pc = pc /\ x.target = t /\ x.seen = s /\ x.op = req[r].op /\ x.mine = req[r].mine
      BY <1>1 DEF Pending
    <2>2. req'[r] = x
      BY <1>2 DEF Advance, IInv, TypeOK
    <2> HIDE DEF x
    <2> QED
      BY <1>2, <2>1, <2>2 DEF TakesUp
  <1>3. ASSUME NEW pc, NEW s, s = member[req[r].target],
               Advance(r, [req[r] EXCEPT !.pc = pc, !.seen = s])
        PROVE  TakesUp(r, pc) /\ req'[r].seen = s
    <2> DEFINE x == [req[r] EXCEPT !.pc = pc, !.seen = s]
    <2>1. x.pc = pc /\ x.target = req[r].target /\ x.seen = s /\ x.op = req[r].op
          /\ x.mine = req[r].mine
      BY <1>1 DEF Pending
    <2>2. req'[r] = x
      BY <1>3 DEF Advance, IInv, TypeOK
    <2> HIDE DEF x
    <2> QED
      BY <1>3, <2>1, <2>2 DEF TakesUp
  <1>4. ASSUME NEW u \in Users, NEW role \in Grantable, NEW key \in BOOLEAN,
               ReadInvitee(r, u, role, key)
        PROVE  req[r].op = "invite" /\ (TakesUp(r, "activate") \/ TakesUp(r, "create"))
    BY <1>2, <1>4 DEF ReadInvitee
  <1>5. CASE ReadProjectInvitee(r)
    <2>1. /\ req[r].op = "project_invite" /\ member[req[r].target] = Absent
          /\ Advance(r, [req[r] EXCEPT !.pc = "create", !.seen = Absent])
      BY <1>5 DEF ReadProjectInvitee
    <2> QED
      BY <1>3, <2>1
  <1>6. CASE ReadRoleTarget(r)
    BY <1>3, <1>6 DEF ReadRoleTarget
  <1>7. CASE ReadActionTarget(r)
    <2> DEFINE seen == member[req[r].target]
    <2>1. CASE req[r].op = "demote" /\ seen.role \in AdminRoles
      BY <1>3, <1>7, <2>1 DEF ReadActionTarget
    <2>2. CASE ~(req[r].op = "demote" /\ seen.role \in AdminRoles)
      <3>1. Advance(r, [req[r] EXCEPT !.pc = "update", !.seen = seen])
            /\ req[r].op \in {"promote", "demote"}
        BY <1>7, <2>2 DEF ReadActionTarget
      <3> QED
        BY <1>3, <2>2, <3>1
    <2> QED
      BY <2>1, <2>2
  <1>8. CASE ReadRemoveTarget(r)
    <2>1. /\ req[r].op = "remove" /\ MayRemove(req[r].mine, member[req[r].target])
          /\ Advance(r, [req[r] EXCEPT !.pc = "drop", !.seen = member[req[r].target]])
      BY <1>8 DEF ReadRemoveTarget
    <2>2. TakesUp(r, "drop") /\ req'[r].seen = member[req[r].target]
      BY <1>3, <2>1
    <2> QED
      BY <2>1, <2>2 DEF TakesUp
  <1> QED
    BY <1>4, <1>5, <1>6, <1>7, <1>8
       DEF ServerStep, At, CountAdmins, WriteRole, WriteActivate, WriteCreate,
           WriteRemove, WriteDeleteWorkspace

\* The rule of remove_member holds of every removal that is to be written.
LEMMA AllowedStep ==
  ASSUME IInv, RemovalsAreAllowed, Next
  PROVE  RemovalsAreAllowed'
  <1> SUFFICES ASSUME NEW r \in Requests, req'[r].pc = "drop"
               PROVE  MayRemove(req'[r].mine, req'[r].seen)
    BY DEF RemovalsAreAllowed, At, MayRemove
  <1>1. CASE req'[r] = req[r]
    BY <1>1 DEF RemovalsAreAllowed, At
  <1>2. CASE req'[r] # req[r]
    <2>1. /\ ServerStep(r) /\ ~(Answer(r) \/ EntryDone(r))
          /\ At(r, "target") \/ CountAdmins(r)
      BY <1>2, TowardsWrite
    <2>2. ~CountAdmins(r)
      BY <2>1 DEF CountAdmins, Advance, IInv, TypeOK, Pending, Idle, Record
    <2> QED
      BY <2>1, <2>2, ReadsTakeUp DEF TakesUp
  <1> QED
    BY <1>1, <1>2

\* Nobody is about to be removed whom the caller could not remove when the
\* target was read (remove_member, services.py:303-326).
THEOREM RemovalsFollowTheRule == Spec => []RemovalsAreAllowed
  <1>1. Init => RemovalsAreAllowed
    BY DEF Init, RemovalsAreAllowed, At, Idle, Record
  <1>2. IInv /\ RemovalsAreAllowed /\ [Next]_vars => RemovalsAreAllowed'
    BY AllowedStep DEF vars, RemovalsAreAllowed, At
  <1> QED
    BY <1>1, <1>2, Invariance, PTL DEF Spec

\* An admin removes an admin only if that row was promoted since it was read
\* (services.py:311-324).
THEOREM AdminsAreSafe == Spec => AdminsKeepAdmins
  <1> DEFINE Spared == \A r \in Requests :
         req[r].pc = "drop" /\ req[r].mine = "admin" /\ req'[r] # req[r]
         => \A u \in Users : member'[u] = Absent /\ member[u].role = "admin"
               => req[r].target = u /\ req[r].seen.id = member[u].id
                  /\ req[r].seen.role \in PlainRoles
  <1>1. IInv /\ RemovalsAreAllowed /\ [Next]_vars => [Spared]_vars
    <2> SUFFICES ASSUME IInv, RemovalsAreAllowed, Next, NEW r \in Requests,
                        req[r].pc = "drop", req[r].mine = "admin", req'[r] # req[r],
                        NEW u \in Users, member'[u] = Absent, member[u].role = "admin"
                 PROVE  req[r].target = u /\ req[r].seen.id = member[u].id
                        /\ req[r].seen.role \in PlainRoles
      BY DEF vars
    <2>1. WriteRemove(r)
      BY OneMoves, NextCall DEF At
    <2>2. member[u] # Absent
      BY DEF Absent
    <2>3. req[r].target = u /\ req[r].seen.id = member[u].id
      BY <2>1, <2>2 DEF WriteRemove, RowStillThere, IInv, TypeOK
    <2>4. req[r].seen # Absent /\ req[r].seen.role \notin {"owner", "admin"}
      BY DEF RemovalsAreAllowed, At, MayRemove
    <2>5. req[r].seen \in Row
      BY <2>4 DEF IInv, TypeOK, Pending, Idle, Record
    <2>6. req[r].seen.role \in PlainRoles
      BY <2>4, <2>5 DEF Row, Roles, Grantable
    <2> QED
      BY <2>3, <2>6
  <1> QED
    BY <1>1, Invariance, RemovalsFollowTheRule, PTL DEF Spec, AdminsKeepAdmins

-----------------------------------------------------------------------------
(* Demotions, with the history of what they counted. *)

\* A demotion of an admin that has come to its write has counted more than one.
LEMMA CountStep ==
  ASSUME IInv, HistoryInv, HistoryNext
  PROVE  HistoryInv'
  <1>1. counted' \in [Requests -> SUBSET Users]
    BY DEF HistoryInv, HistoryNext, ActiveAdmins
  <1>2. ASSUME NEW r \in Requests, req'[r].pc = "update", req'[r].op = "demote",
               req'[r].seen.role \in AdminRoles
        PROVE  ~(Cardinality(counted'[r]) <= 1)
    <2>1. Next /\ counted'[r] = (IF At(r, "count") /\ req'[r].pc = "update" THEN ActiveAdmins
                                ELSE IF At(r, "update") /\ req'[r] = req[r] THEN counted[r]
                                ELSE {})
      BY DEF HistoryNext
    <2>2. CASE req'[r] = req[r]
      <3>1. At(r, "update") /\ counted'[r] = counted[r]
        BY <1>2, <2>1, <2>2 DEF At
      <3> QED
        BY <1>2, <2>2, <3>1 DEF HistoryInv, TwoCounted
    <2>3. CASE req'[r] # req[r]
      <3>1. /\ ServerStep(r) /\ ~(Answer(r) \/ EntryDone(r))
            /\ At(r, "target") \/ CountAdmins(r)
        BY <1>2, <2>1, <2>3, TowardsWrite
      <3>2. CASE CountAdmins(r)
        BY <1>2, <2>1, <3>1, <3>2 DEF CountAdmins
      <3>3. CASE At(r, "target")
        BY <1>2, <3>1, <3>3, ReadsTakeUp DEF TakesUp
      <3> QED
        BY <3>1, <3>2, <3>3
    <2> QED
      BY <2>2, <2>3
  <1> QED
    BY <1>1, <1>2 DEF HistoryInv, TwoCounted, At

\* The history follows the specification.
LEMMA HistoryFollows == HistorySpec => Spec
  <1>1. HistoryInit => Init
    BY DEF HistoryInit
  <1>2. [HistoryNext]_<<vars, counted>> => [Next]_vars
    BY DEF HistoryNext
  <1> QED
    BY <1>1, <1>2, PTL DEF HistorySpec, Spec

LEMMA HistoryInvariance == HistorySpec => []HistoryInv
  <1>1. HistoryInit => HistoryInv
    BY DEF HistoryInit, Init, HistoryInv, TwoCounted, At, Idle, Record
  <1>2. IInv /\ HistoryInv /\ [HistoryNext]_<<vars, counted>> => HistoryInv'
    BY CountStep DEF vars, HistoryInv, TwoCounted, At
  <1> QED
    BY <1>1, <1>2, HistoryFollows, Invariance, PTL DEF HistorySpec

\* The last admin is demoted only by a request whose reads no longer hold
\* (services.py:326-360).
THEOREM DemotionsLeaveAnAdmin == HistorySpec => DemotionLeavesAnAdmin
  <1> DEFINE Left == \A r \in Requests :
         /\ At(r, "update") /\ req[r].op = "demote" /\ req'[r] # req[r]
         /\ ActiveAdmins # {} /\ ActiveAdmins' = {}
         => \/ req[r].seen.role # member[req[r].target].role
            \/ ~(counted[r] \subseteq ActiveAdmins)
  <1>1. IInv /\ HistoryInv /\ [HistoryNext]_<<vars, counted>> => [Left]_<<vars, counted>>
    <2> SUFFICES ASSUME IInv, HistoryInv, Next, NEW r \in Requests,
                        At(r, "update"), req[r].op = "demote", req'[r] # req[r],
                        ActiveAdmins # {}, ActiveAdmins' = {},
                        req[r].seen.role = member[req[r].target].role,
                        counted[r] \subseteq ActiveAdmins
                 PROVE  FALSE
      BY DEF HistoryNext
    <2> DEFINE t == req[r].target
    <2>1. WriteRole(r)
      BY OneMoves, NextCall
    <2>2. \A u \in Users \ {t} : member'[u] = member[u]
      BY <2>1 DEF WriteRole, IInv, TypeOK
    <2>3. ActiveAdmins = {t}
      BY <2>2 DEF ActiveAdmins, IsAdmin, IsActive
    <2>4. req[r].seen.role \in AdminRoles
      BY <2>3 DEF ActiveAdmins, IsAdmin
    <2>5. ~(Cardinality(counted[r]) <= 1)
      BY <2>4 DEF HistoryInv, TwoCounted
    <2>6. counted[r] = {} \/ counted[r] = {t}
      BY <2>3
    <2>7. Cardinality({}) = 0 /\ Cardinality({t}) = 1
      BY FS_EmptySet, FS_Singleton
    <2> QED
      BY <2>5, <2>6, <2>7
  <1> QED
    BY <1>1, HistoryFollows, Invariance, HistoryInvariance, PTL
       DEF HistorySpec, DemotionLeavesAnAdmin

-----------------------------------------------------------------------------
(* Refinement. *)

\* Every step of the handlers is a step of the roster or leaves it alone.
LEMMA RosterStep ==
  ASSUME IInv, Next
  PROVE  Promised!Next \/ UNCHANGED Promised!vars
  <1> DEFINE s == [u \in Users |-> Standing(u)]
  <1>1. \A v \in Users : member[v] \in Row \cup {Absent}
    BY DEF IInv, TypeOK
  <1>2. CASE UNCHANGED <<ws, member>>
    BY <1>2 DEF Promised!vars, Phase, Live, Standing
  \* A step that writes one row changes one user's standing.
  <1>3. ASSUME NEW u \in Users, NEW row \in Row,
               member' = [member EXCEPT ![u] = row]
        PROVE  /\ s' = [s EXCEPT ![u] = Standing(u)']
               /\ row.status = "invited" => Standing(u)' = "invited"
               /\ row.status # "invited" => Standing(u)' = row.role
    <2>1. \A v \in Users : member'[v] = IF v = u THEN row ELSE member[v]
      BY <1>3 DEF IInv, TypeOK
    <2>2. \A v \in Users : v # u => Standing(v)' = Standing(v)
      BY <2>1 DEF Standing
    <2>3. s' = [s EXCEPT ![u] = Standing(u)']
      BY <2>2
    <2>4. member'[u] = row /\ row # Absent
      BY <2>1 DEF Row, Absent
    <2> QED
      BY <2>3, <2>4 DEF Standing
  <1>4. ASSUME NEW o \in Users, Founded(o)
        PROVE  Promised!Found(o)
    <2> PICK key \in BOOLEAN :
          member' = [member EXCEPT ![o] = [id |-> nextId, role |-> "owner",
                                           status |-> "active", key |-> key]]
      BY <1>4 DEF Founded
    <2>1. [id |-> nextId, role |-> "owner", status |-> "active", key |-> key] \in Row
      BY DEF Row, Roles, IInv, TypeOK
    <2>2. s' = [s EXCEPT ![o] = "owner"]
      BY <1>3, <2>1
    <2>3. Phase = "none" /\ Phase' = "open"
      BY <1>4 DEF Founded, Phase, Live
    <2> QED
      BY <2>2, <2>3 DEF Promised!Found
  <1>5. ASSUME NEW u \in Users, Inserted(u) \/ Changed(u)
        PROVE  \/ Promised!Invite(u)
               \/ \E role \in Grantable : Promised!Grant(u, role)
               \/ UNCHANGED Promised!vars
    <2>1. PICK row \in Row : /\ member' = [member EXCEPT ![u] = row]
                             /\ row.role # "owner"
                             /\ \/ member[u] = Absent
                                \/ row.status = "active"
                                \/ row.status = member[u].status
      BY <1>5 DEF Inserted, Changed
    <2>2. Phase = "open" /\ Phase' = Phase
      BY <1>5 DEF Inserted, Changed, Phase, Live
    <2>3. CASE row.status # "invited"
      <3>1. row.role \in Grantable
        BY <2>1 DEF Row, Roles
      <3>2. s' = [s EXCEPT ![u] = row.role]
        BY <1>3, <2>1, <2>3
      <3> QED
        BY <2>2, <3>1, <3>2 DEF Promised!Grant
    <2>4. CASE row.status = "invited"
      <3>1. s' = [s EXCEPT ![u] = "invited"]
        BY <1>3, <2>1, <2>4
      <3>2. CASE member[u] = Absent
        BY <2>2, <3>1, <3>2 DEF Promised!Invite, Standing
      <3>3. CASE member[u] # Absent
        <4>1. Standing(u) = "invited"
          BY <2>1, <2>4, <3>3 DEF Standing
        <4>2. s' = s
          BY <3>1, <4>1
        <4> QED
          BY <2>2, <4>2 DEF Promised!vars
      <3> QED
        BY <3>2, <3>3
    <2> QED
      BY <2>3, <2>4
  <1>6. ASSUME NEW u \in Users, Removed(u)
        PROVE  Promised!Remove(u)
    <2>1. /\ s' = [s EXCEPT ![u] = "out"]
          /\ Standing(u) # "owner"
      BY <1>6 DEF Removed, Standing, IInv, TypeOK
    <2>2. Phase = "open" /\ Phase' = Phase
      BY <1>6 DEF Removed, Phase, Live
    <2> QED
      BY <2>1, <2>2 DEF Promised!Remove
  <1>7. CASE Dissolved
    <2>1. s' = [u \in Users |-> "out"]
      BY <1>7 DEF Dissolved, Standing
    <2>2. Phase = "open" /\ Phase' = "closed"
      BY <1>7 DEF Dissolved, Phase, Live
    <2> QED
      BY <2>1, <2>2 DEF Promised!Next, Promised!Close
  <1> QED
    BY <1>2, <1>4, <1>5, <1>6, <1>7, TableStep DEF Promised!Next

\* The handlers implement the roster.
THEOREM RosterKept == Spec => ImplementsRoster
  <1>1. Init => Promised!Init
    BY DEF Init, Promised!Init, Phase, Live, Standing
  <1>2. IInv /\ [Next]_vars => [Promised!Next]_(Promised!vars)
    <2>1. UNCHANGED vars => UNCHANGED Promised!vars
      BY DEF vars, Promised!vars, Phase, Live, Standing
    <2> QED
      BY <2>1, RosterStep
  <1> QED
    BY <1>1, <1>2, Invariance, PTL DEF Spec, ImplementsRoster, Promised!Spec

=============================================================================
