--------------------------- MODULE ProjectsProofs ---------------------------
(***************************************************************************)
(* Proofs about Projects, for any workspaces, projects, secrets, callers   *)
(* and number of requests.                                                 *)
(***************************************************************************)
EXTENDS Projects, TLAPS

\* What a step may not do: the bodies of PolicyIsKept,
\* DeletedSecretsStayDeleted, LostOnlyToStaleness and MovedByAnAdmin.
KeepsPolicies ==
    \A p \in Projects, k \in Keys :
      secret[p][k] # NoSecret /\ secret'[p][k].id = secret[p][k].id
        /\ secret'[p][k].policy # secret[p][k].policy
      => \E r \in Requests : /\ At(r, "set_policy") /\ req'[r] = Idle
                             /\ req[r].p = p /\ k \in req[r].keys
KeepsDeletions ==
    \A p \in Projects, k \in Keys : secret'[p][k].id \in {0, secret[p][k].id, nextId}
KeepsReadable ==
    \A p \in Projects, k \in Keys :
      Readable(p, k) /\ ~Readable(p, k)'
      => \E r \in Requests : req[r].p = p /\ IsStale(r, p, k) /\ req'[r] = Idle
KeepsMovers ==
    \A r \in Requests, p \in Projects :
      /\ req[r].pc \in {"move", "migrate"} /\ req'[r] = Idle
      /\ req[r].p = p /\ proj'[p] # proj[p] /\ req[r].row.ws = proj[p].ws
      => \A w \in {proj[p].ws, proj'[p].ws} :
            req[r].caller \in admins'[w] \/ w \in req[r].lost
Keeps == KeepsPolicies /\ KeepsDeletions /\ KeepsReadable /\ KeepsMovers

\* Idle is the only value that is at "idle".
LEMMA PendingOrIdle ==
    ASSUME TypeOK, NEW r \in Requests
    PROVE  /\ req[r] = Idle \/ req[r] \in Pending
           /\ req[r].pc = "idle" => req[r] = Idle
           /\ req[r].pc # "idle" => req[r] \in Pending
BY DEF TypeOK, Pending, Pcs, Idle

LEMMA IdleIsGrounded == Grounded(Idle)
BY DEF Grounded, Idle

\* A row is there exactly when it has a primary key.
LEMMA SecretOrNone ==
    ASSUME TypeOK, NEW p \in Projects, NEW k \in Keys
    PROVE  /\ secret[p][k] \in Secret \cup {NoSecret}
           /\ secret[p][k] = NoSecret <=> secret[p][k].id = 0
           /\ Ids(p)[k] = secret[p][k].id
BY DEF TypeOK, Secret, NoSecret, Ids

\* A project that is there is in one of the workspaces.
LEMMA ProjectOrNone ==
    ASSUME TypeOK, NEW p \in Projects
    PROVE  /\ proj[p] # NoProject => proj[p] \in Project /\ proj[p].ws \in Workspaces
           /\ proj[p] = NoProject <=> proj[p].ws \notin Workspaces
BY NoneAssumption DEF TypeOK, Project, NoProject

\* The secrets of a project that is not there are gone.
LEMMA NoneWithoutProject ==
    ASSUME TypeOK, NoOrphans, NEW p \in Projects, proj[p] = NoProject
    PROVE  \A k \in Keys : secret[p][k] = NoSecret
<1> SUFFICES ASSUME NEW k \in Keys PROVE secret[p][k].id = 0
  BY SecretOrNone
<1>1. Ids(p)[k] = 0
  BY DEF NoOrphans, NoKeys
<1> QED BY <1>1, SecretOrNone

LEMMA InitIInv == Init => IInv
<1> SUFFICES ASSUME Init PROVE IInv  OBVIOUS
<1>1. TypeOK
  BY AdminsAssumption DEF Init, TypeOK
<1>2. NoOrphans
  BY DEF Init, NoOrphans, Ids, NoKeys, NoSecret
<1>3. \A r \in Requests : Grounded(req[r])
  BY IdleIsGrounded DEF Init
<1> QED BY <1>1, <1>2, <1>3 DEF IInv, Init

-----------------------------------------------------------------------------
(* Steps that write to no table. *)

\* A request that does not move stays grounded while workspaces that were
\* there keep their admins or go, and none of them comes back.
LEMMA StaysGrounded ==
    ASSUME IInv, NEW q \in Requests, req'[q] = req[q], born \subseteq born',
           live' \cap born \subseteq live,
           \A w \in Workspaces : w \in live' \cap born => admins'[w] = admins[w]
    PROVE  Grounded(req[q])'
<1>1. Grounded(req[q])
  BY DEF IInv
<1> QED BY <1>1 DEF Grounded, Admitted, Project

LEMMA OneMoves ==
    ASSUME IInv, NEW r \in Requests, NEW new \in Pending \cup {Idle},
           req' = [req EXCEPT ![r] = new], UNCHANGED db, Grounded(new)
    PROVE  IInv' /\ Keeps
<1>1. TypeOK'
  BY DEF IInv, TypeOK, db
<1>2. \A q \in Requests : req'[q] = IF q = r THEN new ELSE req[q]
  BY DEF IInv, TypeOK
<1>3. ASSUME NEW q \in Requests PROVE Grounded(req[q])'
  BY <1>2 DEF IInv, Grounded, Admitted, db
<1>4. NoOrphans' /\ (live \subseteq born)' /\ (\A p \in Projects : proj[p] # NoProject => p \in born)'
  BY DEF IInv, NoOrphans, Ids, db
<1>5. Keeps
  BY DEF Keeps, KeepsPolicies, KeepsDeletions, KeepsReadable, KeepsMovers, Readable, db
<1> QED BY <1>1, <1>3, <1>4, <1>5 DEF IInv

LEMMA Answered ==
    ASSUME IInv, NEW r \in Requests, Answer(r), UNCHANGED db
    PROVE  IInv' /\ Keeps
BY IdleIsGrounded, OneMoves DEF Answer

\* A request that goes on with what it has.
LEMMA GoesOn ==
    ASSUME IInv, NEW r \in Requests, NEW pc \in Pcs, Go(r, pc), UNCHANGED db,
           \/ At(r, "check_name") /\ pc = "save"
           \/ /\ At(r, "target") /\ pc = "move"
              /\ req[r].to \in live /\ req[r].caller \in admins[req[r].to]
    PROVE  IInv' /\ Keeps
<1> DEFINE new == [req[r] EXCEPT !.pc = pc]
<1>1. req[r] \in Pending /\ Grounded(req[r])
  BY PendingOrIdle DEF IInv, At
<1>2. new \in Pending /\ Grounded(new)
  BY <1>1 DEF Pending, Grounded, Admitted, At, IInv
<1>3. req' = [req EXCEPT ![r] = new]
  BY DEF Go
<1> QED BY <1>2, <1>3, OneMoves

\* The requests that begin.
LEMMA Begins ==
    ASSUME IInv, NEW r \in Requests, NEW new \in Pending, Start(r, new), Grounded(new)
    PROVE  IInv' /\ Keeps
BY OneMoves DEF Start

LEMMA NewRequestStep ==
    ASSUME IInv, NEW r \in Requests, NewRequest(r)
    PROVE  IInv' /\ Keeps
<1> USE DEF Idle, Pending, Pcs, Grounded, NoProject, NoKeys
<1>1. ASSUME NEW c \in Callers, NEW w \in Workspaces, NEW n \in Names, BeginCreate(r, c, w, n)
      PROVE  IInv' /\ Keeps
  <2> DEFINE new == [Idle EXCEPT !.pc = "insert_project", !.to = w, !.name = n]
  <2>1. new \in Pending /\ Grounded(new)
    OBVIOUS
  <2>2. Start(r, new)
    BY <1>1 DEF BeginCreate
  <2> HIDE DEF new
  <2> QED BY <2>1, <2>2, Begins
<1>2. ASSUME NEW c \in Callers, NEW p \in Projects, NEW n \in Names, BeginUpdate(r, c, p, n)
      PROVE  IInv' /\ Keeps
  <2> DEFINE new == [Idle EXCEPT !.pc = IF n = proj[p].name THEN "save" ELSE "check_name",
                                 !.p = p, !.row = proj[p], !.name = n]
  <2>1. proj[p] \in Project /\ p \in born
    BY <1>2, ProjectOrNone DEF BeginUpdate, IInv
  <2>2. new \in Pending /\ Grounded(new)
    BY <2>1 DEF Project
  <2>3. Start(r, new)
    BY <1>2 DEF BeginUpdate
  <2> HIDE DEF new
  <2> QED BY <2>2, <2>3, Begins
<1>3. ASSUME NEW c \in Callers, NEW p \in Projects, BeginDelete(r, c, p)
      PROVE  IInv' /\ Keeps
  <2> DEFINE new == [Idle EXCEPT !.pc = "drop_project", !.p = p]
  <2>1. new \in Pending /\ Grounded(new)
    OBVIOUS
  <2>2. Start(r, new)
    BY <1>3 DEF BeginDelete
  <2> HIDE DEF new
  <2> QED BY <2>1, <2>2, Begins
<1>4. ASSUME NEW c \in Callers, NEW p \in Projects, NEW w \in Workspaces,
             NEW s \in Workspaces \cup {"none"}, BeginTransfer(r, c, p, w, s)
      PROVE  IInv' /\ Keeps
  <2> DEFINE new == [Idle EXCEPT !.pc = "resolve_move", !.caller = c, !.to = w,
                                 !.row = [ws |-> s, name |-> proj[p].name], !.ids = Ids(p)]
  <2>1. proj[p].name \in Names
    BY <1>4, ProjectOrNone DEF BeginTransfer, IInv, Project
  <2>2. Ids(p) \in [Keys -> Nat]
    BY DEF IInv, TypeOK, Secret, NoSecret, Ids
  <2>3. new \in Pending /\ Grounded(new)
    BY <2>1, <2>2
  <2>4. Start(r, new)
    BY <1>4 DEF BeginTransfer
  <2> HIDE DEF new
  <2> QED BY <2>3, <2>4, Begins
<1>5. ASSUME NEW c \in Callers, NEW p \in Projects, BeginInvite(r, c, p)
      PROVE  IInv' /\ Keeps
  <2> DEFINE new == [Idle EXCEPT !.pc = "resolve_invite", !.caller = c,
                                 !.row = proj[p], !.ids = Ids(p)]
  <2>1. proj[p] \in Project
    BY <1>5, ProjectOrNone DEF BeginInvite, IInv
  <2>2. Ids(p) \in [Keys -> Nat]
    BY DEF IInv, TypeOK, Secret, NoSecret, Ids
  <2>3. new \in Pending /\ Grounded(new)
    BY <2>1, <2>2 DEF Project
  <2>4. Start(r, new)
    BY <1>5 DEF BeginInvite
  <2> HIDE DEF new
  <2> QED BY <2>3, <2>4, Begins
<1>6. ASSUME NEW c \in Callers, NEW p \in Projects, NEW E \in Environments,
             BeginClean(r, c, p, E)
      PROVE  IInv' /\ Keeps
  <2> DEFINE new == [Idle EXCEPT !.pc = "clean", !.p = p, !.keys = E]
  <2>1. new \in Pending /\ Grounded(new)
    BY EnvironmentsAssumption
  <2>2. Start(r, new)
    BY <1>6 DEF BeginClean
  <2> HIDE DEF new
  <2> QED BY <2>1, <2>2, Begins
<1>7. ASSUME NEW p \in Projects, NEW K \in SUBSET Keys, BeginUpsert(r, p, K)
      PROVE  IInv' /\ Keeps
  <2> DEFINE new == [Idle EXCEPT !.pc = "read", !.p = p, !.to = proj[p].ws, !.keys = K]
  <2>1. proj[p].ws \in Workspaces
    BY <1>7, ProjectOrNone DEF BeginUpsert, IInv
  <2>2. new \in Pending /\ Grounded(new)
    BY <2>1
  <2>3. Start(r, new)
    BY <1>7 DEF BeginUpsert
  <2> HIDE DEF new
  <2> QED BY <2>2, <2>3, Begins
<1>8. ASSUME NEW p \in Projects, NEW k \in Keys,
             NEW pc \in {"read_one", "read_policy", "read_drop"},
             NEW policy \in {"none", "open", "limited"},
             pc = "read_policy" => policy # "none",
             BeginSecret(r, p, k, pc, policy)
      PROVE  IInv' /\ Keeps
  <2> DEFINE new == [Idle EXCEPT !.pc = pc, !.p = p, !.to = proj[p].ws, !.keys = {k},
                                 !.policy = policy]
  <2>1. secret[p][k] # NoSecret
    BY <1>8 DEF BeginSecret
  <2>2. proj[p].ws \in Workspaces
    BY <2>1, ProjectOrNone, NoneWithoutProject DEF IInv
  <2>3. new \in Pending /\ Grounded(new)
    BY <1>8, <2>2
  <2>4. Start(r, new)
    BY <1>8 DEF BeginSecret
  <2> HIDE DEF new
  <2> QED BY <2>3, <2>4, Begins
<1> QED
  <2>1. ASSUME NEW p \in Projects, NEW k \in Keys,
               \/ BeginSecret(r, p, k, "read_one", "none")
               \/ \E policy \in {"open", "limited"} :
                      BeginSecret(r, p, k, "read_policy", policy)
               \/ BeginSecret(r, p, k, "read_drop", "none")
        PROVE  IInv' /\ Keeps
    BY <1>8, <2>1
  <2> QED BY <1>1, <1>2, <1>3, <1>4, <1>5, <1>6, <1>7, <2>1 DEF NewRequest

\* A request that has found out what it is about.
LEMMA LookupStep ==
    ASSUME IInv, NEW r \in Requests,
           \/ CheckName(r) \/ ResolveTransfer(r) \/ CheckTarget(r) \/ ResolveInvite(r)
           \/ ReadExisting(r) \/ ReadSecret(r)
    PROVE  IInv' /\ Keeps
<1>1. ASSUME CheckName(r) PROVE IInv' /\ Keeps
  BY <1>1, Answered, GoesOn DEF CheckName, Pcs
<1>2. ASSUME CheckTarget(r) PROVE IInv' /\ Keeps
  BY <1>2, Answered, GoesOn DEF CheckTarget, Pcs
<1>3. ASSUME ResolveTransfer(r) PROVE IInv' /\ Keeps
  <2>1. CASE Answer(r)
    BY <1>3, <2>1, Answered DEF ResolveTransfer
  <2>2. ASSUME NEW p \in Resolved(r),
               req' = [req EXCEPT ![r].pc = "target", ![r].p = p, ![r].row = proj[p]]
        PROVE  IInv' /\ Keeps
    <3> DEFINE new == [req[r] EXCEPT !.pc = "target", !.p = p, !.row = proj[p]]
    <3>1. p \in Projects /\ proj[p].ws \in live /\ req[r].caller \in admins[proj[p].ws]
      BY <2>2 DEF Resolved
    <3>2. proj[p] \in Project
      BY <3>1, ProjectOrNone, NoneAssumption DEF IInv, TypeOK, NoProject
    <3>3. req[r] \in Pending /\ Grounded(req[r]) /\ At(r, "resolve_move")
      BY <1>3, PendingOrIdle DEF IInv, At, ResolveTransfer
    <3>4. /\ new \in Pending /\ new.pc = "target" /\ new.p = p /\ new.row = proj[p]
          /\ new.caller = req[r].caller /\ new.to = req[r].to
      BY <3>1, <3>2, <3>3 DEF Pending, Pcs, Project
    <3>5. req' = [req EXCEPT ![r] = new]
      BY <2>2
    <3> HIDE DEF new
    <3>6. Grounded(new)
      BY <3>1, <3>2, <3>3, <3>4 DEF Grounded, Admitted, Project, At, IInv
    <3> QED BY <1>3, <3>4, <3>5, <3>6, OneMoves DEF ResolveTransfer
  <2> QED BY <1>3, <2>1, <2>2 DEF ResolveTransfer
<1>4. ASSUME ResolveInvite(r) PROVE IInv' /\ Keeps
  <2>1. CASE Answer(r)
    BY <1>4, <2>1, Answered DEF ResolveInvite
  <2>2. ASSUME NEW p \in Resolved(r), req' = [req EXCEPT ![r].pc = "migrate", ![r].p = p]
        PROVE  IInv' /\ Keeps
    <3> DEFINE new == [req[r] EXCEPT !.pc = "migrate", !.p = p]
    <3>1. /\ p \in Projects /\ proj[p].ws \in live /\ req[r].caller \in admins[proj[p].ws]
          /\ req[r].row.ws \in {"none", proj[p].ws}
      BY <2>2 DEF Resolved
    <3>2. /\ req[r] \in Pending /\ At(r, "resolve_invite")
          /\ req[r].row \in Project /\ req[r].caller \in Callers
      BY <1>4, PendingOrIdle DEF IInv, At, ResolveInvite, Grounded
    <3>3. req[r].row.ws = proj[p].ws /\ proj[p].ws \in Workspaces \cap born
      BY <3>1, <3>2, NoneAssumption DEF IInv, TypeOK, Project
    <3>4. /\ new \in Pending /\ new.pc = "migrate" /\ new.p = p
          /\ new.caller = req[r].caller /\ new.row = req[r].row
      BY <3>1, <3>2 DEF Pending, Pcs
    <3>5. req' = [req EXCEPT ![r] = new]
      BY <2>2
    <3> HIDE DEF new
    <3>6. Grounded(new)
      BY <3>1, <3>2, <3>3, <3>4 DEF Grounded, Admitted
    <3> QED BY <1>4, <3>4, <3>5, <3>6, OneMoves DEF ResolveInvite
  <2> QED BY <1>4, <2>1, <2>2 DEF ResolveInvite
<1>5. ASSUME ReadExisting(r) PROVE IInv' /\ Keeps
  <2> DEFINE p == req[r].p
             new == [req[r] EXCEPT !.pc = "upsert", !.ids = Ids(p)]
  <2>1. CASE proj[p] = NoProject
    BY <1>5, <2>1, Answered DEF ReadExisting
  <2>2. CASE proj[p] # NoProject
    <3>1. req[r] \in Pending /\ Grounded(req[r]) /\ At(r, "read")
      BY <1>5, PendingOrIdle DEF IInv, At, ReadExisting
    <3>2. Ids(p) \in [Keys -> Nat]
      BY <3>1 DEF Grounded, At, IInv, TypeOK, Secret, NoSecret, Ids
    <3>3. new \in Pending /\ Grounded(new)
      BY <3>1, <3>2 DEF Pending, Pcs, Grounded, At
    <3>4. req' = [req EXCEPT ![r] = new]
      BY <1>5, <2>2 DEF ReadExisting
    <3> QED BY <1>5, <3>3, <3>4, OneMoves DEF ReadExisting
  <2> QED BY <2>1, <2>2
<1>6. ASSUME ReadSecret(r) PROVE IInv' /\ Keeps
  <2> DEFINE p == req[r].p
             ids == [k \in Keys |-> IF k \in req[r].keys THEN secret[p][k].id ELSE 0]
             new == [req[r] EXCEPT !.pc = After(req[r].pc), !.ids = ids]
  <2>1. CASE Answer(r)
    BY <1>6, <2>1, Answered DEF ReadSecret
  <2>2. CASE req' = [req EXCEPT ![r].pc = After(@), ![r].ids = ids]
    <3>1. req[r] \in Pending /\ Grounded(req[r]) /\ p \in Projects
          /\ req[r].pc \in {"read_one", "read_policy", "read_drop"}
      BY <1>6, PendingOrIdle DEF IInv, ReadSecret, Grounded
    <3>2. ids \in [Keys -> Nat]
      BY <3>1 DEF IInv, TypeOK, Secret, NoSecret
    <3>3. /\ After(req[r].pc) \in {"set_value", "set_policy", "drop_secret"}
          /\ After(req[r].pc) = "set_policy" => req[r].pc = "read_policy"
      BY <3>1 DEF After
    <3>4. \A k \in Keys : ids[k] # 0 => k \in req[r].keys
      OBVIOUS
    <3> HIDE DEF ids
    <3>5. /\ new \in Pending /\ new.pc = After(req[r].pc) /\ new.p = p
          /\ new.to = req[r].to /\ new.policy = req[r].policy
          /\ new.keys = req[r].keys /\ new.ids = ids
      BY <3>1, <3>2, <3>3 DEF Pending, Pcs
    <3>6. req' = [req EXCEPT ![r] = new]
      BY <2>2
    <3> HIDE DEF new
    <3>7. Grounded(new)
      BY <3>1, <3>3, <3>4, <3>5 DEF Grounded
    <3> QED BY <1>6, <3>5, <3>6, <3>7, OneMoves DEF ReadSecret
  <2> QED BY <1>6, <2>1, <2>2 DEF ReadSecret
<1> QED BY <1>1, <1>2, <1>3, <1>4, <1>5, <1>6

-----------------------------------------------------------------------------
(* Steps that write secrets and nothing else. *)

\* What request r may make of the secret k of p: a row is only inserted into a
\* project that is there and under the next primary key, only a policy update
\* changes a policy, and a value is under the key it was under, under the one
\* of the workspace the project is in, or r is stale.
May(r, p, k, new) ==
    /\ new # NoSecret => secret[p][k] # NoSecret \/ proj[p] # NoProject
    /\ new.id \in {0, secret[p][k].id, nextId}
    /\ secret[p][k] # NoSecret /\ new.id = secret[p][k].id
         /\ new.policy # secret[p][k].policy
       => At(r, "set_policy") /\ k \in req[r].keys
    /\ \/ new = NoSecret
       \/ secret[p][k] # NoSecret /\ new.under = secret[p][k].under
       \/ new.under = proj[p].ws
       \/ IsStale(r, p, k)

LEMMA WritesSecrets ==
    ASSUME IInv, NEW r \in Requests, NEW p \in Projects, req[r].p = p, Answer(r),
           NEW new \in [Keys -> Secret \cup {NoSecret}], \A k \in Keys : May(r, p, k, new[k]),
           secret' = [secret EXCEPT ![p] = new], nextId' \in Nat \ {0},
           UNCHANGED <<live, admins, proj, born>>
    PROVE  IInv' /\ Keeps
<1>1. TypeOK'
  BY DEF IInv, TypeOK, Answer
<1>2. \A q \in Projects, k \in Keys : secret'[q][k] = IF q = p THEN new[k] ELSE secret[q][k]
  BY DEF IInv, TypeOK
<1>3. req'[r] = Idle /\ \A q \in Requests \ {r} : req'[q] = req[q]
  BY DEF Answer, IInv, TypeOK
<1>4. NoOrphans'
  <2>1. ASSUME NEW q \in Projects, proj[q] = NoProject, NEW k \in Keys
        PROVE  secret'[q][k].id = 0
    <3>1. secret[q][k] = NoSecret
      BY <2>1, NoneWithoutProject DEF IInv
    <3>2. secret'[q][k] = NoSecret
      BY <1>2, <2>1, <3>1 DEF May
    <3> QED BY <3>2 DEF NoSecret
  <2> QED BY <2>1 DEF IInv, NoOrphans, Ids, NoKeys
<1>5. ASSUME NEW q \in Requests PROVE Grounded(req[q])'
  <2>1. CASE q = r
    BY <1>3, <2>1 DEF Grounded, Idle
  <2>2. CASE q # r
    BY <1>3, <2>2, StaysGrounded
  <2> QED BY <2>1, <2>2
<1>6. KeepsPolicies
  <2> SUFFICES ASSUME NEW q \in Projects, NEW k \in Keys, secret[q][k] # NoSecret,
                      secret'[q][k].id = secret[q][k].id,
                      secret'[q][k].policy # secret[q][k].policy
               PROVE  At(r, "set_policy") /\ req[r].p = q /\ k \in req[r].keys
    BY <1>3 DEF KeepsPolicies
  <2>1. q = p
    BY <1>2
  <2> QED BY <1>2, <2>1 DEF May
<1>7. KeepsDeletions
  BY <1>2 DEF KeepsDeletions, May
<1>8. KeepsReadable
  <2> SUFFICES ASSUME NEW q \in Projects, NEW k \in Keys, Readable(q, k), ~Readable(q, k)'
               PROVE  req[r].p = q /\ IsStale(r, q, k)
    BY <1>3 DEF KeepsReadable
  <2>1. q = p
    BY <1>2 DEF Readable
  <2> QED BY <1>2, <2>1 DEF May, Readable
<1>9. KeepsMovers
  BY DEF KeepsMovers
<1>10. (live \subseteq born)' /\ (\A q \in Projects : proj[q] # NoProject => q \in born)'
  BY DEF IInv
<1> QED BY <1>1, <1>4, <1>5, <1>6, <1>7, <1>8, <1>9, <1>10 DEF IInv, Keeps

\* A new ciphertext for a row that the request has read.
LEMMA RewrappedMay ==
    ASSUME IInv, NEW r \in Requests, NEW p \in Projects, NEW k \in StillThere(r, p),
           NEW w \in Workspaces
    PROVE  /\ secret[p][k] # NoSecret
           /\ [secret[p][k] EXCEPT !.under = w] \in Secret
           /\ [secret[p][k] EXCEPT !.under = w].id = secret[p][k].id
           /\ [secret[p][k] EXCEPT !.under = w].policy = secret[p][k].policy
           /\ [secret[p][k] EXCEPT !.under = w].under = w
<1>1. k \in Keys /\ secret[p][k].id # 0
  BY DEF StillThere
<1>2. secret[p][k] # NoSecret /\ secret[p][k] \in Secret
  BY <1>1, SecretOrNone DEF IInv
<1> QED BY <1>2 DEF Secret

LEMMA SetValueStep ==
    ASSUME IInv, NEW r \in Requests, SetValue(r)
    PROVE  IInv' /\ Keeps
<1> DEFINE p == req[r].p
           w == req[r].to
           new == [k \in Keys |-> IF k \in StillThere(r, p)
                                  THEN [secret[p][k] EXCEPT !.under = w]
                                  ELSE secret[p][k]]
<1>1. At(r, "set_value") /\ p \in Projects /\ w \in Workspaces
  BY DEF IInv, Grounded, SetValue, At
<1>2. Answer(r) /\ secret' = [secret EXCEPT ![p] = new]
      /\ UNCHANGED <<live, admins, proj, born, nextId>>
  BY DEF SetValue, Rewrapped
<1>3. ASSUME NEW k \in Keys PROVE new[k] \in Secret \cup {NoSecret} /\ May(r, p, k, new[k])
  <2>1. CASE k \in StillThere(r, p)
    <3>1. new[k] \in Secret /\ secret[p][k] # NoSecret /\ new[k].id = secret[p][k].id
          /\ new[k].policy = secret[p][k].policy /\ new[k].under = w
      <4>1. new[k] = [secret[p][k] EXCEPT !.under = w]
        BY <2>1
      <4> HIDE DEF new
      <4> QED BY <1>1, <2>1, <4>1, RewrappedMay
    <3>2. w = proj[p].ws \/ IsStale(r, p, k)
      BY <1>1 DEF IsStale, At
    <3> QED BY <3>1, <3>2 DEF May
  <2>2. CASE k \notin StillThere(r, p)
    BY <1>1, <2>2, SecretOrNone DEF May, IInv
  <2> QED BY <2>1, <2>2
<1>4. new \in [Keys -> Secret \cup {NoSecret}]
  BY <1>3
<1> HIDE DEF new
<1> QED BY <1>1, <1>2, <1>3, <1>4, WritesSecrets DEF IInv, TypeOK

LEMMA SetPolicyStep ==
    ASSUME IInv, NEW r \in Requests, SetPolicy(r)
    PROVE  IInv' /\ Keeps
<1> DEFINE p == req[r].p
           new == [k \in Keys |-> IF k \in StillThere(r, p)
                                  THEN [secret[p][k] EXCEPT !.policy = req[r].policy]
                                  ELSE secret[p][k]]
<1>1. req[r] \in Pending /\ At(r, "set_policy") /\ p \in Projects /\ req[r].policy # "none"
  BY PendingOrIdle DEF IInv, Grounded, SetPolicy, At
<1>2. Answer(r) /\ secret' = [secret EXCEPT ![p] = new]
      /\ UNCHANGED <<live, admins, proj, born, nextId>>
  BY DEF SetPolicy
<1>3. ASSUME NEW k \in Keys PROVE new[k] \in Secret \cup {NoSecret} /\ May(r, p, k, new[k])
  <2>1. CASE k \in StillThere(r, p)
    <3>1. secret[p][k] # NoSecret /\ secret[p][k] \in Secret
      BY <1>1, <2>1, RewrappedMay, SecretOrNone DEF IInv, StillThere
    <3>2. /\ new[k] \in Secret /\ new[k].id = secret[p][k].id
          /\ new[k].under = secret[p][k].under
      BY <1>1, <2>1, <3>1 DEF Secret, Pending
    <3>3. k \in req[r].keys
      BY <1>1, <2>1 DEF StillThere, IInv, Grounded, At
    <3> QED BY <1>1, <3>1, <3>2, <3>3 DEF May
  <2>2. CASE k \notin StillThere(r, p)
    BY <1>1, <2>2, SecretOrNone DEF May, IInv
  <2> QED BY <2>1, <2>2
<1>4. new \in [Keys -> Secret \cup {NoSecret}]
  BY <1>3
<1> HIDE DEF new
<1> QED BY <1>1, <1>2, <1>3, <1>4, WritesSecrets DEF IInv, TypeOK

LEMMA DropSecretStep ==
    ASSUME IInv, NEW r \in Requests, DropSecret(r)
    PROVE  IInv' /\ Keeps
<1> DEFINE p == req[r].p
           new == [k \in Keys |-> IF k \in StillThere(r, p) THEN NoSecret ELSE secret[p][k]]
<1>1. At(r, "drop_secret") /\ p \in Projects
  BY DEF IInv, Grounded, DropSecret, At
<1>2. Answer(r) /\ secret' = [secret EXCEPT ![p] = new]
      /\ UNCHANGED <<live, admins, proj, born, nextId>>
  BY DEF DropSecret
<1>3. \A k \in Keys : new[k] \in Secret \cup {NoSecret} /\ May(r, p, k, new[k])
  BY <1>1, SecretOrNone DEF May, IInv, NoSecret
<1>4. new \in [Keys -> Secret \cup {NoSecret}]
  BY <1>3
<1> HIDE DEF new
<1> QED BY <1>1, <1>2, <1>3, <1>4, WritesSecrets DEF IInv, TypeOK

LEMMA CleanStep ==
    ASSUME IInv, NEW r \in Requests, Clean(r)
    PROVE  IInv' /\ Keeps
<1> DEFINE p == req[r].p
           new == [k \in Keys |-> IF k \in req[r].keys THEN NoSecret ELSE secret[p][k]]
<1>1. At(r, "clean") /\ p \in Projects
  BY DEF IInv, Grounded, Clean, At
<1>2. Answer(r) /\ secret' = [secret EXCEPT ![p] = new]
      /\ UNCHANGED <<live, admins, proj, born, nextId>>
  BY DEF Clean
<1>3. \A k \in Keys : new[k] \in Secret \cup {NoSecret} /\ May(r, p, k, new[k])
  BY <1>1, SecretOrNone DEF May, IInv, NoSecret
<1>4. new \in [Keys -> Secret \cup {NoSecret}]
  BY <1>3
<1> HIDE DEF new
<1> QED BY <1>1, <1>2, <1>3, <1>4, WritesSecrets DEF IInv, TypeOK

LEMMA UpsertStep ==
    ASSUME IInv, NEW r \in Requests, Upsert(r)
    PROVE  IInv' /\ Keeps
<1> DEFINE p == req[r].p
           w == req[r].to
           fresh == {k \in req[r].keys : req[r].ids[k] = 0}
           old == StillThere(r, p) \cap req[r].keys
           row == [id |-> nextId, under |-> w, policy |-> "open"]
           new == [k \in Keys |-> IF k \in fresh THEN row
                                  ELSE IF k \in old THEN [secret[p][k] EXCEPT !.under = w]
                                  ELSE secret[p][k]]
<1>1. At(r, "upsert") /\ p \in Projects /\ w \in Workspaces /\ nextId \in Nat \ {0}
  BY DEF IInv, Grounded, Upsert, At, TypeOK
<1>2. CASE ~(fresh = {} \/ (proj[p] # NoProject /\ \A k \in fresh : secret[p][k] = NoSecret))
  BY <1>2, Answered DEF Upsert, db
<1>3. CASE fresh = {} \/ (proj[p] # NoProject /\ \A k \in fresh : secret[p][k] = NoSecret)
  <2>1. Answer(r) /\ secret' = [secret EXCEPT ![p] = new] /\ nextId' \in Nat \ {0}
        /\ UNCHANGED <<live, admins, proj, born>>
    BY <1>1, <1>3 DEF Upsert
  <2>2. row \in Secret /\ row.id = nextId /\ row.under = w
    BY <1>1 DEF Secret
  <2>3. w = proj[p].ws \/ \A k \in Keys : IsStale(r, p, k)
    BY <1>1 DEF IsStale, At
  <2>4. ASSUME NEW k \in Keys PROVE new[k] \in Secret \cup {NoSecret} /\ May(r, p, k, new[k])
    <3>1. CASE k \in fresh
      <4>1. new[k] = row /\ proj[p] # NoProject /\ secret[p][k] = NoSecret
        BY <1>3, <3>1
      <4> HIDE DEF new, row
      <4> QED BY <2>2, <2>3, <4>1 DEF May
    <3>2. CASE k \notin fresh /\ k \in old
      <4>1. new[k] = [secret[p][k] EXCEPT !.under = w] /\ k \in StillThere(r, p)
        BY <3>2
      <4> HIDE DEF new
      <4>2. new[k] \in Secret /\ secret[p][k] # NoSecret /\ new[k].id = secret[p][k].id
            /\ new[k].policy = secret[p][k].policy /\ new[k].under = w
        BY <1>1, <4>1, RewrappedMay
      <4> QED BY <2>3, <4>2 DEF May
    <3>3. CASE k \notin fresh /\ k \notin old
      BY <1>1, <3>3, SecretOrNone DEF May, IInv
    <3> QED BY <3>1, <3>2, <3>3
  <2>5. new \in [Keys -> Secret \cup {NoSecret}]
    BY <2>4
  <2> HIDE DEF new
  <2> QED BY <1>1, <2>1, <2>4, <2>5, WritesSecrets
<1> QED BY <1>2, <1>3

-----------------------------------------------------------------------------
(* Steps that write projects. *)

LEMMA InsertProjectStep ==
    ASSUME IInv, NEW r \in Requests, InsertProject(r)
    PROVE  IInv' /\ Keeps
<1> DEFINE row == [ws |-> req[r].to, name |-> req[r].name]
<1>1. CASE UNCHANGED <<proj, born>>
  BY <1>1, Answered DEF InsertProject, db
<1>2. ASSUME NEW p \in Projects \ born, Allowed(p, row), proj' = [proj EXCEPT ![p] = row],
             born' = born \cup {p}
      PROVE  IInv' /\ Keeps
  <2>1. /\ Answer(r) /\ UNCHANGED <<live, admins, secret, nextId>> /\ At(r, "insert_project")
        /\ req[r].to \in Workspaces /\ req[r].name \in Names
    BY DEF InsertProject, IInv, Grounded, At
  <2>2. row \in Project /\ row.ws \in live
    BY <1>2, <2>1 DEF Project, Allowed
  <2>3. proj[p] = NoProject
    BY <1>2 DEF IInv
  <2>4. \A q \in Projects : proj'[q] = IF q = p THEN row ELSE proj[q]
    BY <1>2 DEF IInv, TypeOK
  <2>5. TypeOK'
    BY <1>2, <2>1, <2>2 DEF IInv, TypeOK, Answer
  <2>6. NoOrphans' /\ (live \subseteq born)' /\ (\A q \in Projects : proj[q] # NoProject => q \in born)'
    <3>1. live' = live /\ \A q \in Projects : Ids(q)' = Ids(q)
      BY <2>1 DEF Ids
    <3> HIDE DEF row
    <3>2. proj'[p].ws \in live /\ proj'[p] # NoProject
      BY <2>2, <2>4, NoneAssumption DEF Project, NoProject
    <3> QED BY <1>2, <2>4, <3>1, <3>2 DEF IInv, NoOrphans
  <2>7. ASSUME NEW q \in Requests PROVE Grounded(req[q])'
    <3>1. CASE q = r
      BY <2>1, <3>1 DEF Answer, IInv, TypeOK, Grounded, Idle
    <3>2. CASE q # r
      <4>1. req'[q] = req[q]
        BY <2>1, <3>2 DEF Answer, IInv, TypeOK
      <4> QED BY <1>2, <2>1, <4>1, StaysGrounded
    <3> QED BY <3>1, <3>2
  <2>8. KeepsReadable
    <3>1. \A k \in Keys : secret[p][k] = NoSecret
      BY <2>3, NoneWithoutProject DEF IInv
    <3> QED BY <2>1, <2>4, <3>1 DEF KeepsReadable, Readable
  <2>9. KeepsMovers
    <3>1. \A q \in Requests : req'[q] = Idle /\ req[q].pc # "idle" => q = r
      BY <2>1 DEF Answer, IInv, TypeOK, Idle
    <3> QED BY <2>1, <3>1 DEF KeepsMovers, At
  <2>10. KeepsPolicies /\ KeepsDeletions
    BY <2>1 DEF KeepsPolicies, KeepsDeletions
  <2> QED BY <2>5, <2>6, <2>7, <2>8, <2>9, <2>10 DEF IInv, Keeps
<1> QED BY <1>1, <1>2 DEF InsertProject

\* What is left to show of a request that ends.
LEMMA Ends ==
    ASSUME IInv, NEW r \in Requests, Answer(r), born \subseteq born',
           live' \cap born \subseteq live,
           \A w \in Workspaces : w \in live' \cap born => admins'[w] = admins[w]
    PROVE  /\ req' \in [Requests -> Pending \cup {Idle}]
           /\ \A q \in Requests : Grounded(req[q])'
           /\ req'[r] = Idle
           /\ req[r].pc \notin {"move", "migrate"} => KeepsMovers
<1>1. req' \in [Requests -> Pending \cup {Idle}]
      /\ \A q \in Requests : req'[q] = IF q = r THEN Idle ELSE req[q]
  BY DEF Answer, IInv, TypeOK
<1>2. ASSUME NEW q \in Requests PROVE Grounded(req[q])'
  <2>1. CASE q = r
    BY <1>1, <2>1 DEF Grounded, Idle
  <2>2. CASE q # r
    BY <1>1, <2>2, StaysGrounded
  <2> QED BY <2>1, <2>2
<1>3. \A q \in Requests : req'[q] = Idle /\ req[q].pc # "idle" => q = r
  BY <1>1 DEF Idle
<1> QED BY <1>1, <1>2, <1>3 DEF KeepsMovers

\* The whole row is written, as it was when the request began.
LEMMA SaveProjectStep ==
    ASSUME IInv, NEW r \in Requests, SaveProject(r)
    PROVE  IInv' /\ Keeps
<1> DEFINE p == req[r].p
           row == [req[r].row EXCEPT !.name = req[r].name]
<1>1. /\ At(r, "save") /\ p \in Projects /\ p \in born /\ req[r].row \in Project
      /\ req[r].name \in Names
  BY DEF SaveProject, IInv, Grounded, At
<1>2. CASE ~Allowed(p, row)
  BY <1>2, Answered DEF SaveProject, db
<1>3. CASE Allowed(p, row)
  <2>1. proj' = [proj EXCEPT ![p] = row] /\ Answer(r) /\ UNCHANGED <<live, admins, born, secret, nextId>>
    BY <1>3 DEF SaveProject
  <2>2. row \in Project /\ row.ws = req[r].row.ws /\ row.ws \in live
    BY <1>1, <1>3 DEF Project, Allowed
  <2> HIDE DEF row
  <2>3. \A q \in Projects : proj'[q] = IF q = p THEN row ELSE proj[q]
    BY <1>1, <2>1 DEF IInv, TypeOK
  <2>4. /\ req' \in [Requests -> Pending \cup {Idle}] /\ req'[r] = Idle
        /\ \A q \in Requests : Grounded(req[q])'
        /\ KeepsMovers
    BY <1>1, <2>1, Ends DEF At
  <2>5. TypeOK'
    BY <1>1, <2>1, <2>2, <2>4 DEF IInv, TypeOK
  <2>6. NoOrphans' /\ (live \subseteq born)' /\ (\A q \in Projects : proj[q] # NoProject => q \in born)'
    <3>1. live' = live /\ \A q \in Projects : Ids(q)' = Ids(q)
      BY <2>1 DEF Ids
    <3>2. row # NoProject
      BY <2>2, NoneAssumption DEF Project, NoProject
    <3> QED BY <1>1, <2>1, <2>2, <2>3, <3>1, <3>2 DEF IInv, NoOrphans
  <2>7. KeepsReadable
    <3> SUFFICES ASSUME NEW q \in Projects, NEW k \in Keys, Readable(q, k), ~Readable(q, k)'
                 PROVE  req[r].p = q /\ IsStale(r, q, k)
      BY <2>4 DEF KeepsReadable
    <3>1. q = p
      BY <2>1, <2>3 DEF Readable
    <3>2. row.ws # proj[p].ws
      BY <1>1, <2>1, <2>3, <3>1 DEF Readable
    <3> QED BY <1>1, <2>2, <3>1, <3>2 DEF IsStale, At
  <2>8. KeepsPolicies /\ KeepsDeletions
    BY <2>1 DEF KeepsPolicies, KeepsDeletions
  <2> QED BY <2>4, <2>5, <2>6, <2>7, <2>8 DEF IInv, Keeps
<1> QED BY <1>2, <1>3

LEMMA DropProjectStep ==
    ASSUME IInv, NEW r \in Requests, DropProject(r)
    PROVE  IInv' /\ Keeps
<1> DEFINE p == req[r].p
           none == [k \in Keys |-> NoSecret]
<1>1. At(r, "drop_project") /\ p \in Projects
  BY DEF DropProject, IInv, Grounded, At
<1>2. /\ proj' = [proj EXCEPT ![p] = NoProject] /\ secret' = [secret EXCEPT ![p] = none]
      /\ Answer(r) /\ UNCHANGED <<live, admins, born, nextId>>
  BY DEF DropProject
<1>3. /\ \A q \in Projects : proj'[q] = IF q = p THEN NoProject ELSE proj[q]
      /\ \A q \in Projects : q # p => secret'[q] = secret[q]
      /\ \A k \in Keys : secret'[p][k] = NoSecret
  BY <1>1, <1>2 DEF IInv, TypeOK
<1>4. /\ req' \in [Requests -> Pending \cup {Idle}] /\ req'[r] = Idle
      /\ \A q \in Requests : Grounded(req[q])'
      /\ KeepsMovers
  BY <1>1, <1>2, Ends DEF At
<1>5. TypeOK'
  BY <1>1, <1>2, <1>4 DEF IInv, TypeOK
<1>6. NoOrphans' /\ (live \subseteq born)' /\ (\A q \in Projects : proj[q] # NoProject => q \in born)'
  <2>1. live' = live
    BY <1>2
  <2>2. \A q \in Projects : q = p => Ids(q)' = NoKeys
    BY <1>1, <1>3 DEF Ids, NoKeys, NoSecret
  <2>3. \A q \in Projects \ {p} : Ids(q)' = Ids(q)
    BY <1>3 DEF Ids
  <2> QED BY <1>2, <1>3, <2>1, <2>2, <2>3 DEF IInv, NoOrphans
<1>7. KeepsReadable
  BY <1>3 DEF KeepsReadable, Readable
<1>8. KeepsPolicies /\ KeepsDeletions
  <2>1. NoSecret.id = 0
    BY DEF NoSecret
  <2> QED BY <1>1, <1>3, <2>1, SecretOrNone DEF KeepsPolicies, KeepsDeletions, IInv
<1> QED BY <1>4, <1>5, <1>6, <1>7, <1>8 DEF IInv, Keeps

LEMMA TransferStep ==
    ASSUME IInv, NEW r \in Requests, Transfer(r)
    PROVE  IInv' /\ Keeps
<1> DEFINE p == req[r].p
           w == req[r].to
           row == [proj[p] EXCEPT !.ws = w]
           new == [k \in Keys |-> IF k \in StillThere(r, p)
                                  THEN [secret[p][k] EXCEPT !.under = w]
                                  ELSE secret[p][k]]
<1>1. /\ At(r, "move") /\ p \in Projects /\ w \in Workspaces
      /\ Admitted(req[r], req[r].row.ws) /\ Admitted(req[r], w)
  BY DEF Transfer, IInv, Grounded, At
<1>2. CASE ~(proj[p] # NoProject /\ Allowed(p, row))
  BY <1>2, Answered DEF Transfer, db
<1>3. CASE proj[p] # NoProject /\ Allowed(p, row)
  <2>1. /\ proj' = [proj EXCEPT ![p].ws = w] /\ secret' = [secret EXCEPT ![p] = new]
        /\ Answer(r) /\ UNCHANGED <<live, admins, born, nextId>>
    BY <1>3 DEF Transfer, Rewrapped
  <2>2. proj[p] \in Project /\ row \in Project /\ row.ws = w /\ w \in live
    BY <1>1, <1>3, ProjectOrNone DEF Project, Allowed, IInv
  <2>3. /\ \A q \in Projects : proj'[q] = IF q = p THEN row ELSE proj[q]
        /\ \A q \in Projects : secret'[q] = IF q = p THEN new ELSE secret[q]
    BY <1>1, <2>1 DEF IInv, TypeOK
  <2>4. ASSUME NEW k \in Keys
        PROVE  /\ new[k] \in Secret \cup {NoSecret}
               /\ new[k].id = secret[p][k].id /\ new[k].policy = secret[p][k].policy
               /\ new[k] = NoSecret \/ new[k].under = w \/ IsStale(r, p, k)
    <3>1. CASE k \in StillThere(r, p)
      <4>1. new[k] = [secret[p][k] EXCEPT !.under = w]
        BY <3>1
      <4> HIDE DEF new
      <4> QED BY <1>1, <3>1, <4>1, RewrappedMay
    <3>2. CASE k \notin StillThere(r, p)
      <4>1. new[k] = secret[p][k]
        BY <3>2
      <4>2. secret[p][k] # NoSecret => IsStale(r, p, k)
        BY <1>1, <3>2, SecretOrNone DEF StillThere, IsStale, At, IInv
      <4> QED BY <1>1, <4>1, <4>2, SecretOrNone DEF IInv
    <3> QED BY <3>1, <3>2
  <2>5. new \in [Keys -> Secret \cup {NoSecret}]
    BY <2>4
  <2> HIDE DEF new, row
  <2>6. /\ req' \in [Requests -> Pending \cup {Idle}] /\ req'[r] = Idle
        /\ \A q \in Requests : Grounded(req[q])'
    BY <2>1, Ends
  <2>7. TypeOK'
    <3>1. proj' \in [Projects -> Project \cup {NoProject}]
      BY <2>1, <2>2, <2>3 DEF IInv, TypeOK
    <3> QED BY <1>1, <2>1, <2>5, <2>6, <3>1 DEF IInv, TypeOK
  <2>8. NoOrphans' /\ (live \subseteq born)' /\ (\A q \in Projects : proj[q] # NoProject => q \in born)'
    <3>1. live' = live /\ \A q \in Projects \ {p} : Ids(q)' = Ids(q)
      BY <2>1, <2>3 DEF Ids
    <3>2. row # NoProject
      BY <2>2, NoneAssumption DEF Project, NoProject
    <3> QED BY <1>1, <1>3, <2>1, <2>2, <2>3, <3>1, <3>2 DEF IInv, NoOrphans
  <2>9. KeepsReadable
    <3> SUFFICES ASSUME NEW q \in Projects, NEW k \in Keys, Readable(q, k), ~Readable(q, k)'
                 PROVE  req[r].p = q /\ IsStale(r, q, k)
      BY <2>6 DEF KeepsReadable
    <3>1. q = p
      BY <2>3 DEF Readable
    <3> QED BY <2>2, <2>3, <2>4, <3>1 DEF Readable
  <2>10. KeepsPolicies /\ KeepsDeletions
    BY <2>3, <2>4 DEF KeepsPolicies, KeepsDeletions
  <2>11. KeepsMovers
    <3>1. \A q \in Requests : req'[q] = Idle /\ req[q].pc # "idle" => q = r
      BY <2>1 DEF Answer, IInv, TypeOK, Idle
    <3>2. proj[p].ws \in live /\ proj'[p].ws = w
      BY <1>1, <1>3, <2>2, <2>3 DEF IInv, NoOrphans
    <3> QED BY <1>1, <2>1, <2>2, <3>1, <3>2 DEF KeepsMovers, Admitted
  <2> QED BY <2>6, <2>7, <2>8, <2>9, <2>10, <2>11 DEF IInv, Keeps
<1> QED BY <1>2, <1>3

\* A workspace comes into being, with the caller as its owner and perhaps the
\* invitee as an admin.
LEMMA MigrateStep ==
    ASSUME IInv, NEW r \in Requests, NEW w \in Workspaces, NEW invited \in SUBSET Users,
           Migrate(r, w, invited)
    PROVE  IInv' /\ Keeps
<1> DEFINE p == req[r].p
           listed == {k \in Keys : req[r].ids[k] # 0}
           lost == {k \in listed : secret[p][k] = NoSecret}
           inserted == [id |-> nextId, under |-> w, policy |-> "open"]
           new == [k \in Keys |-> IF k \in lost THEN inserted
                                  ELSE IF k \in listed THEN [secret[p][k] EXCEPT !.under = w]
                                  ELSE secret[p][k]]
           row == [proj[p] EXCEPT !.ws = w]
<1>1. /\ At(r, "migrate") /\ p \in Projects /\ req[r].caller \in Callers
      /\ nextId \in Nat \ {0} /\ w \notin born
      /\ req[r].row.ws \in Workspaces \cap born /\ Admitted(req[r], req[r].row.ws)
  BY DEF Migrate, IInv, Grounded, At, TypeOK
<1>2. CASE proj[p] = NoProject
  BY <1>2, Answered DEF Migrate, db
<1>3. CASE proj[p] # NoProject
  <2>1. /\ admins' = [admins EXCEPT ![w] = {req[r].caller} \cup invited]
        /\ live' = live \cup {w} /\ born' = born \cup {w}
        /\ proj' = [proj EXCEPT ![p].ws = w] /\ secret' = [secret EXCEPT ![p] = new]
        /\ nextId' \in Nat \ {0} /\ Answer(r)
    BY <1>1, <1>3 DEF Migrate
  <2>2. proj[p] \in Project /\ row \in Project /\ row.ws = w
    BY <1>1, <1>3, ProjectOrNone DEF Project, IInv
  <2>3. /\ \A q \in Projects : proj'[q] = IF q = p THEN row ELSE proj[q]
        /\ \A q \in Projects : secret'[q] = IF q = p THEN new ELSE secret[q]
    BY <1>1, <2>1 DEF IInv, TypeOK
  <2>4. \A x \in Workspaces : admins'[x] = IF x = w THEN {req[r].caller} \cup invited
                                                      ELSE admins[x]
    BY <2>1 DEF IInv, TypeOK
  <2>5. ASSUME NEW k \in Keys
        PROVE  /\ new[k] \in Secret \cup {NoSecret}
               /\ new[k].id \in {secret[p][k].id, nextId}
               /\ secret[p][k] # NoSecret => new[k].policy = secret[p][k].policy
               /\ new[k] = NoSecret \/ new[k].under = w \/ IsStale(r, p, k)
    <3>1. CASE k \in lost
      <4>1. new[k] = inserted /\ secret[p][k] = NoSecret
        BY <3>1
      <4>2. inserted \in Secret /\ inserted.id = nextId /\ inserted.under = w
        BY <1>1 DEF Secret
      <4> HIDE DEF new, inserted
      <4> QED BY <4>1, <4>2
    <3>2. CASE k \notin lost /\ k \in listed
      <4>1. new[k] = [secret[p][k] EXCEPT !.under = w] /\ secret[p][k] # NoSecret
        BY <3>2
      <4>2. secret[p][k] \in Secret
        BY <1>1, <4>1, SecretOrNone DEF IInv
      <4> HIDE DEF new
      <4> QED BY <4>1, <4>2 DEF Secret
    <3>3. CASE k \notin lost /\ k \notin listed
      <4>1. new[k] = secret[p][k] /\ req[r].ids[k] = 0
        BY <3>3
      <4>2. secret[p][k] # NoSecret => IsStale(r, p, k)
        BY <1>1, <4>1, SecretOrNone DEF IsStale, At, IInv
      <4> QED BY <1>1, <4>1, <4>2, SecretOrNone DEF IInv
    <3> QED BY <3>1, <3>2, <3>3
  <2>6. new \in [Keys -> Secret \cup {NoSecret}]
    BY <2>5
  <2> HIDE DEF new, row
  <2>7. /\ req' \in [Requests -> Pending \cup {Idle}] /\ req'[r] = Idle
        /\ \A q \in Requests : Grounded(req[q])'
    BY <1>1, <2>1, <2>4, Ends
  <2>8. TypeOK'
    <3>1. proj' \in [Projects -> Project \cup {NoProject}]
      BY <2>1, <2>2, <2>3 DEF IInv, TypeOK
    <3>2. admins' \in [Workspaces -> SUBSET Users] /\ born' \subseteq Projects \cup Workspaces
      BY <1>1, <2>1, AdminsAssumption DEF IInv, TypeOK
    <3> QED BY <1>1, <2>1, <2>6, <2>7, <3>1, <3>2 DEF IInv, TypeOK
  <2>9. NoOrphans' /\ (live \subseteq born)' /\ (\A q \in Projects : proj[q] # NoProject => q \in born)'
    <3>1. \A q \in Projects \ {p} : Ids(q)' = Ids(q)
      BY <2>3 DEF Ids
    <3>2. row # NoProject
      BY <2>2, NoneAssumption DEF Project, NoProject
    <3> QED BY <1>1, <1>3, <2>1, <2>2, <2>3, <3>1, <3>2 DEF IInv, NoOrphans
  <2>10. KeepsReadable
    <3> SUFFICES ASSUME NEW q \in Projects, NEW k \in Keys, Readable(q, k), ~Readable(q, k)'
                 PROVE  req[r].p = q /\ IsStale(r, q, k)
      BY <2>7 DEF KeepsReadable
    <3>1. q = p
      BY <2>3 DEF Readable
    <3> QED BY <2>2, <2>3, <2>5, <3>1 DEF Readable
  <2>11. KeepsPolicies /\ KeepsDeletions
    BY <2>3, <2>5 DEF KeepsPolicies, KeepsDeletions
  <2>12. KeepsMovers
    <3>1. \A q \in Requests : req'[q] = Idle /\ req[q].pc # "idle" => q = r
      BY <2>1 DEF Answer, IInv, TypeOK, Idle
    <3>2. proj[p].ws \in live /\ proj'[p].ws = w
      BY <1>1, <1>3, <2>2, <2>3 DEF IInv, NoOrphans
    <3>3. req[r].caller \in admins'[w]
      BY <2>4
    <3>4. req[r].row.ws = proj[p].ws => admins'[proj[p].ws] = admins[proj[p].ws]
      BY <1>1, <2>4
    <3> QED BY <1>1, <3>1, <3>2, <3>3, <3>4 DEF KeepsMovers, Admitted
  <2> QED BY <2>7, <2>8, <2>9, <2>10, <2>11, <2>12 DEF IInv, Keeps
<1> QED BY <1>2, <1>3

LEMMA DeleteWorkspaceStep ==
    ASSUME IInv, NEW w \in Workspaces, DeleteWorkspace(w)
    PROVE  IInv' /\ Keeps
<1> DEFINE gone == {p \in Projects : proj[p].ws = w}
<1>1. /\ live' = live \ {w} /\ admins' = [admins EXCEPT ![w] = {}]
      /\ proj' = [p \in Projects |-> IF p \in gone THEN NoProject ELSE proj[p]]
      /\ secret' = [p \in Projects |-> IF p \in gone THEN [k \in Keys |-> NoSecret]
                                                     ELSE secret[p]]
      /\ UNCHANGED <<born, nextId, req>>
  BY DEF DeleteWorkspace
<1>2. TypeOK'
  BY <1>1 DEF IInv, TypeOK
<1>3. \A x \in Workspaces : admins'[x] = IF x = w THEN {} ELSE admins[x]
  BY <1>1 DEF IInv, TypeOK
<1>4. live' = live \ {w}
  BY <1>1
<1>5. /\ \A p \in gone : proj'[p] = NoProject
      /\ \A p \in gone, k \in Keys : secret'[p][k] = NoSecret
      /\ \A p \in Projects \ gone : proj'[p] = proj[p] /\ secret'[p] = secret[p]
                                   /\ proj[p].ws # w
  BY <1>1
<1>6. NoOrphans'
  <2>1. ASSUME NEW p \in Projects, p \in gone PROVE Ids(p)' = NoKeys
    BY <1>5, <2>1 DEF Ids, NoKeys, NoSecret
  <2>2. ASSUME NEW p \in Projects, p \notin gone PROVE Ids(p)' = Ids(p)
    BY <1>5, <2>2 DEF Ids
  <2> HIDE DEF gone
  <2> QED BY <1>4, <1>5, <2>1, <2>2 DEF IInv, NoOrphans
<1>7. (live \subseteq born)' /\ (\A p \in Projects : proj[p] # NoProject => p \in born)'
  BY <1>1, <1>4, <1>5 DEF IInv
<1>8. ASSUME NEW q \in Requests PROVE Grounded(req[q])'
  BY <1>1, <1>3, <1>4, StaysGrounded
<1>9. KeepsReadable
  BY <1>5 DEF KeepsReadable, Readable
<1>10. KeepsPolicies /\ KeepsDeletions
  <2>1. NoSecret.id = 0
    BY DEF NoSecret
  <2> HIDE DEF gone
  <2> QED BY <1>5, <2>1, SecretOrNone DEF KeepsPolicies, KeepsDeletions, IInv
<1>11. KeepsMovers
  BY <1>1 DEF KeepsMovers, At, Idle
<1> QED BY <1>2, <1>6, <1>7, <1>8, <1>9, <1>10, <1>11 DEF IInv, Keeps

\* Who is no longer an admin of w has that on record.
LEMMA SetAdminsStep ==
    ASSUME IInv, NEW w \in Workspaces, NEW A \in SUBSET Users, SetAdmins(w, A)
    PROVE  IInv' /\ Keeps
<1> DEFINE moved(q) == [req[q] EXCEPT !.lost = @ \cup {w}]
<1>1. /\ admins' = [admins EXCEPT ![w] = A] /\ UNCHANGED <<live, proj, born, secret, nextId>>
      /\ \A q \in Requests : req'[q] = IF req[q].caller \in admins[w] \ A
                                       THEN moved(q) ELSE req[q]
      /\ DOMAIN req' = Requests
  BY DEF SetAdmins
<1>2. \A x \in Workspaces : admins'[x] = IF x = w THEN A ELSE admins[x]
  BY <1>1 DEF IInv, TypeOK
<1>3. ASSUME NEW q \in Requests
      PROVE  /\ req'[q] \in Pending \cup {Idle} /\ Grounded(req[q])'
             /\ req'[q].pc = req[q].pc
  <2>1. CASE req[q].caller \notin admins[w] \ A
    <3>1. req'[q] = req[q] /\ Grounded(req[q]) /\ req[q] \in Pending \cup {Idle}
      BY <1>1, <2>1 DEF IInv, TypeOK
    <3>2. \A x \in Workspaces : Admitted(req[q], x) => Admitted(req[q], x)'
      BY <1>1, <1>2, <2>1, <3>1 DEF Admitted
    <3> QED BY <1>1, <3>1, <3>2 DEF Grounded, Project
  <2>2. CASE req[q].caller \in admins[w] \ A
    <3>1. req[q] \in Pending /\ Grounded(req[q]) /\ req'[q] = moved(q)
      BY <1>1, <2>2, PendingOrIdle, NoneAssumption DEF IInv, TypeOK, Idle
    <3>2. /\ moved(q) \in Pending /\ moved(q).lost = req[q].lost \cup {w}
          /\ moved(q).pc = req[q].pc /\ moved(q).caller = req[q].caller
          /\ moved(q).p = req[q].p /\ moved(q).row = req[q].row /\ moved(q).to = req[q].to
          /\ moved(q).name = req[q].name /\ moved(q).ids = req[q].ids
          /\ moved(q).keys = req[q].keys /\ moved(q).policy = req[q].policy
      BY <3>1 DEF Pending
    <3> HIDE DEF moved
    <3>3. \A x \in Workspaces : Admitted(req[q], x) => Admitted(req[q], x)'
      BY <1>1, <1>2, <3>1, <3>2 DEF Admitted
    <3> QED BY <1>1, <3>1, <3>2, <3>3 DEF Grounded, Project
  <2> QED BY <2>1, <2>2
<1>4. TypeOK'
  BY <1>1, <1>3 DEF IInv, TypeOK, SetAdmins
<1>5. NoOrphans' /\ (live \subseteq born)' /\ (\A p \in Projects : proj[p] # NoProject => p \in born)'
  BY <1>1 DEF IInv, NoOrphans, Ids
<1>6. Keeps
  BY <1>1 DEF Keeps, KeepsPolicies, KeepsDeletions, KeepsReadable, KeepsMovers, Readable
<1> QED BY <1>3, <1>4, <1>5, <1>6 DEF IInv

-----------------------------------------------------------------------------
LEMMA NextIInv == IInv /\ [Next]_vars => IInv' /\ (Keeps \/ UNCHANGED vars)
<1> SUFFICES ASSUME IInv, [Next]_vars PROVE IInv' /\ (Keeps \/ UNCHANGED vars)  OBVIOUS
<1>1. CASE UNCHANGED vars
  BY <1>1 DEF vars, IInv, TypeOK, NoOrphans, Ids, Grounded, Admitted
<1>2. ASSUME NEW r \in Requests, NewRequest(r) \/ ServerStep(r) PROVE IInv' /\ Keeps
  <2>1. \A invited \in {{}} \cup {{u} : u \in Users} : invited \in SUBSET Users
    OBVIOUS
  <2> QED BY <1>2, <2>1, NewRequestStep, LookupStep, InsertProjectStep, SaveProjectStep, DropProjectStep,
     TransferStep, MigrateStep, UpsertStep, SetValueStep, SetPolicyStep, DropSecretStep,
     CleanStep DEF ServerStep
<1>3. ASSUME NEW w \in Workspaces, DeleteWorkspace(w) PROVE IInv' /\ Keeps
  BY <1>3, DeleteWorkspaceStep
<1>4. ASSUME NEW w \in Workspaces, NEW A \in AdminSets[w], SetAdmins(w, A) PROVE IInv' /\ Keeps
  BY <1>4, SetAdminsStep, AdminsAssumption
<1> QED BY <1>1, <1>2, <1>3, <1>4 DEF Next

LEMMA Invariance == Spec => []IInv
<1> QED BY InitIInv, NextIInv, PTL DEF Spec

\* The tables and the requests keep their types (secrets_app/models.py,
\* services.py).
THEOREM TypeCorrect == Spec => []TypeOK
<1>1. IInv => TypeOK
  BY DEF IInv
<1> QED BY <1>1, Invariance, PTL

\* However requests overlap, no project is left without its workspace and no
\* secret without its project (services.py:59-63, 99, 114-117, 170-191).
THEOREM NothingIsOrphaned == Spec => []NoOrphans
<1>1. IInv => NoOrphans
  BY DEF IInv
<1> QED BY <1>1, Invariance, PTL

\* A policy changes in a policy update only (services.py:186, 286-292, 367, 433,
\* 516).
THEOREM PoliciesAreKept == Spec => PolicyIsKept
<1>1. IInv /\ [Next]_vars => [KeepsPolicies]_vars
  BY NextIInv DEF Keeps
<1> QED BY <1>1, Invariance, PTL DEF Spec, PolicyIsKept, KeepsPolicies

\* No slower request brings a deleted secret back (services.py:367, 433, 476,
\* 535-539).
THEOREM DeletionsLast == Spec => DeletedSecretsStayDeleted
<1>1. IInv /\ [Next]_vars => [KeepsDeletions]_vars
  BY NextIInv DEF Keeps
<1> QED BY <1>1, Invariance, PTL DEF Spec, DeletedSecretsStayDeleted, KeepsDeletions

\* A secret becomes unreadable only by a request whose premises have changed
\* (services.py:170-191, 270-302, 367, 433).
THEOREM OnlyStaleRequestsLose == Spec => LostOnlyToStaleness
<1>1. IInv /\ [Next]_vars => [KeepsReadable]_vars
  BY NextIInv DEF Keeps
<1>2. IInv /\ [Next]_vars =>
        [\A p \in Projects, k \in Keys :
           Readable(p, k) /\ ~Readable(p, k)'
           => \E r \in Requests : /\ req[r].p = p /\ IsStale(r, p, k)
                                  /\ req'[r] = Idle]_vars
  BY <1>1 DEF KeepsReadable
<1> QED BY <1>2, Invariance, PTL DEF Spec, LostOnlyToStaleness

\* A project is moved by an admin of the workspace it is taken from and of the one
\* it goes to, unless he has lost that role under way or it has been moved since it
\* was resolved (services.py:145-158, 170-175, 253-256, 270-284).
THEOREM OnlyAdminsMove == Spec => MovedByAnAdmin
<1>1. IInv /\ [Next]_vars => [KeepsMovers]_vars
  BY NextIInv DEF Keeps
<1> QED BY <1>1, Invariance, PTL DEF Spec, MovedByAnAdmin, KeepsMovers
=============================================================================
