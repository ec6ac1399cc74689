------------------------------ MODULE CloudSync ------------------------------
(***************************************************************************)
(* The control plane of the cloud resolver: what the workspace's clients   *)
(* write (delegations, allowlist, secrets), the poll that collects it with *)
(* three separate queries (CloudSyncSelector.build_sync_payload), and the  *)
(* short circuit of sync_workspace, which answers "unchanged" when the     *)
(* newest updated_at is the version the resolver already has.              *)
(*                                                                         *)
(* updated_at is taken in the server process before the UPDATE commits, so *)
(* a stamped write is two steps.  bulk_update and queryset.update take no  *)
(* stamp at all.  The resolver itself is not in this repository: it is     *)
(* taken to poll with the version of the last payload it was sent, which   *)
(* is what the endpoint offers it.                                         *)
(***************************************************************************)
EXTENDS Naturals, FiniteSets, FiniteSetsExt

CONSTANTS
    Keys,        \* secrets of the workspace (project, environment and key)
    Domains,     \* domains that may be on the allowlist
    Resolvers,   \* resolver names clients send
    Delegations, \* primary keys of delegation rows, in the order afirst() uses
    Writers,     \* requests that may be between their stamp and their commit
    Ops,         \* the write operations clients use
    MaxClock     \* bound: stamped or value-changing writes begun

AllOps == {"create", "update", "bulk_update", "drop", "move_in",
           "save", "revoke", "allow", "disallow"}

ASSUME OpsAssumption == Ops \subseteq AllOps
ASSUME ResolversAssumption == "none" \notin Resolvers
ASSUME DelegationsAssumption == Delegations \subseteq Nat
ASSUME ClockAssumption == MaxClock \in Nat

VARIABLES
    secret,      \* secret[k]: the row, or NoSecret
    deleg,       \* deleg[i]: the delegation row, or NoDeleg
    allow,       \* the allowlist
    clock,       \* time; also the name of the content written at that time
    writer,      \* writer[w]: what a request has stamped and not yet committed
    poll,        \* the sync request in progress
    copy         \* the last full payload the resolver received

vars == <<secret, deleg, allow, clock, writer, poll, copy>>
data == <<secret, deleg, allow>>

-----------------------------------------------------------------------------
Time  == 1..MaxClock
Stamp == 0..MaxClock

\* id names the row, val its content (ciphertext and policy), at is updated_at.
NoSecret == [id |-> 0, val |-> 0, at |-> 0]
Secret   == [id : Time, val : Time, at : Time]

\* at is updated_at and names the sealed key that was uploaded with it.
NoDeleg == [name |-> "none", active |-> FALSE, at |-> 0]
Deleg   == [name : Resolvers, active : BOOLEAN, at : Time]

\* What build_sync_payload returns; key is 0 without an active delegation and
\* version is 0 when it is None.
Payload == [version : Stamp, key : Stamp, allow : SUBSET Domains,
            secrets : [Keys -> Secret \cup {NoSecret}]]
Empty   == [version |-> 0, key |-> 0, allow |-> {},
            secrets |-> [k \in Keys |-> NoSecret]]

IdleWriter == [pc |-> "idle", key |-> "none", row |-> 0, name |-> "none",
               at |-> 0]
Write == [pc : {"create", "update"}, key : Keys, row : Stamp,
          name : {"none"}, at : Time]
Save  == [pc : {"insert", "save"}, key : {"none"}, row : Delegations \cup {0},
          name : Resolvers, at : Time]

\* barred and touched are history: the delegations that were revoked when the
\* poll began, and what changed since.
Touchable == {"delegation"} \cup Domains \cup Keys
NoPoll == [pc |-> "idle", got |-> Empty, barred |-> {}, touched |-> {},
           begun |-> Empty]
Polls  == [pc : {"delegation", "allowlist", "secrets", "answer"},
           got : Payload, barred : SUBSET Time, touched : SUBSET Touchable,
           begun : Payload]

TypeOK ==
    /\ secret \in [Keys -> Secret \cup {NoSecret}]
    /\ deleg \in [Delegations -> Deleg \cup {NoDeleg}]
    /\ allow \subseteq Domains
    /\ clock \in Stamp
    /\ writer \in [Writers -> Write \cup Save \cup {IdleWriter}]
    /\ poll \in Polls \cup {NoPoll}
    /\ copy \in Payload

Init ==
    /\ secret = [k \in Keys |-> NoSecret]
    /\ deleg = [i \in Delegations |-> NoDeleg]
    /\ allow = {}
    /\ clock = 0
    /\ writer = [w \in Writers |-> IdleWriter]
    /\ poll = NoPoll
    /\ copy = Empty

-----------------------------------------------------------------------------
\* Slip: the filter on is_active is missing.
AnyRows == {i \in Delegations : deleg[i] # NoDeleg}

\* The key of the active delegation a query finds, and the payload as it
\* would be if all of it were read at once.
ActiveRows == {i \in Delegations : deleg[i].active}
ActiveKey  == IF ActiveRows = {} THEN 0 ELSE deleg[Min(ActiveRows)].at

\* Newest updated_at of the secrets read and of the delegation read.
Watermark(rows, key) == Max({key} \cup {rows[k].at : k \in Keys})

Current == [version |-> Watermark(secret, ActiveKey), key |-> ActiveKey,
            allow |-> allow, secrets |-> secret]

\* A request that changes what a poll reads is remembered in the poll.
Touch(x) ==
    poll' = IF poll.pc = "idle" THEN poll
            ELSE [poll EXCEPT !.touched = @ \cup {x}]

Tick == clock < MaxClock /\ clock' = clock + 1

Finish(w) == writer' = [writer EXCEPT ![w] = IdleWriter]

-----------------------------------------------------------------------------
\* Writes to the secrets.

\* bulk_upsert_secrets for a key that it did not find, and for the rest
\* update_secret and update_secret_policy: the row is read, then stamped.
StampSecret(w, k) ==
    /\ writer[w] = IdleWriter
    /\ IF secret[k] = NoSecret THEN "create" \in Ops ELSE "update" \in Ops
    /\ Tick
    /\ writer' = [writer EXCEPT ![w] =
                      [pc |-> IF secret[k] = NoSecret THEN "create" ELSE "update",
                       key |-> k, row |-> secret[k].id, name |-> "none",
                       at |-> clock']]
    /\ UNCHANGED <<data, poll, copy>>

\* The INSERT fails when the key exists by now, the UPDATE when its row is gone.
CommitSecret(w) ==
    LET k == writer[w].key  at == writer[w].at IN
    /\ writer[w].pc \in {"create", "update"}
    /\ IF secret[k].id = writer[w].row
       THEN /\ secret' = [secret EXCEPT ![k] =
                              [id |-> IF @ = NoSecret THEN at ELSE @.id,
                               val |-> at, at |-> at]]
            /\ Touch(k)
       ELSE UNCHANGED <<secret, poll>>
    /\ Finish(w)
    /\ UNCHANGED <<deleg, allow, clock, copy>>

\* bulk_upsert_secrets for a key that exists: bulk_update(..., ["value"]).
BulkUpdate(k) ==
    /\ "bulk_update" \in Ops
    /\ secret[k] # NoSecret
    /\ Tick
    /\ secret' = [secret EXCEPT ![k].val = clock']
    /\ Touch(k)
    /\ UNCHANGED <<deleg, allow, writer, copy>>

\* delete_secret, clean_environment, or the project leaves the workspace.
DropSecret(k) ==
    /\ "drop" \in Ops
    /\ secret[k] # NoSecret
    /\ secret' = [secret EXCEPT ![k] = NoSecret]
    /\ Touch(k)
    /\ UNCHANGED <<deleg, allow, clock, writer, copy>>

\* transfer_project brings a project in: its secrets are given new ciphertexts
\* with bulk_update and keep their updated_at.
MoveIn(k, at) ==
    /\ "move_in" \in Ops
    /\ secret[k] = NoSecret
    /\ Tick
    /\ secret' = [secret EXCEPT ![k] = [id |-> clock', val |-> clock', at |-> at]]
    /\ Touch(k)
    /\ UNCHANGED <<deleg, allow, writer, copy>>

-----------------------------------------------------------------------------
\* Delegations and the allowlist.

\* Slip: only an active row is looked for.
NamedAndActive(n) == {i \in Delegations : deleg[i].name = n /\ deleg[i].active}

Named(n) == {i \in Delegations : deleg[i].name = n}

\* aupdate_or_create: without a row of that name one is inserted (nothing
\* makes the name unique); one row is locked and saved; several rows raise
\* MultipleObjectsReturned and nothing is written.
StampDelegation(w, n) ==
    /\ "save" \in Ops
    /\ writer[w] = IdleWriter
    /\ Cardinality(Named(n)) <= 1
    /\ \A i \in Named(n), v \in Writers : writer[v].pc = "save" => writer[v].row # i
    /\ Tick
    /\ writer' = [writer EXCEPT ![w] =
                      [pc |-> IF Named(n) = {} THEN "insert" ELSE "save",
                       key |-> "none",
                       row |-> IF Named(n) = {} THEN 0 ELSE Min(Named(n)),
                       name |-> n, at |-> clock']]
    /\ UNCHANGED <<data, poll, copy>>

\* A new row gets a random primary key.
CommitDelegation(w, i) ==
    LET row == [name |-> writer[w].name, active |-> TRUE, at |-> writer[w].at] IN
    /\ \/ writer[w].pc = "insert" /\ deleg[i] = NoDeleg
       \/ writer[w].pc = "save" /\ writer[w].row = i
    /\ deleg' = [deleg EXCEPT ![i] = row]
    /\ Touch("delegation")
    /\ Finish(w)
    /\ UNCHANGED <<secret, allow, clock, copy>>

\* One UPDATE of every delegation of the workspace, which leaves updated_at
\* alone; it waits for the rows that are locked.
Revoke ==
    /\ "revoke" \in Ops
    /\ ActiveRows # {}
    /\ \A v \in Writers : writer[v].pc # "save"
    /\ deleg' = [i \in Delegations |-> IF i \in ActiveRows
                                      THEN [deleg[i] EXCEPT !.active = FALSE]
                                      ELSE deleg[i]]
    /\ Touch("delegation")
    /\ UNCHANGED <<secret, allow, clock, writer, copy>>

Allow(d) ==
    /\ "allow" \in Ops
    /\ d \notin allow
    /\ allow' = allow \cup {d}
    /\ Touch(d)
    /\ UNCHANGED <<secret, deleg, clock, writer, copy>>

Disallow(d) ==
    /\ "disallow" \in Ops
    /\ d \in allow
    /\ allow' = allow \ {d}
    /\ Touch(d)
    /\ UNCHANGED <<secret, deleg, clock, writer, copy>>

-----------------------------------------------------------------------------
\* The sync endpoint: one query after the other, no transaction around them.

BeginPoll ==
    /\ poll.pc = "idle"
    /\ poll' = [NoPoll EXCEPT !.pc = "delegation", !.begun = Current,
                    !.barred = {deleg[i].at : i \in {j \in Delegations :
                                                      ~deleg[j].active}} \ {0}]
    /\ UNCHANGED <<data, clock, writer, copy>>

ReadDelegation ==
    /\ poll.pc = "delegation"
    /\ poll' = [poll EXCEPT !.pc = "allowlist", !.got.key = ActiveKey]
    /\ UNCHANGED <<data, clock, writer, copy>>

\* Slip: the allowlist comes out of a cache.
ReadCachedAllowlist ==
    /\ poll.pc = "allowlist"
    /\ poll' = [poll EXCEPT !.pc = "secrets", !.got.allow = copy.allow]
    /\ UNCHANGED <<data, clock, writer, copy>>

ReadAllowlist ==
    /\ poll.pc = "allowlist"
    /\ poll' = [poll EXCEPT !.pc = "secrets", !.got.allow = allow]
    /\ UNCHANGED <<data, clock, writer, copy>>

ReadSecrets ==
    /\ poll.pc = "secrets"
    /\ poll' = [poll EXCEPT !.pc = "answer", !.got.secrets = secret,
                            !.got.version = Watermark(secret, poll.got.key)]
    /\ UNCHANGED <<data, clock, writer, copy>>

\* Slip: the comparison is the wrong way round.
UnchangedUnlessOlder == copy.version # 0 /\ poll.got.version >= copy.version

\* No version was sent along with the first poll, and None never matches.
Unchanged == copy.version # 0 /\ poll.got.version = copy.version

AnswerPoll ==
    /\ poll.pc = "answer"
    /\ copy' = IF Unchanged THEN copy ELSE poll.got
    /\ poll' = NoPoll
    /\ UNCHANGED <<data, clock, writer>>

PollStep == BeginPoll \/ ReadDelegation \/ ReadAllowlist \/ ReadSecrets \/ AnswerPoll

ClientWrite ==
    \/ \E w \in Writers : \/ \E k \in Keys : StampSecret(w, k)
                          \/ \E n \in Resolvers : StampDelegation(w, n)
    \/ \E k \in Keys : BulkUpdate(k) \/ DropSecret(k)
    \/ \E k \in Keys, at \in 1..clock : MoveIn(k, at)
    \/ Revoke
    \/ \E d \in Domains : Allow(d) \/ Disallow(d)

Commit(w) == CommitSecret(w) \/ \E i \in Delegations : CommitDelegation(w, i)

Next == PollStep \/ ClientWrite \/ \E w \in Writers : Commit(w)

Spec == Init /\ [][Next]_vars

\* A write that has been stamped is committed, and the resolver keeps polling.
FairSpec == Spec /\ WF_vars(PollStep) /\ \A w \in Writers : WF_vars(Commit(w))

-----------------------------------------------------------------------------
(* Properties *)

\* A poll that begins after a delegation was revoked does not hand out its
\* key, whatever is saved or revoked while the poll runs (selectors.py:731-736
\* against services.py:776-801).
RevokedKeyNotServed == poll.got.key \notin poll.barred

\* A poll reports everything that was committed before it began: what nobody
\* touched since is in the payload as it was then (selectors.py:731-760).
PollIsFresh ==
    poll.pc = "answer" =>
        /\ "delegation" \notin poll.touched => poll.got.key = poll.begun.key
        /\ \A d \in Domains \ poll.touched :
               d \in poll.got.allow <=> d \in poll.begun.allow
        /\ \A k \in Keys \ poll.touched : poll.got.secrets[k] = poll.begun.secrets[k]

\* When the clients stop writing, the resolver ends up with what is stored
\* (views.py:713-758).
ResolverCatchesUp == <>[](copy.secrets = secret /\ copy.key = ActiveKey
                          /\ copy.allow = allow)

\* What makes the two poll invariants inductive.  A sealed key is uploaded
\* once: no two rows and no two requests have the same one.
Uploading == {w \in Writers : writer[w].pc \in {"insert", "save"}}

KeysAreOnce ==
    /\ \A i \in Delegations : deleg[i].at <= clock
    /\ \A i, j \in Delegations : deleg[i].at = deleg[j].at /\ i # j => deleg[i].at = 0
    /\ \A w \in Uploading :
           /\ writer[w].at <= clock
           /\ \A i \in Delegations : deleg[i].at # writer[w].at
           /\ \A v \in Uploading \ {w} : writer[v].at # writer[w].at

\* A key that was barred stays out of use while the poll runs.
BarredIsUnused ==
    /\ \A t \in poll.barred : t <= clock
    /\ \A i \in Delegations : deleg[i].active => deleg[i].at \notin poll.barred
    /\ \A w \in Uploading : writer[w].at \notin poll.barred

\* What nobody touched is still as it was when the poll began.
UntouchedIsCurrent ==
    poll.pc # "idle" =>
        /\ "delegation" \notin poll.touched =>
               /\ ActiveKey = poll.begun.key
               /\ poll.pc # "delegation" => poll.got.key = poll.begun.key
        /\ \A d \in Domains \ poll.touched :
               /\ d \in allow <=> d \in poll.begun.allow
               /\ poll.pc \in {"secrets", "answer"} =>
                      (d \in poll.got.allow <=> d \in poll.begun.allow)
        /\ \A k \in Keys \ poll.touched :
               /\ secret[k] = poll.begun.secrets[k]
               /\ poll.pc = "answer" => poll.got.secrets[k] = poll.begun.secrets[k]

\* The inductive invariant of CloudSyncProofs.
IInv ==
    /\ TypeOK
    /\ KeysAreOnce
    /\ BarredIsUnused
    /\ RevokedKeyNotServed
    /\ UntouchedIsCurrent
=============================================================================
