# Verification of the AgentSecrets server

TLA+ models of the Django server in `src/`, checked with TLC on small instances
and, where it pays, proved with TLAPS for instances of every size.
`PROJECT.json` lists components, runs, mutants, the map from definitions to
source lines, hazards, findings and theorems; this file explains them. File
names without a path are those of the app a section is about.

## 1. The system

The server keeps workspaces, their members, projects with encrypted secrets,
and AI agents with tokens. Values are encrypted by clients; the server stores
ciphertexts and never sees a workspace key. It is asynchronous Django (Ninja
controllers over services and selectors) on PostgreSQL, served by several
Uvicorn workers (`docker-compose.yml`). **A handler awaits the database
several times and holds, with few exceptions, no lock and no transaction over
those awaits.** Everything difficult about it follows from that.

| Component | State it keeps | Operations | What makes it correct |
|---|---|---|---|
| Workspaces, memberships (`apps/workspaces`) | `Workspace`, `Membership` (role, status, encrypted workspace key) | create, delete, invite in batches, change role, promote, demote, remove | no membership outside a live workspace; a key only for active members; roles change only as the API says; a decision is undone by nothing but a change of what it was based on |
| Projects, secrets (`apps/secrets_app`) | `Project`, `Secret` (ciphertext, policy) | create, rename, delete, transfer, migrate by invitation, bulk upsert, update, policy, delete, clean | secrets stay under the key of the workspace they are in; nothing deleted comes back; policies change only when asked to |
| Cloud sync | `CloudDelegationKey`; reads secrets and allowlist | save and revoke a delegation; the poll of a resolver | a revoked key is not handed out; a poll is as fresh as its start; "unchanged" is true |
| Allowlist | `WorkspaceAllowlist`, `WorkspaceAllowlistLog` | bulk add, remove | the log tells the truth about the list |
| Agents, tokens, workloads | `AgentRegistration`, `AgentToken` | issue, delete one or all, verify, deliver an environment | verification and delivery refuse a dead token, nothing revives one; environments stay in scope |
| Audit and forensic logs | `AuditLogEntry`, `ForensicLogEntry` | ingest batches, stream an export | what is confirmed is kept, once, and exported once |
| Telemetry (`apps/telemetry`) | `TelemetrySnapshot`, `DailyMetricsAggregate`, a cache | sync, scheduled recomputation, report | a resend adds nothing, where its date is the day in UTC; an aggregate computed in calm is the sum of what is stored until something is stored |
| Billing of workspaces | `billing_id`, plan of a workspace; the resolver's own store | initialize, reconcile, authorize | the id is stable, Pro is what the resolver's store says, workers never wait for each other for good |
| Accounts (`apps/accounts`) | `User` with two key columns and a billing id, outstanding and blacklisted tokens, one-time passwords | register, log in, refresh, verify, reset and change the password | one account per address, keys that fit its workspace, a refresh token is exchanged once |
| Migration (`apps/migration`) | nonces of migration tokens; writes accounts | export and import a user's data | a token is consumed by one committed import, an existing account keeps each key that it has |
| Activity log | `ActivityLog` rows | written beside other operations, listed | no operation fails because of it |
| Common, settings | none | error envelopes, encryption wrapper, health page | stateless |

**How they interact.** Through the database: a project hangs from a workspace,
secrets and agents from a project, tokens from an agent, and deletions cascade;
a poll reads what three other components write; the export reads what ingests
write while it streams; a transfer rewrites projects, secrets and agents in one
transaction. By calls: command lines and dashboards with a JWT, proxies and
workloads with agent tokens, the resolver (a service that is not in this
repository) with a service key; reconciling the billing calls the resolver,
which calls back (another worker has to answer). By schedule: the cron of `vercel.json` recomputes metrics.

**Hard behaviours.** Checks made an await before the write they allow; rows
read, then saved whole; unique constraints and foreign keys that decide races
after all the checks; batches of which one entry fails; emitters that send
again what may already have arrived; versions that do not move with what they
stand for; recomputations that overlap or break off; a call that stops the event
loop and needs it for its own answer; long transactions that others wait for; caches of which every
process has one. `hazards` in `PROJECT.json` has each at its line.

## 2. The modules

| Module | Models | Used by |
|---|---|---|
| `Roster` | what the members API promises a client: who can come to stand where | `Membership` (`INSTANCE`, refinement) |
| `Membership` | the members of one workspace and their handlers | `MembershipHistory` |
| `MembershipHistory` | adds whom a demotion has counted | `MCMembership`, `MembershipProofs` |
| `Projects` | projects, secrets, and their moves between workspaces | `MCProjects`, `ProjectsProofs` |
| `CloudSync` | writes with their stamps against the queries of a poll | `CloudSyncHistory` |
| `CloudSyncHistory` | adds what the watermark misses and which uploads crossed | `MCCloudSync`, `CloudSyncProofs` |
| `Allowlist` | the list with its log | `AllowlistHistory` |
| `AllowlistHistory` | adds which removals crossed | `MCAllowlist`, `AllowlistProofs` |
| `Credentials` | what the token API promises: the life of a token, and claims on it | `Agents` (`INSTANCE`, refinement) |
| `Agents` | agents, tokens, verification and delivery | `MCAgents`, `AgentsProofs` |
| `AuditLog` | ingests, cascading deletions, the paged export | `MCAuditLog`, `AuditLogProofs` |
| `Telemetry` | uploads, snapshots, recomputed aggregates | `MCAllowlist`, `AuditLogProofs` |
| `Billing` | the billing id and tier of a workspace, the resolver and its callback, the workers | `MCBilling`, `BillingProofs` |
| `Accounts` | accounts, their tokens, and imports of migration bundles | `MCAccounts`, `AccountsProofs` |

`MC*` modules name model values, constants that a cfg cannot write, and
symmetry sets. The `*History` modules add variables that no step reads, for
properties that speak of the past (`HistorySpec`), with the invariants that the
proofs of these properties need. Definitions under a comment "Slip" are the mutants: the same
operator as a plausible mistake would have it. No specification uses them.

**How a handler becomes actions.** A request is a record in `req[r]` with a
program counter `pc` and everything the handler has read and will still use.
`Begin…`/`Ask…` is the arrival with the checks up to the first await (the
request's inputs are quantified), then one action for every database call, in
the order of the code; early returns and refusals end in `Answer`. A write that
a constraint refuses is an outcome of the action that makes it. What the code
does in a transaction (`sync_to_async` over `transaction.atomic`) is one action.
Django deletes the rows that depend on a row before it, inside one transaction:
a cascade is one step. (A child inserted
while a cascade runs makes the database refuse one of the two, which is one of
the two orders of the model with a failed request.) Consecutive reads that only decide between going on and
refusing, and of which nothing is used later, are one action where the module's
header says so.

State and code:

* **Membership** – `ws` is the `Workspace` row, `member[u]` the row of
  `Membership` with its primary key `id`, `nextId` the key sequence. `seen` is
  the instance a handler holds: Django writes with `UPDATE … WHERE id`, so a row
  removed and inserted again is a different row (`RowStillThere`).
  `FounderKeys` exists because the key of the creator comes from the client and
  may be empty. The shared-workspace branch of `invite_to_project` is here
  (`BeginProjectInvite`), the personal one in `Projects` (`Migrate`).
* **Projects** – `under` names the workspace key a ciphertext was made with;
  that is all the model knows of a value. A transfer carries the secrets the
  client had listed when it began re-encrypting (`ids`), which is why it starts
  at the client and not at the server. `update_project` is `asave()` of a whole
  row: it writes the workspace it read, and inserts the row if it is gone.
  `born` keeps primary keys of deleted rows from being given out again.
  `live` are the workspaces there are, `admins` their owners and admins, whom
  the environment (`SetAdmins`) changes at any time, between a check and the
  write it allows too; `lost` remembers, for the properties, where a caller
  has ceased to be one. `Migrate` makes the invitee of a personal project a
  member of the new workspace or an admin, as the request says.
* **CloudSync** – `updated_at` is taken in Python before the UPDATE commits, so a
  stamped write is `Stamp…` and then `Commit…`; `bulk_update` and
  `queryset.update` take no stamp. `clock` names both times and contents.
  `copy` is the last full payload sent, `version` the newest `updated_at` read.
  `barred`, `touched` and `begun` are history for the properties.
* **Allowlist** – the log of a domain is a sequence; the rows of a batch and
  their log entries are inserted together or not at all.
* **Agents** – `void` is `revoked_at` or a passed `expires_at`, set by the admin
  site and by time (`Lapse`). Transfers, migrations and deletions are single
  steps here; their interleavings are in `Projects`. For `Credentials` a token is
  unissued, valid or dead (`Stage`), and a request claims to use a token or to cut
  tokens off, accepted once its checks are behind it (`Claim`).
* **AuditLog** – an entry's id is chosen by its emitter and is its identity
  here. `found` is what the lookups of a batch saw; the insert is rejected as a
  whole when a foreign key fails at commit, and `ON CONFLICT DO NOTHING` skips
  what is there. `Receive` may happen with any batch at any time, which covers
  every duplication and retry. A page of the export is one query.
* **Telemetry** – a snapshot is one number; `total[d]` is the aggregate of a day.
  `today` moves on by itself. An entry has the date that its timestamp shows as
  it was sent (`day`), by which the snapshot is looked for, and the day in UTC
  (`at`), under which the database keeps it; with an offset they differ for some
  hours. `known` and `had` remember what had been stored when an upload began,
  `calm` that nothing was stored during a recomputation, `settled` the days such
  a one has done; they are history for the properties.
* **Billing** – `plan[i]` is what the resolver's store says of account `i`; the
  environment (`SetPlan`, `SetAdmins`, `DeleteWorkspace`) changes it, the admins
  and the workspace at any time. A request that waits for `urlopen` (`Waiting`)
  stops its worker, so every step of another request on that worker needs
  `Runs`. `Ask`, `Authorize` and `Reply` are the resolver's side of the call and
  the callback; `GiveUp` is `timeout=8` and every failure to connect.
  `early`, `seen` and `calm` of a request are history for the properties.
* **Accounts** – `pub` and `priv` are the columns `public_key` and
  `encrypted_private_key`; either may be empty, and imports merge them one by
  one. A member of `KeyPairs` stands for a public key or for the private key that
  fits it, `Own` for a private key that the owner has encrypted with a new
  password. `home` is what the key of the personal workspace is sealed for, or
  `Plain`: a public key of the wrong form makes `register_user` store the key
  unsealed. `bill` numbers the billing ids that an account was given (0 is the
  null of accounts older than the column), `ids` counts them. Accounts and
  refresh tokens from before billing ids are there at the start. A registration
  is one transaction on a thread; an import is a transaction of many statements:
  the nonce, the lookup of the account, the write, the rest. From the write to
  the commit others wait for the row (`Locked`) and see nothing of it.
  `BeginPassword` and `SavePassword` are the password reset and the change of a
  password: both read the row and save all of it, with a billing id when it had
  none. (Nothing in `src/` makes the token of a reset link, only its check is
  there; and the user that a JWT stands for has no password hash in memory, so
  that `change_password` gets through for a fully loaded row only.) An empty
  string for a private key, which both handlers skip, is the absent one. `Break`
  ends any request; in a transaction it is the rollback.

## 3. The runs

All runs finish with two workers in less than four minutes. States are distinct
states.

| Run | Question | Bounds | States |
|---|---|---|---|
| `MCMembership` | Do the handlers keep the table consistent and implement `Roster`, whatever overlaps? What can undo the checks for the last admin and between admins? | 2 accounts, 2 requests, 4 rows ever inserted, batches of 2 | 525,122 |
| `MCProjects` | What can overlapping requests do to projects and secrets, and through whose fault? | 1 project, 1 secret, 3 workspaces (one still to come), 2 admins, of whom the one that sends the requests may be removed from one workspace, 2 requests, 2 secret rows | 1,703,774 |
| `ProjectsRevert` | Can a rename undo a transfer? Yes (finding). | 2 workspaces, 1 secret | violation |
| `MCCloudSync` | What may a poll hand out while everything is written, and when is "unchanged" true? | 1 secret, 1 domain, 2 delegation rows, 2 writers, 3 writes | 2,118,742 |
| `CloudSyncBulk` | Does the resolver catch up after bulk updates? No (finding). | 2 secrets, 3 writes | violation |
| `MCAllowlist` | Does the log tell the history of the list? And, in a second instance that shares nothing with the first: what does a resend of telemetry add, and which aggregates are right? | 2 domains, 3 requests, 4 log entries a domain; 2 days, window of 1, 2 uploads (one batch of two entries, one with an offset), 2 recomputations, 1 failure | 909,570 |
| `MCAgents` | Are dead tokens refused for good, and deliveries in scope? Do the handlers implement `Credentials`? | 2 workspaces, 2 projects, 1 agent, 2 tokens, 2 requests | 809,815 |
| `MCAuditLog` | Are confirmed entries kept, references sound, exports exact? | 3 entries (2 audit with one timestamp, 1 forensic), a parent of each kind, 2 requests, pages of 1, at most 2 rows | 1,690,306 |
| `MCBilling` | Does the tier follow the resolver's store, does the id stay, is every request answered? | 1 manager who may be removed, 2 ids, 2 requests, 2 workers | 328,980 |
| `BillingCheckout` | Can a checkout be left without a workspace? Yes (finding). | the same | violation |
| `BillingUnreachable` | Does a resolver that does not answer leave the workspace free? No (finding). | the same | violation |
| `MCAccounts` | What do overlapping registrations, sessions and imports leave of an account? | 2 addresses (one with an account from before billing ids), 2 key pairs (one with a malformed public key), 3 bundles, 1 migration token, 3 refresh tokens (one from before billing ids), 2 requests | 971,858 |

**Why these bounds.** Each hazard is a pair of requests and at most one row
replaced between two awaits of one of them: two requests, and enough primary
keys for a row to go and another to come, show all of them. The export needs
two equal timestamps and a limit that falls on and off a page end; the poll
needs two delegations to have one revoked and one active; telemetry needs two
days for a lookup to miss the day of a snapshot and for one day to be in the
aggregate of the other, and a window of one for a day to leave it; billing needs a worker that
waits and one that answers it, or two that wait for each other; a refresh token
and its two possible successors are three tokens; three bundles are one for a
new account and two for the old one, with a public key alone (and the new
account among the addresses it names) and with another pair, so that mixed keys
arise; the allowlist needs two removals and an addition between
them. The proofs of section 5
remove the bounds from what they cover. Named bounds: `MaxRows` and `MaxBatch`
(Membership), `MaxRows` (Projects), `MaxClock` (CloudSync), `MaxLog`
(Allowlist), `LastDay`, `MaxSnapshots` and `MaxFailures` (Telemetry); they only keep
new requests from starting (and days, failures). `AdminSets` (Projects) are the
sets of admins that may take the place of the first ones. `MCAccounts` leaves
states out by a constraint, `Bounded`: sessions and imports are each combined
with everything else, but new tokens not with imports, and keys of the old
account not with a new account that has registered. `PageSize` and `MaxRows` of AuditLog are constants
of the code (`views.py`, `PAGE_SIZE`, `MAX_ROWS`) with small values. In Billing
and Accounts the sets of ids and tokens are the bounds: when none is left,
no new one is asked for.

**Deadlock.** `CHECK_DEADLOCK FALSE` stands where nothing need ever happen
again: the workspace is deleted, the primary keys have run out, or the log is
as long as it may get. CloudSync can always go on, and is checked for deadlock.

**Fairness.** `CloudSync`: weak fairness of commits, because the event loop
resumes a coroutine whose query has come back, and of the poll, because a resolver polls for ever
(it is not in the repository; `views.py` describes the endpoint as its loop).
Clients are free to stop writing or never to start. `Billing`: strong fairness of
the server's steps of each request: the ready queue of an event loop is first in,
first out, so a request that can go on again and again, between two calls that
stop the loop, does go on; the end of a call is among these steps. The resolver
need not answer, nor its callback be served, nor clients go on:
`EveryReconcileAnswered` holds although all workers may wait for callbacks that
none of them can take. What it needs is that a call ends. `timeout=8` bounds
each operation on the socket and not the whole call, so a resolver that sends
its answer in drips, each in time, could hold a worker for as long as it likes;
the fairness excludes it. `Telemetry` has no liveness property: the schedule of
`vercel.json` is one recomputation a day, at 23:59, so that an aggregate may be
behind for a day, and for ever when its day has left the window.
`ProjectsRevert` states fairness as well, its property is one of
safety.

**Mutants.** Every property of a passing run has a mutant in `PROJECT.json`: a
mapped definition with a plausible mistake (a missing filter, a dropped check, a
guard on the wrong row, a lost reset), under which TLC finds the property
violated.

**Type invariants.** Each module has a `TypeOK`. It is part of the inductive
invariant `IInv` and proved with it, for every size. `Telemetry` calls them
`UsageTypeOK` and `UsageInv`, because `AuditLogProofs` extends it beside `AuditLog`.
Every invariant of a passing run is a
theorem of section 5.

## 4. What the checks show

What holds, in short: no sequence or overlap of requests leaves a row whose
parent is gone; stale instances never reach a row other than the one they were
read from; an owner is never removed and no second one made; a poll never hands
out a key that was revoked before it began; verification and delivery let
nobody through with a token that was dead when he came (`sync_workspace`, the
ingest and `authorize_billing` do accept expired tokens); retries and failed batches lose no confirmed audit
entry; the export neither repeats nor skips; telemetry that was stored is not
stored again, as long as its date is the day in UTC; a tier is never changed but to what the resolver's store said while
the request ran; a migration token is used up by one committed import and by
no other; a workspace key is never left sealed for a public key that an import or a change of
the password has replaced (for a malformed one it is not sealed at all); an exchanged refresh token is refused.

Where overlap breaks a promise, the property says what exactly it takes, so that
everything else is excluded: `AdminsKeepAdmins`, `DemotionLeavesAnAdmin`,
`LostOnlyToStaleness`, `MovedByAnAdmin`, `UnchangedIsTrue`,
`OneRowUnlessCrossed`, `LogIsTheHistory`,
`LaterRequestsKeepTheId`, `ResendAddsNothing`, `SettledTotalsAreRight`,
`TokensNameTheAccount`, `KeysAreFinal` and `RenewedOnce` are of that form.

What does not hold, and is a **finding** with a run of its own:

* `CloudSyncBulk`: `bulk_upsert_secrets` updates with
  `bulk_update(…, ["value"])` and so leaves `updated_at` alone. The poll answers
  "unchanged" for ever to a resolver with the old value.
* `ProjectsRevert`: `update_project` saves all columns of the row it has read; a
  rename that overlaps a transfer moves the project back while its secrets are
  under the new workspace's key.
* `BillingCheckout`: two initializations that overlap each generate an id and
  hand it out; the second save overwrites the first. A checkout with the first
  id activates a plan that no workspace has, and no reconciliation will find.
* `BillingUnreachable`: a comment has an unreachable resolver leave "the
  workspace free" (`workspaces/services.py:199-201`); the handler has returned
  before (192-197), and a Pro workspace stays Pro. So does a refusal leave it.

Seen in the models and not claimed as properties, because no document, test or
comment promises otherwise, because the promise holds without overlap, or
because it is too general to name the case:

* A promotion between `remove_member`'s check and its DELETE lets an admin
  remove an admin; two demotions leave no admin. The two properties say that
  nothing else does.
* The role action and an invitation with an empty key take the owner role away,
  which the role update refuses (`services.py:296`); from then on nobody can
  delete the workspace (`OwnerlessStays`, proved).
* The watermark also misses revocations, deletions, the allowlist, and a slower
  request that commits an older stamp than a poll has reported; a poll may mix
  the states before and after a write, and the next ones may then be
  "unchanged".
* Two first uploads of a delegation that overlap insert two active rows: the
  table has no unique constraint, and from then on `aupdate_or_create` raises.
  Nothing else inserts a second row (`OneRowUnlessCrossed`).
* A secret written while the client prepares a transfer keeps the old key; a
  rename that overlaps a deletion inserts the project again; a transfer moves a
  project out of whatever workspace it is in by then, the caller's rights having
  been checked in another, or in the same one before he was demoted.
* A transfer moves an agent's registration and not its token, a migration moves
  neither; `verify_agent_token` then answers with the token's workspace and
  the billing id of the registration's.
* Two removals of a domain that overlap, with an addition in between: the second
  deletes nothing and is logged, so the log ends in "removed" for a listed
  domain. Every domain without such a pair has the log it should
  (`LogIsTheHistory`), and the converse, `AbsentIsLogged`, holds always.
* Two uploads that both find no snapshot of a day insert two, and every sum
  counts both. A timestamp with an offset, which comes without a date, is looked
  for under the day it shows and stored under that of UTC: when they differ,
  every resend inserts another snapshot, overlap or not (the deduplication of
  `telemetry/services.py:29` is for the dates that the CLI sends).
* A recomputation that sums before an upload and writes after it leaves the
  older sum; a snapshot of a day outside the window never enters the aggregate
  of that day, unless somebody recomputes the day by hand.
* Nor is the callback of a reconciliation sure of a worker: while all of them
  wait, none can answer, and the requests end when their sockets time out.
* Two refreshes of one token that overlap are both given a successor; two
  requests that find no billing id both generate one, and older tokens keep the
  one that was overwritten; of two imports with keys for one account that
  overlap, the later one wins. Successors of a token from before billing ids
  have no id either, because a rotation copies the claims; `/me` serves them.
* A password change saves the row it has read: a key that an import has filled
  in meanwhile is lost. An import gives an account with a public key alone the
  private key of the bundle, whatever public key that one belongs to.
* An account that an import has made for an address in a bundle has no password,
  and from then on its owner cannot register.
* `export_bundle` raises for every user with a workspace, and `import_bundle` for
  every workspace, project or agent that is not on the server already: both
  name columns the models have not got (`slug`, `is_active` and others).
  `logout_user` builds a `RefreshToken` on the event loop, where the lookup in the
  blacklist raises: nothing is blacklisted.

## 5. The proofs

Eight modules hold proofs, with no unproved leaf; tlapm checks 7609 obligations.
Assumptions are the named `ASSUME`s of the modules, which say no more than what
kinds of values the constants are, that absent values are not among them, that a
page is not empty, that no resolver has the name of an unused row, and, for
`AuditLog`, that there are finitely many entries and that deleting
something deletes it. TLC evaluates them in every run.

In each, `Init => IInv` and `IInv /\ [Next]_vars => IInv'` are lemmas, split by
action and below that by the conjuncts an action can disturb; invariants are
conjuncts of `IInv` or follow from it, and action properties are proved from
`IInv` for one step.

| Module | Theorems | What `IInv` adds, and why |
|---|---|---|
| `MembershipProofs` | `Invariance`, `NoOrphans`, `InvitationsAreKeyless`, `OwnersShrink`, `OwnerSurvives`, `OwnerlessForever`, `StaleWritesMiss`, `RemovalsFollowTheRule`, `AdminsAreSafe`, `DemotionsLeaveAnAdmin`, `RosterKept` | `KeysFresh` (keys in rows and in requests are older than `nextId`, so a row seen and gone cannot be met again); `SeenOwnerStays` (a row seen without the owner role has not got it since), `WritesAreChecked`, `OwnersAreActive`: together they carry a check made at one await to the write at a later one. `QuietBeforeCreation` is for the first step of `Roster`. `RosterKept` is the refinement: initial states map, and every step is a step of `Roster` or a stutter. `AdminsAreSafe` needs `RemovalsAreAllowed` (a pending removal was allowed for the row as it was read), `DemotionsLeaveAnAdmin` needs `TwoCounted` (who is about to demote an admin has counted two of them, so one of those is gone when none is left). |
| `CloudSyncProofs` | `Invariance`, `RevocationIsHeeded`, `PollsAreFresh`, `NamesStayUnique`, `ShortCircuitIsRight` | `KeysAreOnce` (a sealed key is in one row or one request), `BarredIsUnused` (a barred key stays out of use), `UntouchedIsCurrent` (what nobody touched is what the poll began with, in the store and in what has been read). `NamesStayUnique` needs `RowsInv`: while a name is not crossed, an upload that is about to insert it is alone, and there is no row of it. `ShortCircuitIsRight` needs `ShownInv`: until a write leaves the watermark alone, the store, and what a poll has of it so far, is the resolver's copy or shows a stamp newer than its version. |
| `AllowlistProofs` | `Invariance`, `RemovalsAreLogged`, `AdditionsAlternate`, `LogTellsTheHistory` | nothing: the two properties are inductive together. That a row is absent only after its removal is what keeps two additions apart. `LogTellsTheHistory` needs `FoundIsThere`: the one request that is about to delete an entry has found the row that is there. |
| `AuditLogProofs` | `InvariantHolds`, `RowsReferToWhatExists`, `ConfirmedEntriesAreKept`, `ExportsAreExact`, `StoredWithinItsScope`; of `Telemetry`: `UsageInvariance`, `UsageTyped`, `SettledTotalsStay`, `ResendsAddNothing` | `FoundIsNamed` (a request has looked up only what its batch names, so the row refers to nothing else), `CursorSeparates` (the export has passed what it wrote; what it has not written and was always there is ahead). The order of entries is total although timestamps are not, because ids break ties: that is what `CursorSeparates` rests on. In `Telemetry`, `HadIsStored` (what was known of a sender has a snapshot, of the day that was looked for or of that of UTC), `FoundIsOf` and `HadIsFound` (so, where the two are one, the lookup finds a row and the save overwrites); for the aggregates `SumsInHand` (the sum of a calm recomputation, or of any one that is about to write a settled day, is what is stored), which needs `CalmTogether` (recomputations that overlap are all calm or none is) and `RunsHaveDays`. That sums are numbers is proved by a least counterexample in the size of the set, since induction over an operator is out of reach. |
| `ProjectsProofs` | `TypeCorrect`, `NothingIsOrphaned`, `PoliciesAreKept`, `DeletionsLast`, `OnlyStaleRequestsLose`, `OnlyAdminsMove` | `Grounded` (by `pc`: what a request holds is of the right kind; a project that is to be saved was inserted once; who has resolved a project was an admin where it was, and still is unless he is remembered to have `lost` that or the workspace is gone: `Admitted`), and that everything that is there was `born`: an id is not given out twice. `Keeps` collects the action properties, so that each action is gone through once. |
| `BillingProofs` | `Invariance`, `TypeCorrect`, `TierFollows`, `IdStays`, `CalmMirrors` | `Grounded` (a request that may reserve an id began before any was given out; what the resolver has replied was in its store since the request began), `Settled` (what a calm request has read is still so, callback and reply included). |
| `AccountsProofs` | `TypeCorrect`, `NoReplay`, `HomesAreReadable`, `TokensAreTrue`, `KeysSettle`, `NoSecondSuccessor` | `KeysOf` (rows that requests have read have the public key of the account and a private key that fits it or is the owner's own, if there is a workspace key), `IdsOf` (an account that was given one billing id has it, and so have the rows and claims in requests), both for every account (`AccountIsOK`) and for every request (`Grounded`, which also says that a refresh past the check was not late); `Apart` (two transactions neither write one account nor hold one nonce), `TokensHaveAccounts`, and that spent tokens are blacklisted. Lemma `OneWrites` is what all steps that write one account have in common. |
| `AgentsProofs` | `InvariantHolds`, `RowsHaveParents`, `DeadTokensAreNotHonoured`, `DeliveryStaysInScope`, `DeadTokensStayDead`, `DeletionsDelete`, `CredentialsKept` | `RowsAreBorn` (rows have keys that were given out), `Sound` (by `pc`: what a request holds is of the right kind, the tokens it is to delete are of its agent or gone, those it remembers as dead are dead). `CredentialsKept` is the refinement: each kind of step (a request that comes, a lookup that is accepted or refused, an insert, a cut, what happens beside the requests) maps to one step of `Credentials` or a stutter. |

**Model-checked only.** Liveness (`ResolverCatchesUp`, which fails, and
`EveryReconcileAnswered`), which is outside the prover, and the findings
`UpdateKeepsWorkspace`, `CheckoutCanBeMatched` and `UnreachableLeavesFree`, which
are violated. All else
that the runs check is proved. **Proved only**: the inductive invariants,
`UsageTypeOK`, `RemovalsAreAllowed`, `OwnersOnlyShrink`, `OwnerlessStays` and
`RevocationIsFinal` (the part of `Credentials` that says that a dead token is
never valid again), which earlier runs checked and the theorems now cover for
every size.

## 6. Not modelled

* **Billing**: the agent token path of `authorize_billing` and the pooled id of a
  free workspace, which are never the subject of a reconciliation.
* **Accounts**: `last_active_at`, the rehash of a password at login, logout (see
  section 4), one-time passwords. They write columns and tables
  that the properties of `Accounts` do not speak of, and name them
  (`update_fields`).
* **Migration**: the export and the contents of workspaces in an import (see
  section 4); what is written before the exception is rolled back.
* Within modelled components: renaming a workspace (nothing depends on it);
  `update_agent_capabilities`, which always raises (`services.py:510` names a
  column that `AgentRegistration` has not got); the usage report to the resolver;
  the hash chain of forensic entries; an entry id used for two contents; rate
  limits; the classification of telemetry commands; reports and their cache.
* The **activity log**: rows nothing reads back, written last, errors swallowed.
  (The entry of a project deletion refers to a row that is gone, and is lost.)
* **Queries** that are one SELECT: listings, summaries, searches.
* **Common** modules, settings, admin styling, static files: no state. The
  JavaScript of the repository is all under `staticfiles/`: collected assets of
  Django's admin, the REST framework's documentation pages and the admin theme,
  none of it written here and none of it loaded by the API. The program is the
  Python under `apps/` and `core/`, and all mapped lines are there; a count of
  mapped lines over the JavaScript files alone is therefore zero.
* The **resolver**, the **CLI** and the **proxies** are not in the repository;
  the models let them send anything the endpoints accept, at any time.
* Lost connections and crashes of a worker: a request that stops between two
  awaits is a request that never takes its next step, which every specification
  without fairness contains; all safety properties cover it.

## 7. Plan

1. `RateLimit`: get and set of a counter per process with a window that
   restarts, shared by telemetry and audit ingest. `Reports`: the cached
   report against recomputation.
2. One-time passwords (verification, reset) and deactivation against stateless
   access tokens, beside `Accounts`.
3. Abstract specifications: a store with atomic polls for `CloudSync` without
   overlap, a set of entries for `AuditLog`.

The proofs that an earlier version of this plan named are done: `ResendAddsNothing`
and the types of `Telemetry`, the action properties of `Membership`, the
properties with a history variable, and `Credentials` as the abstract
specification of `Agents`.
