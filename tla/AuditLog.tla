------------------------------ MODULE AuditLog ------------------------------
(***************************************************************************)
(* The audit log: batches of entries that resolvers and command lines send *)
(* (create_audit_logs, create_forensic_logs), the export that streams the  *)
(* log page by page, and the deletions of tokens, projects and workspaces  *)
(* that entries refer to.                                                  *)
(*                                                                         *)
(* An ingest looks its callers, workspaces, projects and tokens up in      *)
(* separate queries and inserts the batch in a transaction of its own; the *)
(* foreign keys are checked when that transaction commits.  Emitters send  *)
(* a batch again when they have got no answer, so a batch may arrive any   *)
(* number of times.  Every page of an export is a query of its own.        *)
(***************************************************************************)
EXTENDS Naturals, FiniteSets, FiniteSetsExt

CONSTANTS
    Workspaces,  \* workspaces that exist at the start
    Projects,    \* projects that exist at the start
    Tokens,      \* agent tokens that exist at the start
    Users,       \* accounts that ingest with a session
    Home,        \* Home[t]: the workspace of token t
    Parts,       \* Parts[x]: what a deletion of x takes along, x included
    Entries,     \* primary keys of entries, which emitters choose
    Forensic,    \* the entries that go to the forensic log
    Time,        \* Time[e]: the timestamp of entry e
    Of,          \* Of[e]: the workspace that e names
    Names,       \* Names[e]: the project and the token that e names
    Requests,    \* ingest requests that may overlap
    PageSize,    \* PAGE_SIZE of the export
    MaxRows      \* MAX_ROWS of the export

Parents == Workspaces \cup Projects \cup Tokens
\* Service: the holder of RESOLVER_SERVICE_KEY.
Service == "service"
Callers == Users \cup Tokens \cup {Service}

ASSUME EntriesAssumption ==
    /\ Entries \subseteq Nat \ {0} /\ IsFiniteSet(Entries)
    /\ Forensic \subseteq Entries
    /\ Time \in [Entries -> Nat]
    /\ Of \in [Entries -> Workspaces]
    /\ Names \in [Entries -> SUBSET (Projects \cup Tokens)]
    /\ \A e \in Forensic : Names[e] \subseteq Projects
ASSUME ParentsAssumption ==
    /\ Home \in [Tokens -> Workspaces]
    /\ Parts \in [Parents -> SUBSET Parents]
    /\ \A x \in Parents : x \in Parts[x]
    /\ Workspaces \cap (Projects \cup Tokens) = {}
    /\ Projects \cap Tokens = {}
    /\ \A x \in Parents \ Workspaces : Parts[x] \cap Workspaces = {}
ASSUME PagesAssumption == PageSize \in Nat \ {0} /\ MaxRows \in Nat \ {0}

VARIABLES
    live,        \* the parents that still exist
    member,      \* member[u]: workspaces of which u is an active member
    table,       \* table[e]: what the row of e refers to; {} without a row
    acked,       \* entries whose insertion was confirmed
    req,         \* req[r]: the batch of an ingest and what it has looked up
    export       \* the export in progress

vars == <<live, member, table, acked, req, export>>

-----------------------------------------------------------------------------
\* granted is what the caller may write to; found what the lookups have seen.
Idle == [pc |-> "idle", caller |-> "none", batch |-> {}, granted |-> {},
         found |-> {}]
Pending == [pc : {"scope", "workspaces", "projects", "tokens", "insert"},
            caller : Callers, batch : SUBSET Entries,
            granted : SUBSET Workspaces, found : SUBSET Parents]

\* of is the workspace that is exported, cursor the last entry written, out
\* what was written so far and lines how often something was.  kept is
\* history: the entries that have been in the log since the export began.
NoExport == [pc |-> "idle", of |-> "none", cursor |-> 0, lines |-> 0,
             out |-> {}, kept |-> {}]
Exports  == [pc : {"page", "done"}, of : Workspaces, cursor : Entries \cup {0},
             lines : Nat, out : SUBSET Entries, kept : SUBSET Entries]

TypeOK ==
    /\ live \subseteq Parents
    /\ member \in [Users -> SUBSET Workspaces]
    /\ table \in [Entries -> SUBSET Parents]
    /\ acked \subseteq Entries
    /\ req \in [Requests -> Pending \cup {Idle}]
    /\ export \in Exports \cup {NoExport}

Init ==
    /\ live = Parents
    /\ member = [u \in Users |-> {}]
    /\ table = [e \in Entries |-> {}]
    /\ acked = {}
    /\ req = [r \in Requests |-> Idle]
    /\ export = NoExport

-----------------------------------------------------------------------------
(* Ingest. *)

At(r, pc) == req[r].pc = pc

Advance(r, rec) == req' = [req EXCEPT ![r] = rec]

Rest == <<live, member, export>>

\* create_audit_logs, create_forensic_logs: a token is looked up, a session
\* is not; without either the answer is 401.  One batch goes to one log.
Receive(r, c, batch) ==
    /\ At(r, "idle")
    /\ c \in Tokens => c \in live
    /\ batch \subseteq Forensic \/ batch \cap Forensic = {}
    /\ Advance(r, [Idle EXCEPT !.pc = "scope", !.caller = c, !.batch = batch])
    /\ UNCHANGED <<Rest, table, acked>>

\* _ingest_workspace_scope; the service key may write to every workspace.
Scope(c) == IF c \in Tokens THEN {Home[c]}
            ELSE IF c \in Users THEN member[c] ELSE Workspaces

\* Slip: what the caller may not write to is kept.
ReadScopeUnfiltered(r) ==
    /\ At(r, "scope")
    /\ Advance(r, [req[r] EXCEPT !.pc = "workspaces",
                                 !.granted = Scope(req[r].caller)])
    /\ UNCHANGED <<Rest, table, acked>>

\* Entries of other workspaces are dropped, and the answer does not say so.
ReadScope(r) ==
    LET scope == Scope(req[r].caller) IN
    /\ At(r, "scope")
    /\ Advance(r, [req[r] EXCEPT
                     !.pc = "workspaces", !.granted = scope,
                     !.batch = {e \in req[r].batch : Of[e] \in scope}])
    /\ UNCHANGED <<Rest, table, acked>>

\* What the entries of a batch name, by one of the three lookups.
Named(r) == {Of[e] : e \in req[r].batch} \cup UNION {Names[e] : e \in req[r].batch}

LookUp(r, pc, kind, next) ==
    /\ At(r, pc)
    /\ Advance(r, [req[r] EXCEPT !.pc = next,
                                 !.found = @ \cup (Named(r) \cap kind \cap live)])
    /\ UNCHANGED <<Rest, table, acked>>

ReadWorkspaces(r) == LookUp(r, "workspaces", Workspaces, "projects")

ReadProjects(r) ==
    LookUp(r, "projects", Projects,
           IF req[r].batch \subseteq Forensic THEN "insert" ELSE "tokens")

ReadTokens(r) == LookUp(r, "tokens", Tokens, "insert")

\* The row of an entry whose workspace was found; a project or token that was
\* not found is left out.
Stored(r) == {e \in req[r].batch : Of[e] \in req[r].found}
NewRow(r, e) == {Of[e]} \cup (Names[e] \cap req[r].found)

\* ON CONFLICT DO NOTHING: a row that is there stays as it is.
Fresh(r) == {e \in Stored(r) : table[e] = {}}

\* Slip: only the foreign key of the workspace is checked.
CommitsAnyway(r) == \A e \in Fresh(r) : Of[e] \in live

\* The foreign keys of the rows that are inserted.
Commits(r) == \A e \in Fresh(r) : NewRow(r, e) \subseteq live

\* Slip: the error is swallowed, as the activity log does it.
InsertSwallowed(r) ==
    /\ At(r, "insert")
    /\ table' = IF Commits(r)
                THEN [e \in Entries |-> IF e \in Fresh(r) THEN NewRow(r, e) ELSE table[e]]
                ELSE table
    /\ acked' = acked \cup Stored(r)
    /\ Advance(r, Idle)
    /\ UNCHANGED Rest

\* abulk_create: one INSERT for the batch, all of it or none.  On failure the
\* emitter gets an error and may send the batch again.
Insert(r) ==
    /\ At(r, "insert")
    /\ \/ /\ Commits(r)
          /\ table' = [e \in Entries |-> IF e \in Fresh(r) THEN NewRow(r, e)
                                         ELSE table[e]]
          /\ acked' = acked \cup Stored(r)
       \/ /\ ~Commits(r)
          /\ UNCHANGED <<table, acked>>
    /\ Advance(r, Idle)
    /\ UNCHANGED Rest

-----------------------------------------------------------------------------
(* What entries refer to comes and goes. *)

\* The rows that go with x: those of a workspace, and those of a project
\* unless they are forensic ones.  Other references are set to NULL.
Cascades(e, x) ==
    table[e] \cap Parts[x]
        \cap (Workspaces \cup IF e \in Forensic THEN {} ELSE Projects) # {}

\* Delete of a token, an agent's only one or all of them, a project or a
\* workspace: the row, what cascades from it, and the references to them.
Drop(x) ==
    /\ x \in live
    /\ live' = live \ Parts[x]
    /\ member' = [u \in Users |-> member[u] \ Parts[x]]
    /\ table' = [e \in Entries |-> IF Cascades(e, x) THEN {}
                                   ELSE table[e] \ Parts[x]]
    /\ export' = [export EXCEPT !.kept = {e \in @ : ~Cascades(e, x)}]
    /\ UNCHANGED <<acked, req>>

\* Invitations and removals, see Membership.
Join(u, w) ==
    /\ w \in live \ member[u]
    /\ member' = [member EXCEPT ![u] = @ \cup {w}]
    /\ UNCHANGED <<live, table, acked, req, export>>

Leave(u, w) ==
    /\ w \in member[u]
    /\ member' = [member EXCEPT ![u] = @ \ {w}]
    /\ UNCHANGED <<live, table, acked, req, export>>

-----------------------------------------------------------------------------
(* Export. *)

\* The rows of the workspace that the filters let through.
Visible(w) == {e \in Entries \ Forensic : w \in table[e]}

\* order_by("-timestamp", "-id")
Newer(a, b) == Time[a] > Time[b] \/ (Time[a] = Time[b] /\ a > b)

StartExport(w) ==
    /\ export.pc # "page"
    /\ w \in live
    /\ export' = [NoExport EXCEPT !.pc = "page", !.of = w, !.kept = Visible(w)]
    /\ UNCHANGED <<live, member, table, acked, req>>

\* Slip: the cursor lets its own row through.
BehindOrAt(c, w) == {e \in Visible(w) : c = 0 \/ ~Newer(e, c)}

\* The rows behind the cursor.
Behind(c, w) == {e \in Visible(w) : c = 0 \/ Newer(c, e)}

\* One page: the newest rows behind the cursor, at most PageSize, written until
\* there are MaxRows lines.  A short page or a full export is the end.
NextPage ==
    LET rows == Behind(export.cursor, export.of)
        size == Min({PageSize, MaxRows - export.lines, Cardinality(rows)})
    IN
    /\ export.pc = "page"
    /\ \E page \in SUBSET rows :
          /\ Cardinality(page) = size
          /\ \A a \in page, b \in rows \ page : Newer(a, b)
          /\ \E last \in page \cup {0} :
                /\ page # {} => last # 0 /\ \A a \in page \ {last} : Newer(a, last)
                /\ page = {} => last = 0
                /\ export' = [export EXCEPT
                      !.lines = @ + size,
                      !.out = @ \cup page,
                      !.cursor = IF last = 0 THEN @ ELSE last,
                      !.pc = IF \/ Cardinality(rows) < PageSize
                                \/ export.lines + size >= MaxRows
                             THEN "done" ELSE "page"]
    /\ UNCHANGED <<live, member, table, acked, req>>

-----------------------------------------------------------------------------
Ingest(r) ==
    \/ \E c \in Callers, batch \in (SUBSET Entries) \ {{}} : Receive(r, c, batch)
    \/ ReadScope(r) \/ ReadWorkspaces(r) \/ ReadProjects(r) \/ ReadTokens(r)
    \/ Insert(r)

Next ==
    \/ \E r \in Requests : Ingest(r)
    \/ \E x \in Parents : Drop(x)
    \/ \E u \in Users, w \in Workspaces : Join(u, w) \/ Leave(u, w)
    \/ \E w \in Workspaces : StartExport(w)
    \/ NextPage

Spec == Init /\ [][Next]_vars

-----------------------------------------------------------------------------
(* Properties *)

\* A row refers to what exists, although the lookups of its ingest are awaits
\* old when it is inserted, only to what its emitter named and always to the
\* workspace among that (services.py:650-667, 738-746; models.py:321-334).
ReferencesExist ==
    \A e \in Entries :
        /\ table[e] \subseteq live \cap ({Of[e]} \cup Names[e])
        /\ table[e] # {} => Of[e] \in table[e]

\* A confirmed entry is in the log as long as its workspace and, for an audit
\* entry, its project exist: no retry, failed batch or deletion of a token
\* loses it (services.py:754-755, 994-997).
Bereft(e) ==
    Of[e] \notin live \/ (e \notin Forensic /\ ~(Names[e] \cap Projects \subseteq live))

AckedIsKept == \A e \in acked : table[e] # {} \/ Bereft(e)

\* "Bind every entry to a workspace the caller may write" (views.py:642-645):
\* what appears in the log was within the scope its own ingest has read.
StoredWithinScope ==
    [][\A e \in Entries : table[e] = {} /\ table'[e] # {}
         => \E r \in Requests : /\ At(r, "insert") /\ req'[r] = Idle
                                /\ Of[e] \in req[r].granted]_vars

\* "pagination is stable" (views.py:440): no entry is exported twice, however
\* many entries arrive, go and come back while the pages are read.
ExportedOnce == export.lines = Cardinality(export.out)

\* An entry that was in the log all the time is in the export, unless the
\* export ends at MAX_ROWS (views.py:459-480).
ExportIsComplete ==
    export.pc = "done" /\ export.lines < MaxRows => export.kept \subseteq export.out

\* The keyset cursor neither repeats an entry nor skips one that was there all
\* the time (views.py:440-480).
ExportIsExact == ExportedOnce /\ ExportIsComplete

\* What is left for an inductive invariant: the export has passed everything
\* it wrote, and an entry it has not written and that was there all the time
\* is still ahead of the cursor.
CursorSeparates ==
    /\ export.lines <= MaxRows
    /\ export.pc = "page" => export.lines < MaxRows
    /\ export.cursor = 0 => export.out = {}
    /\ export.cursor # 0 => \A e \in export.out : ~Newer(export.cursor, e)
    /\ export.pc = "page" =>
          \A e \in export.kept \ export.out :
              e \in Behind(export.cursor, export.of)

\* What a request has looked up it has looked up for its own batch.
FoundIsNamed ==
    \A r \in Requests :
        /\ req[r].found \subseteq Named(r)
        /\ IF req[r].pc \in {"idle", "scope"} THEN req[r].found = {}
           ELSE \A e \in req[r].batch : Of[e] \in req[r].granted

\* The inductive invariant of AuditLogProofs.
IInv ==
    /\ TypeOK
    /\ ReferencesExist
    /\ AckedIsKept
    /\ FoundIsNamed
    /\ CursorSeparates
    /\ ExportedOnce
    /\ ExportIsComplete
=============================================================================
