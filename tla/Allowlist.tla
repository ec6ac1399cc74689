------------------------------ MODULE Allowlist ------------------------------
(***************************************************************************)
(* The allowlist of one workspace and its log: bulk_add_domains and        *)
(* remove_domain of AllowlistService (apps/workspaces/services.py).  Both  *)
(* read first and write in a transaction of their own; between the two     *)
(* other requests run.  The log is what the dashboard shows: nothing else  *)
(* remembers who could reach which domain when.                            *)
(***************************************************************************)
EXTENDS Naturals, Sequences

CONSTANTS
    Domains,    \* domains, normalised as the request schema does it
    Requests,   \* requests in progress at the same time
    MaxLog      \* bound: requests are sent while the log of a domain is shorter

ASSUME LogAssumption == MaxLog \in Nat

VARIABLES
    row,        \* row[d]: primary key of the entry for d, 0 when there is none
    log,        \* log[d]: the actions logged for d, oldest first
    nextId,     \* primary key of the next entry
    req         \* req[r]: what request r has read so far

vars == <<row, log, nextId, req>>

Actions == {"added", "removed"}

Idle   == [pc |-> "idle", batch |-> {}, domain |-> "none", id |-> 0]
Adding == [pc : {"read", "insert"}, batch : SUBSET Domains, domain : {"none"},
           id : {0}]
Removing == [pc : {"find", "delete"}, batch : {{}}, domain : Domains, id : Nat]

TypeOK ==
    /\ row \in [Domains -> Nat]
    /\ log \in [Domains -> Seq(Actions)]
    /\ nextId \in Nat \ {0}
    /\ req \in [Requests -> Adding \cup Removing \cup {Idle}]

Init ==
    /\ row = [d \in Domains |-> 0]
    /\ log = [d \in Domains |-> << >>]
    /\ nextId = 1
    /\ req = [r \in Requests |-> Idle]

-----------------------------------------------------------------------------
Step(r, rec) == req' = [req EXCEPT ![r] = rec]

\* The caller is an owner or admin; everybody else is refused at once.
Ask(r, rec) ==
    /\ req[r] = Idle
    /\ Step(r, rec)
    /\ UNCHANGED <<row, log, nextId>>

AskAdd(r, batch) ==
    /\ batch # {}
    /\ \A d \in batch : Len(log[d]) < MaxLog
    /\ Ask(r, [Idle EXCEPT !.pc = "read", !.batch = batch])

AskRemove(r, d) ==
    /\ Len(log[d]) < MaxLog
    /\ Ask(r, [Idle EXCEPT !.pc = "find", !.domain = d])

\* The domains that are already listed are left out, and nothing but those is
\* an error.
ReadExisting(r) ==
    LET new == {d \in req[r].batch : row[d] = 0} IN
    /\ req[r].pc = "read"
    /\ Step(r, IF new = {} THEN Idle
               ELSE [Idle EXCEPT !.pc = "insert", !.batch = new])
    /\ UNCHANGED <<row, log, nextId>>

\* Slip: no unique constraint.
InsertAnyway(r) ==
    LET new == req[r].batch IN
    /\ req[r].pc = "insert"
    /\ row' = [d \in Domains |-> IF d \in new THEN nextId ELSE row[d]]
    /\ log' = [d \in Domains |-> IF d \in new THEN Append(log[d], "added")
                                 ELSE log[d]]
    /\ nextId' = nextId + 1
    /\ Step(r, Idle)

\* Entries and log in one transaction, which the unique constraint (workspace,
\* domain) rolls back as a whole when one of the domains was added meanwhile.
Insert(r) ==
    LET new == req[r].batch IN
    /\ req[r].pc = "insert"
    /\ \/ /\ \A d \in new : row[d] = 0
          /\ row' = [d \in Domains |-> IF d \in new THEN nextId ELSE row[d]]
          /\ log' = [d \in Domains |-> IF d \in new THEN Append(log[d], "added")
                                       ELSE log[d]]
          /\ nextId' = nextId + 1
       \/ /\ \E d \in new : row[d] # 0
          /\ UNCHANGED <<row, log, nextId>>
    /\ Step(r, Idle)

Find(r) ==
    LET d == req[r].domain IN
    /\ req[r].pc = "find"
    /\ Step(r, IF row[d] = 0 THEN Idle
               ELSE [req[r] EXCEPT !.pc = "delete", !.id = row[d]])
    /\ UNCHANGED <<row, log, nextId>>

\* Slips: the removal is not logged; it is logged as something else.
DeleteUnlogged(r) ==
    LET d == req[r].domain IN
    /\ req[r].pc = "delete"
    /\ row' = IF row[d] = req[r].id THEN [row EXCEPT ![d] = 0] ELSE row
    /\ Step(r, Idle)
    /\ UNCHANGED <<log, nextId>>

DeleteMislogged(r) ==
    LET d == req[r].domain IN
    /\ req[r].pc = "delete"
    /\ row' = IF row[d] = req[r].id THEN [row EXCEPT ![d] = 0] ELSE row
    /\ log' = [log EXCEPT ![d] = Append(@, "added")]
    /\ Step(r, Idle)
    /\ UNCHANGED nextId

\* The entry that was found is deleted by primary key, if it is still there;
\* the removal is logged whether it was or not.
Delete(r) ==
    LET d == req[r].domain IN
    /\ req[r].pc = "delete"
    /\ row' = IF row[d] = req[r].id THEN [row EXCEPT ![d] = 0] ELSE row
    /\ log' = [log EXCEPT ![d] = Append(@, "removed")]
    /\ Step(r, Idle)
    /\ UNCHANGED nextId

Next ==
    \E r \in Requests :
        \/ \E batch \in SUBSET Domains : AskAdd(r, batch)
        \/ \E d \in Domains : AskRemove(r, d)
        \/ ReadExisting(r) \/ Insert(r) \/ Find(r) \/ Delete(r)

Spec == Init /\ [][Next]_vars

-----------------------------------------------------------------------------
(* Properties *)

Last(s) == s[Len(s)]

\* Whatever the order of concurrent additions and removals, a domain that is
\* not on the list any more has its removal as the last word of the log
\* (services.py:388-398, 427-437).
AbsentIsLogged ==
    \A d \in Domains : row[d] = 0 /\ log[d] # << >> => Last(log[d]) = "removed"

\* No domain is logged as added twice without a removal in between
\* (services.py:379-398 against the unique constraint, models.py:171).
NoDoubleAdd ==
    \A d \in Domains : \A i \in 1..(Len(log[d]) - 1) :
        ~(log[d][i] = "added" /\ log[d][i + 1] = "added")

\* The inductive invariant of AllowlistProofs.
IInv == TypeOK /\ AbsentIsLogged /\ NoDoubleAdd
=============================================================================
