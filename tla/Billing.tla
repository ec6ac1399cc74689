------------------------------- MODULE Billing -------------------------------
(***************************************************************************)
(* The billing account of one workspace: initialize_workspace_billing,     *)
(* reconcile_workspace_billing and the callback authorize_billing          *)
(* (apps/workspaces/services.py and views.py).                             *)
(*                                                                         *)
(* Pro is sold elsewhere: a checkout with the reserved id activates a plan *)
(* in the store of the resolver, which is not in this repository, and a    *)
(* reconciliation copies the outcome to the workspace.  To read a plan the *)
(* server calls the resolver, and the resolver calls the server back to    *)
(* have the caller's credential checked.  The call is not awaited: it      *)
(* stops the event loop of its worker, so the callback needs another one.  *)
(***************************************************************************)
EXTENDS FiniteSets

CONSTANTS
    Managers,  \* users who may be owner or admin of the workspace
    Accounts,  \* the ids that may be generated
    Requests,  \* requests in progress at the same time
    Workers    \* server processes, each with one event loop

ASSUME AccountsAssumption == "none" \notin Accounts

VARIABLES
    ws,        \* the row of the workspace: billing_id, tier, is it there
    admins,    \* its owner and admins at the moment
    plan,      \* plan[i]: the subscription of account i in the resolver's store
    handed,    \* history: the ids that clients were given
    req        \* req[r]: where request r stands and what it has read

vars == <<ws, admins, plan, handed, req>>

-----------------------------------------------------------------------------
NoAccount == "none"
Ids       == Accounts \cup {NoAccount}
Tiers     == {"free", "pro"}
Plans     == {"active", "inactive"}

\* Waiting for the resolver: the event loop of the worker stands still.
Waiting == {"called", "asked", "granted", "denied", "replied"}
Busy    == {"reserve", "mint", "write"} \cup Waiting
Replies == {"none", "pro", "free", "refused"}

\* id and tier are those of the row the request has read.  early, seen and calm
\* are history: no id had been given out when it began; the plans its account
\* has had since; nothing that it reads was changed by others since.
Idle == [pc |-> "idle", worker |-> "none", caller |-> "none", id |-> NoAccount,
         tier |-> "free", reply |-> "none", early |-> FALSE, seen |-> {},
         calm |-> FALSE]
Pending == [pc : Busy, worker : Workers, caller : Managers, id : Ids, tier : Tiers,
            reply : Replies, early : BOOLEAN, seen : SUBSET Plans, calm : BOOLEAN]

TypeOK ==
    /\ ws \in [id : Ids, tier : Tiers, live : BOOLEAN]
    /\ admins \subseteq Managers
    /\ plan \in [Accounts -> Plans]
    /\ handed \subseteq Accounts
    /\ req \in [Requests -> Pending \cup {Idle}]

Init ==
    /\ ws = [id |-> NoAccount, tier |-> "free", live |-> TRUE]
    /\ admins = Managers
    /\ plan = [i \in Accounts |-> "inactive"]
    /\ handed = {}
    /\ req = [r \in Requests |-> Idle]

-----------------------------------------------------------------------------
\* Steps a request is made of.

At(r, pc) == req[r].pc = pc

Runs(w) == \A r \in Requests : req[r].worker = w => req[r].pc \notin Waiting

\* The event loop of the worker of r can take it up again.
Resumes(r, pc) == At(r, pc) /\ Runs(req[r].worker)

Advance(r, pc) == req' = [req EXCEPT ![r].pc = pc]
Answer(r)      == req' = [req EXCEPT ![r] = Idle]

\* r changes the row, which the other requests may have read, and is answered.
Write(r, row) ==
    /\ ws' = IF ws.live THEN row ELSE ws
    /\ req' = [q \in Requests |->
                 IF q = r THEN Idle
                 ELSE IF At(q, "idle") \/ ws' = ws THEN req[q]
                 ELSE [req[q] EXCEPT !.calm = FALSE]]

\* The checks that both handlers begin with.
Begin(r, w, u, pc) ==
    /\ At(r, "idle") /\ Runs(w)
    /\ ws.live /\ u \in admins
    /\ req' = [req EXCEPT ![r] =
           [Idle EXCEPT !.pc = pc, !.worker = w, !.caller = u, !.id = ws.id,
                        !.tier = ws.tier, !.early = (handed = {}), !.calm = TRUE,
                        !.seen = IF ws.id = NoAccount THEN {} ELSE {plan[ws.id]}]]
    /\ UNCHANGED <<ws, admins, plan, handed>>

-----------------------------------------------------------------------------
(* initialize_workspace_billing *)

\* Slip: every call generates a new id.
BeginInitializeAnew(r, w, u) == Begin(r, w, u, "reserve")

\* A workspace that has an id is answered with it; otherwise one is generated
\* and saved.
BeginInitialize(r, w, u) ==
    /\ ws.id = NoAccount
    /\ Begin(r, w, u, "reserve")

\* Slip: asave() without update_fields, which writes the whole row back as it was
\* read.
ReserveWholeRow(r, i) ==
    /\ Resumes(r, "reserve")
    /\ i \notin handed
    /\ Write(r, [ws EXCEPT !.id = i, !.tier = req[r].tier])
    /\ handed' = IF ws.live THEN handed \cup {i} ELSE handed
    /\ UNCHANGED <<admins, plan>>

\* asave(update_fields=["billing_id", ...]), which raises when the row is gone.
Reserve(r, i) ==
    /\ Resumes(r, "reserve")
    /\ i \notin handed
    /\ Write(r, [ws EXCEPT !.id = i])
    /\ handed' = IF ws.live THEN handed \cup {i} ELSE handed
    /\ UNCHANGED <<admins, plan>>

-----------------------------------------------------------------------------
(* reconcile_workspace_billing *)

BeginReconcile(r, w, u) ==
    /\ ws.id # NoAccount
    /\ Begin(r, w, u, "mint")

\* The credential is minted on a thread, then urlopen blocks.
Call(r) ==
    /\ Resumes(r, "mint")
    /\ Advance(r, "called")
    /\ UNCHANGED <<ws, admins, plan, handed>>

\* The resolver has the call and asks who is calling.
Ask(r) ==
    /\ At(r, "called")
    /\ Advance(r, "asked")
    /\ UNCHANGED <<ws, admins, plan, handed>>

\* Slip: only the account that is in use is matched.
AuthorizedInUse(u, i) == ws.live /\ u \in admins /\ ws.id = i /\ ws.tier = "pro"

\* Whether user u may read account i: its reserved id, for owner and admins.
\* (The pooled id of a free workspace belongs to its owner and is never the
\* subject of a reconciliation.)
Authorized(u, i) == ws.live /\ u \in admins /\ ws.id = i

\* authorize_billing, on any worker whose event loop runs.
Authorize(r, w) ==
    /\ At(r, "asked") /\ Runs(w)
    /\ Advance(r, IF Authorized(req[r].caller, req[r].id) THEN "granted" ELSE "denied")
    /\ UNCHANGED <<ws, admins, plan, handed>>

PlanReply(p) == IF p = "active" THEN "pro" ELSE "free"

Reply(r) ==
    /\ req[r].pc \in {"granted", "denied"}
    /\ req' = [req EXCEPT ![r].pc = "replied",
                  ![r].reply = IF At(r, "granted") THEN PlanReply(plan[req[r].id])
                               ELSE "refused"]
    /\ UNCHANGED <<ws, admins, plan, handed>>

\* urlopen returns.  The tier is written when it is not the one that was read.
Resume(r) ==
    /\ At(r, "replied")
    /\ IF req[r].reply = "refused" \/ req[r].reply = req[r].tier
       THEN Answer(r)
       ELSE Advance(r, "write")
    /\ UNCHANGED <<ws, admins, plan, handed>>

\* Slip: the timeout covers the connection only.
GiveUpCalling(r) ==
    /\ At(r, "called")
    /\ Answer(r)
    /\ UNCHANGED <<ws, admins, plan, handed>>

\* timeout=8, or the connection fails: the tier stays what it is.
GiveUp(r) ==
    /\ req[r].pc \in Waiting \ {"replied"}
    /\ Answer(r)
    /\ UNCHANGED <<ws, admins, plan, handed>>

\* asave(update_fields=["tier", ...])
WriteTier(r) ==
    /\ Resumes(r, "write")
    /\ Write(r, [ws EXCEPT !.tier = req[r].reply])
    /\ UNCHANGED <<admins, plan, handed>>

-----------------------------------------------------------------------------
(* What goes on around these handlers. *)

\* A checkout with an id that was given out, a renewal; a payment that is late, a
\* cancellation.
SetPlan(i, p) ==
    /\ i \in handed /\ p # plan[i]
    /\ plan' = [plan EXCEPT ![i] = p]
    /\ req' = [r \in Requests |->
                 IF req[r].pc = "idle" \/ req[r].id # i THEN req[r]
                 ELSE [req[r] EXCEPT !.seen = @ \cup {p}, !.calm = FALSE]]
    /\ UNCHANGED <<ws, admins, handed>>

Unsettle == req' = [r \in Requests |-> IF At(r, "idle") THEN req[r]
                                      ELSE [req[r] EXCEPT !.calm = FALSE]]

\* The members of the workspace change (see Membership), or it is deleted.
SetAdmins(A) ==
    /\ A # admins
    /\ admins' = A
    /\ Unsettle
    /\ UNCHANGED <<ws, plan, handed>>

DeleteWorkspace ==
    /\ ws.live
    /\ ws' = [ws EXCEPT !.live = FALSE]
    /\ Unsettle
    /\ UNCHANGED <<admins, plan, handed>>

-----------------------------------------------------------------------------
NewRequest(r) == \E w \in Workers, u \in Managers :
                     BeginInitialize(r, w, u) \/ BeginReconcile(r, w, u)

Resolver(r) == Ask(r) \/ Reply(r)

ServerStep(r) ==
    \/ \E i \in Accounts : Reserve(r, i)
    \/ Call(r) \/ Resume(r) \/ GiveUp(r) \/ WriteTier(r)

Environment ==
    \/ \E i \in Accounts, p \in Plans : SetPlan(i, p)
    \/ \E A \in SUBSET Managers : SetAdmins(A)
    \/ DeleteWorkspace

Next ==
    \/ \E r \in Requests : NewRequest(r) \/ ServerStep(r) \/ Resolver(r)
                           \/ \E w \in Workers : Authorize(r, w)
    \/ Environment

Spec == Init /\ [][Next]_vars

\* The ready queue of an event loop is first in, first out: what it can take
\* up again and again it takes up.  The resolver need not answer, but a call has
\* to end: timeout=8 bounds each operation on the socket, so an answer that
\* comes in drips and never ends is excluded.
FairSpec == Spec /\ \A r \in Requests : SF_vars(ServerStep(r))

-----------------------------------------------------------------------------
(* Properties *)

\* The tier changes only to what the resolver's store said of the account, with
\* the server's own read under way: Pro needs a plan that was active since the
\* request began, and losing Pro one that was not (services.py:136-149,
\* 178-210); see UnreachableLeavesFree for what the code's comment says instead
\* of a resolver that does not answer.
TierIsFresh ==
    [][ws'.tier # ws.tier =>
         \E r \in Requests :
            /\ req'[r] # req[r]
            /\ (IF ws'.tier = "pro" THEN "active" ELSE "inactive") \in req[r].seen]_vars

\* A reconciliation during which nobody changed what it depends on is not
\* refused, and leaves the tier that goes with the plan, whatever other
\* requests were doing at the time (services.py:162-210, views.py:562-590).
CalmReconcileMirrors ==
    [][\A r \in Requests :
         /\ req[r].calm /\ req[r].reply # "none" /\ req'[r] = Idle
         => /\ req[r].reply # "refused"
            /\ ws'.tier = "pro" <=> plan[req[r].id] = "active"]_vars

\* Only requests that began before any id was given out can give the workspace
\* another one: from then on the id stays (services.py:136-149).
LaterRequestsKeepTheId ==
    [][ws'.id # ws.id => \E r \in Requests : req'[r] # req[r] /\ req[r].early]_vars

\* Every request is answered, also when all workers wait for callbacks that
\* none of them can take (services.py:185, Dockerfile:64).
EveryReconcileAnswered ==
    \A r \in Requests : req[r].pc # "idle" ~> req[r].pc = "idle"

\* "Persisting it here is what lets a later reconcile match the id the Polar
\* checkout used back to this workspace" (services.py:143-144): an account with
\* a plan is the account of the workspace.
CheckoutCanBeMatched ==
    \A i \in Accounts : ws.live /\ plan[i] = "active" => ws.id = i

\* "Anything else (free, cancelled, past_due, unreachable) leaves the workspace
\* free" (services.py:199-201): a reconciliation that ends without an answer
\* leaves it free.  The handler has returned before it gets there (192-197).
UnreachableLeavesFree ==
    [][\A r \in Requests :
         req[r].pc \in Waiting \ {"replied"} /\ req'[r] = Idle /\ ws'.live
         => ws'.tier = "free"]_vars

\* Why these hold.  A request that may reserve an id began before any was given
\* out, and what the resolver replied was in its store since the request began.
Grounded(q) ==
    /\ q.pc = "reserve" => q.early
    /\ q.pc \in Busy \ {"reserve"} => q.id \in Accounts /\ plan[q.id] \in q.seen
    /\ q.reply # "none" <=> q.pc \in {"replied", "write"}
    /\ q.pc = "write" => q.reply \in Tiers
    /\ q.reply = "pro" => "active" \in q.seen
    /\ q.reply = "free" => "inactive" \in q.seen

\* What a calm request has read is still so.
Settled(q) ==
    q.calm => /\ ws.live /\ q.caller \in admins
              /\ q.id = ws.id /\ q.tier = ws.tier
              /\ q.pc # "denied" /\ q.reply # "refused"
              /\ q.reply \in Tiers => q.reply = PlanReply(plan[q.id])

\* The inductive invariant of BillingProofs.
IInv ==
    /\ TypeOK
    /\ ws.id = NoAccount <=> handed = {}
    /\ \A r \in Requests : Grounded(req[r]) /\ Settled(req[r])
=============================================================================
