---------------------------- MODULE BillingProofs ----------------------------
(***************************************************************************)
(* Proofs about Billing, for any managers, accounts, requests and workers: *)
(* the tier follows the resolver's store, and the id of a workspace stays. *)
(***************************************************************************)
EXTENDS Billing, TLAPS

Rows == [id : Ids, tier : Tiers, live : BOOLEAN]

\* Idle is the only value that is at "idle".
LEMMA PendingOrIdle ==
    ASSUME TypeOK, NEW r \in Requests
    PROVE  /\ req[r] = Idle \/ req[r] \in Pending
           /\ req[r].pc = "idle" => req[r] = Idle
           /\ req[r].pc # "idle" => req[r] \in Pending
BY DEF TypeOK, Pending, Idle, Busy, Waiting

\* Nothing is asked of an idle request.
LEMMA IdleHolds == Grounded(Idle) /\ Settled(Idle)
BY DEF Grounded, Settled, Idle, Busy, Waiting

LEMMA IdleHoldsNext ==
    ASSUME NEW r \in Requests, req'[r] = Idle
    PROVE  Grounded(req[r])' /\ Settled(req[r])'
BY DEF Grounded, Settled, Idle, Busy, Waiting

\* A step that moves one request and changes nothing else is judged by where
\* it puts that request.
LEMMA OneMoves ==
    ASSUME IInv, NEW r \in Requests, NEW new \in Pending \cup {Idle},
           req' = [req EXCEPT ![r] = new], UNCHANGED <<ws, admins, plan, handed>>,
           Grounded(new), Settled(new)
    PROVE  IInv'
<1>1. TypeOK'
  BY DEF IInv, TypeOK
<1>2. ASSUME NEW q \in Requests PROVE Grounded(req[q])' /\ Settled(req[q])'
  <2>1. CASE q = r
    <3>1. req'[q] = new
      BY <2>1 DEF IInv, TypeOK
    <3> QED BY <3>1 DEF Grounded, Settled
  <2>2. CASE q # r
    <3>1. req'[q] = req[q]
      BY <2>2 DEF IInv, TypeOK
    <3> QED BY <3>1 DEF IInv, Grounded, Settled
  <2> QED BY <2>1, <2>2
<1> QED BY <1>1, <1>2 DEF IInv

LEMMA Answered ==
    ASSUME IInv, NEW r \in Requests, Answer(r), UNCHANGED <<ws, admins, plan, handed>>
    PROVE  IInv'
BY IdleHolds, OneMoves DEF Answer

\* A request that goes on from one step to another before it has a reply.
LEMMA GoesOn ==
    ASSUME IInv, NEW r \in Requests, NEW pc \in {"called", "asked", "granted", "denied"},
           req[r].pc \in {"mint", "called", "asked"}, Advance(r, pc),
           pc = "denied" => ~req[r].calm,
           UNCHANGED <<ws, admins, plan, handed>>
    PROVE  IInv'
<1> DEFINE new == [req[r] EXCEPT !.pc = pc]
<1>1. req[r] \in Pending
  BY PendingOrIdle DEF IInv
<1>2. new \in Pending
  BY <1>1 DEF Pending, Busy, Waiting
<1>3. Grounded(req[r]) /\ Settled(req[r])
  BY DEF IInv
<1>4. Grounded(new) /\ Settled(new)
  BY <1>1, <1>3 DEF Grounded, Settled, Pending, Busy, Waiting
<1>5. req' = [req EXCEPT ![r] = new]
  BY DEF Advance
<1> QED BY <1>2, <1>4, <1>5, OneMoves

-----------------------------------------------------------------------------
\* Both handlers begin with what the invariant asks for.
LEMMA Begins ==
    ASSUME IInv, NEW r \in Requests, NEW w \in Workers, NEW u \in Managers,
           NEW pc \in {"reserve", "mint"}, Begin(r, w, u, pc),
           pc = "reserve" <=> ws.id = NoAccount
    PROVE  IInv'
<1> DEFINE seen == IF ws.id = NoAccount THEN {} ELSE {plan[ws.id]}
           new == [Idle EXCEPT !.pc = pc, !.worker = w, !.caller = u, !.id = ws.id,
                        !.tier = ws.tier, !.early = (handed = {}), !.calm = TRUE,
                        !.seen = seen]
<1>1. ws \in Rows /\ (ws.id # NoAccount => ws.id \in Accounts /\ plan[ws.id] \in Plans)
  BY DEF IInv, TypeOK, Ids, Rows
<1>2. /\ new.pc = pc /\ new.worker = w /\ new.caller = u /\ new.id = ws.id
      /\ new.tier = ws.tier /\ new.early = (handed = {}) /\ new.calm = TRUE
      /\ new.seen = seen /\ new.reply = "none"
  BY DEF Idle
<1>3. new \in Pending
  <2>1. seen \in SUBSET Plans
    BY <1>1
  <2> HIDE DEF seen
  <2> QED BY <1>1, <2>1 DEF Idle, Pending, Busy, Replies, Rows
<1>4. req' = [req EXCEPT ![r] = new]
  BY DEF Begin
<1>5. ws.live /\ u \in admins /\ UNCHANGED <<ws, admins, plan, handed>>
  BY DEF Begin
<1>6. Grounded(new)
  <2>1. pc = "reserve" => new.early = TRUE
    BY DEF IInv, Idle
  <2> HIDE DEF new
  <2> QED BY <1>1, <1>2, <2>1 DEF Grounded, Busy, Waiting
<1>7. Settled(new)
  BY <1>2, <1>5 DEF Settled, Tiers
<1> HIDE DEF new
<1> QED BY <1>3, <1>4, <1>5, <1>6, <1>7, OneMoves

\* The resolver's reply is what its store holds at that moment.
LEMMA Replied ==
    ASSUME IInv, NEW r \in Requests, Reply(r)
    PROVE  IInv'
<1> DEFINE got == IF At(r, "granted") THEN PlanReply(plan[req[r].id]) ELSE "refused"
           new == [req[r] EXCEPT !.pc = "replied", !.reply = got]
<1>1. req[r] \in Pending
  BY PendingOrIdle DEF IInv, Reply
<1>2. Grounded(req[r]) /\ Settled(req[r])
  BY DEF IInv
<1>3. req[r].id \in Accounts /\ plan[req[r].id] \in req[r].seen /\ plan[req[r].id] \in Plans
  BY <1>2 DEF Reply, Grounded, Busy, Waiting, IInv, TypeOK
<1>4. got \in Replies \ {"none"}
  BY DEF PlanReply, Replies
<1>5. new \in Pending
  BY <1>1, <1>4 DEF Pending, Busy, Waiting
<1>6. Grounded(new)
  BY <1>1, <1>2, <1>3 DEF Grounded, PlanReply, Plans, Pending, Busy, Waiting, Tiers
<1>7. Settled(new)
  BY <1>1, <1>2 DEF Settled, PlanReply, Reply, At, Pending, Tiers
<1>8. req' = [req EXCEPT ![r] = new] /\ UNCHANGED <<ws, admins, plan, handed>>
  BY DEF Reply
<1> HIDE DEF new
<1> QED BY <1>5, <1>6, <1>7, <1>8, OneMoves

\* A write to the row: the requests that have read it are calm only if it
\* wrote what was there.
LEMMA Writes ==
    ASSUME IInv, NEW r \in Requests, NEW row \in Rows, Write(r, row),
           UNCHANGED <<admins, plan>>, row.live = ws.live,
           handed' \subseteq Accounts, ws'.id = NoAccount <=> handed' = {}
    PROVE  IInv'
<1>1. ws' \in Rows
  BY DEF Write, IInv, TypeOK, Rows
<1>2. ASSUME NEW q \in Requests
      PROVE  req'[q] \in Pending \cup {Idle} /\ Grounded(req[q])' /\ Settled(req[q])'
  <2>1. CASE q = r \/ req[q] = Idle
    <3>1. req'[q] = Idle
      BY <2>1 DEF Write, At, Idle
    <3> QED BY <3>1, IdleHoldsNext
  <2>2. CASE q # r /\ ws' = ws
    <3>1. req'[q] = req[q]
      BY <2>2 DEF Write
    <3> QED BY <2>2, <3>1 DEF IInv, TypeOK, Grounded, Settled
  <2>3. CASE q # r /\ req[q] # Idle /\ ws' # ws
    <3>1. req'[q] = [req[q] EXCEPT !.calm = FALSE]
      BY <2>3, PendingOrIdle DEF Write, At, IInv
    <3>2. req[q] \in Pending /\ Grounded(req[q])
      BY <2>3 DEF IInv, TypeOK
    <3>3. req'[q] \in Pending /\ ~req'[q].calm
      BY <3>1, <3>2 DEF Pending
    <3>4. Grounded(req[q])'
      BY <3>1, <3>2 DEF Grounded, Pending
    <3> QED BY <3>3, <3>4 DEF Settled
  <2> QED BY <2>1, <2>2, <2>3
<1>3. req' \in [Requests -> Pending \cup {Idle}]
  BY <1>2 DEF Write
<1>4. TypeOK'
  BY <1>1, <1>3 DEF IInv, TypeOK, Rows
<1> QED BY <1>2, <1>4 DEF IInv

\* What changes around the handlers leaves no request calm that it concerns.
LEMMA Unsettles ==
    ASSUME IInv, Unsettle, UNCHANGED <<plan, handed>>, ws' \in Rows, ws'.id = ws.id,
           admins' \subseteq Managers
    PROVE  IInv'
<1>1. ASSUME NEW q \in Requests
      PROVE  req'[q] \in Pending \cup {Idle} /\ Grounded(req[q])' /\ Settled(req[q])'
  <2>1. CASE req[q] = Idle
    <3>1. req'[q] = Idle
      BY <2>1 DEF Unsettle, At, Idle
    <3> QED BY <3>1, IdleHoldsNext
  <2>2. CASE req[q] # Idle
    <3>1. req'[q] = [req[q] EXCEPT !.calm = FALSE]
      BY <2>2, PendingOrIdle DEF Unsettle, At, IInv
    <3>2. req[q] \in Pending /\ Grounded(req[q])
      BY <2>2 DEF IInv, TypeOK
    <3>3. req'[q] \in Pending /\ ~req'[q].calm
      BY <3>1, <3>2 DEF Pending
    <3>4. Grounded(req[q])'
      BY <3>1, <3>2 DEF Grounded, Pending
    <3> QED BY <3>3, <3>4 DEF Settled
  <2> QED BY <2>1, <2>2
<1>2. req' \in [Requests -> Pending \cup {Idle}]
  BY <1>1 DEF Unsettle
<1>3. TypeOK'
  BY <1>2 DEF IInv, TypeOK, Rows
<1> QED BY <1>1, <1>3 DEF IInv

LEMMA PlansChange ==
    ASSUME IInv, NEW i \in Accounts, NEW p \in Plans, SetPlan(i, p)
    PROVE  IInv'
<1>1. plan' \in [Accounts -> Plans] /\ plan'[i] = p
      /\ \A a \in Accounts \ {i} : plan'[a] = plan[a]
  BY DEF SetPlan, IInv, TypeOK
<1>2. ASSUME NEW q \in Requests
      PROVE  req'[q] \in Pending \cup {Idle} /\ Grounded(req[q])' /\ Settled(req[q])'
  <2>1. CASE req[q].pc = "idle"
    <3>1. req'[q] = Idle
      BY <2>1, PendingOrIdle DEF SetPlan, IInv
    <3> QED BY <3>1, IdleHoldsNext
  <2>2. CASE req[q].pc # "idle" /\ req[q].id # i
    <3>1. req'[q] = req[q] /\ req[q] \in Pending
      BY <2>2, PendingOrIdle DEF SetPlan, IInv
    <3>2. Grounded(req[q]) /\ Settled(req[q])
      BY DEF IInv
    <3>3. Grounded(req[q])'
      BY <1>1, <2>2, <3>1, <3>2 DEF Grounded
    <3>4. req[q].reply \in Tiers => plan'[req[q].id] = plan[req[q].id]
      BY <1>1, <2>2, <3>2 DEF Grounded, Busy, Waiting, Tiers
    <3>5. ws' = ws /\ admins' = admins
      BY DEF SetPlan
    <3>6. Settled(req[q])'
      BY <3>1, <3>2, <3>4, <3>5 DEF Settled, PlanReply
    <3> QED BY <3>1, <3>3, <3>6
  <2>3. CASE req[q].pc # "idle" /\ req[q].id = i
    <3>1. req'[q] = [req[q] EXCEPT !.seen = @ \cup {p}, !.calm = FALSE]
          /\ req[q] \in Pending
      BY <2>3, PendingOrIdle DEF SetPlan, IInv
    <3>2. req'[q] \in Pending
      BY <3>1 DEF Pending
    <3>3. Grounded(req[q])
      BY DEF IInv
    <3> QED BY <1>1, <2>3, <3>1, <3>2, <3>3 DEF Grounded, Settled, Pending
  <2> QED BY <2>1, <2>2, <2>3
<1>3. req' \in [Requests -> Pending \cup {Idle}]
  BY <1>2 DEF SetPlan
<1>4. TypeOK'
  BY <1>1, <1>3 DEF SetPlan, IInv, TypeOK
<1> QED BY <1>2, <1>4 DEF SetPlan, IInv

-----------------------------------------------------------------------------
LEMMA InitInv == Init => IInv
<1> SUFFICES ASSUME Init PROVE IInv
  OBVIOUS
<1>1. TypeOK
  BY DEF Init, TypeOK, Ids, Tiers, Plans
<1> QED BY <1>1, IdleHolds DEF Init, IInv

LEMMA InvStep == IInv /\ [Next]_vars => IInv'
<1> SUFFICES ASSUME IInv, [Next]_vars PROVE IInv'
  OBVIOUS
<1>1. ASSUME NEW r \in Requests, NewRequest(r) PROVE IInv'
  BY <1>1, Begins DEF NewRequest, BeginInitialize, BeginReconcile
<1>2. ASSUME NEW r \in Requests, NEW i \in Accounts, Reserve(r, i) PROVE IInv'
  <2>1. ws \in Rows /\ handed \subseteq Accounts
    BY DEF IInv, TypeOK, Rows
  <2>2. [ws EXCEPT !.id = i] \in Rows /\ [ws EXCEPT !.id = i].live = ws.live
    BY <2>1 DEF Rows, Ids
  <2>3. ws'.id = IF ws.live THEN i ELSE ws.id
    BY <1>2, <2>1 DEF Reserve, Write, Rows
  <2>4. ws'.id = NoAccount <=> handed' = {}
    BY <1>2, <2>3, AccountsAssumption DEF Reserve, IInv, NoAccount
  <2>5. handed' \subseteq Accounts
    BY <1>2, <2>1 DEF Reserve
  <2> QED BY <1>2, <2>2, <2>4, <2>5, Writes DEF Reserve
<1>3. ASSUME NEW r \in Requests, Call(r) PROVE IInv'
  BY <1>3, GoesOn DEF Call, Resumes, At
<1>4. ASSUME NEW r \in Requests, Ask(r) PROVE IInv'
  BY <1>4, GoesOn DEF Ask, At
<1>5. ASSUME NEW r \in Requests, NEW w \in Workers, Authorize(r, w) PROVE IInv'
  <2>1. CASE Authorized(req[r].caller, req[r].id)
    BY <1>5, <2>1, GoesOn DEF Authorize, At
  <2>2. CASE ~Authorized(req[r].caller, req[r].id)
    <3>1. Settled(req[r])
      BY DEF IInv
    <3>2. ~req[r].calm
      BY <2>2, <3>1 DEF Authorized, Settled
    <3> QED BY <1>5, <2>2, <3>2, GoesOn DEF Authorize, At
  <2> QED BY <2>1, <2>2
<1>6. ASSUME NEW r \in Requests, Reply(r) PROVE IInv'
  BY <1>6, Replied
<1>7. ASSUME NEW r \in Requests, Resume(r) PROVE IInv'
  <2>1. CASE req[r].reply = "refused" \/ req[r].reply = req[r].tier
    BY <1>7, <2>1, Answered DEF Resume
  <2>2. CASE ~(req[r].reply = "refused" \/ req[r].reply = req[r].tier)
    <3> DEFINE new == [req[r] EXCEPT !.pc = "write"]
    <3>1. req[r] \in Pending
      BY <1>7, PendingOrIdle DEF IInv, Resume, At
    <3>2. Grounded(req[r]) /\ Settled(req[r])
      BY DEF IInv
    <3>3. req[r].reply \in Tiers
      BY <1>7, <2>2, <3>1, <3>2 DEF Resume, At, Grounded, Pending, Replies, Tiers
    <3>4. new \in Pending
      BY <3>1 DEF Pending, Busy
    <3>5. Grounded(new) /\ Settled(new)
      BY <1>7, <3>1, <3>2, <3>3 DEF Resume, At, Grounded, Settled, Pending, Busy, Waiting
    <3>6. req' = [req EXCEPT ![r] = new] /\ UNCHANGED <<ws, admins, plan, handed>>
      BY <1>7, <2>2 DEF Resume, Advance
    <3> HIDE DEF new
    <3> QED BY <3>4, <3>5, <3>6, OneMoves
  <2> QED BY <2>1, <2>2
<1>8. ASSUME NEW r \in Requests, GiveUp(r) PROVE IInv'
  BY <1>8, Answered DEF GiveUp
<1>9. ASSUME NEW r \in Requests, WriteTier(r) PROVE IInv'
  <2>1. req[r].reply \in Tiers /\ ws \in Rows
    BY <1>9 DEF WriteTier, Resumes, At, IInv, Grounded, TypeOK, Rows
  <2>2. [ws EXCEPT !.tier = req[r].reply] \in Rows
        /\ [ws EXCEPT !.tier = req[r].reply].live = ws.live
        /\ [ws EXCEPT !.tier = req[r].reply].id = ws.id
    BY <2>1 DEF Rows
  <2>3. ws'.id = ws.id /\ handed' = handed
    BY <1>9, <2>2 DEF WriteTier, Write
  <2> QED BY <1>9, <2>2, <2>3, Writes DEF WriteTier, IInv, TypeOK
<1>10. ASSUME NEW i \in Accounts, NEW p \in Plans, SetPlan(i, p) PROVE IInv'
  BY <1>10, PlansChange
<1>11. ASSUME NEW A \in SUBSET Managers, SetAdmins(A) PROVE IInv'
  BY <1>11, Unsettles DEF SetAdmins, IInv, TypeOK, Rows
<1>12. CASE DeleteWorkspace
  <2>1. ws \in Rows
    BY DEF IInv, TypeOK, Rows
  <2>2. ws' \in Rows /\ ws'.id = ws.id
    BY <1>12, <2>1 DEF DeleteWorkspace, Rows
  <2> QED BY <1>12, <2>2, Unsettles DEF DeleteWorkspace, IInv, TypeOK
<1>13. CASE UNCHANGED vars
  BY <1>13 DEF vars, IInv, TypeOK, Grounded, Settled
<1> QED
  BY <1>1, <1>2, <1>3, <1>4, <1>5, <1>6, <1>7, <1>8, <1>9, <1>10, <1>11, <1>12, <1>13
     DEF Next, ServerStep, Resolver, Environment

\* In every behaviour requests are grounded in what the resolver's store held,
\* and an id that was given out is the workspace's or was replaced by another
\* (services.py:129-210).
THEOREM Invariance == Spec => []IInv
<1> QED BY InitInv, InvStep, PTL DEF Spec

\* Values keep their types, for any instance (models.py:64-77).
THEOREM TypeCorrect == Spec => []TypeOK
<1>1. IInv => TypeOK
  BY DEF IInv
<1> QED BY <1>1, Invariance, PTL

-----------------------------------------------------------------------------
(* Which steps change the row, and how. *)

LEMMA RowChanges ==
    ASSUME IInv, [Next]_vars, ws' # ws
    PROVE  \/ \E r \in Requests, i \in Accounts :
                 Reserve(r, i) /\ ws' = [ws EXCEPT !.id = i]
           \/ \E r \in Requests :
                 WriteTier(r) /\ ws' = [ws EXCEPT !.tier = req[r].reply]
           \/ DeleteWorkspace
<1>1. ASSUME NEW r \in Requests, NewRequest(r) PROVE ws' = ws
  BY <1>1 DEF NewRequest, BeginInitialize, BeginReconcile, Begin
<1>2. ASSUME NEW r \in Requests, Resolver(r) \/ \E w \in Workers : Authorize(r, w)
      PROVE  ws' = ws
  BY <1>2 DEF Resolver, Ask, Reply, Authorize
<1>3. ASSUME NEW r \in Requests, NEW i \in Accounts, Reserve(r, i)
      PROVE  ws' = [ws EXCEPT !.id = i] \/ ws' = ws
  BY <1>3 DEF Reserve, Write
<1>4. ASSUME NEW r \in Requests, WriteTier(r)
      PROVE  ws' = [ws EXCEPT !.tier = req[r].reply] \/ ws' = ws
  BY <1>4 DEF WriteTier, Write
<1>5. ASSUME NEW r \in Requests, Call(r) \/ Resume(r) \/ GiveUp(r) PROVE ws' = ws
  BY <1>5 DEF Call, Resume, GiveUp
<1>6. ASSUME NEW i \in Accounts, NEW p \in Plans, SetPlan(i, p) PROVE ws' = ws
  BY <1>6 DEF SetPlan
<1>7. ASSUME NEW A \in SUBSET Managers, SetAdmins(A) PROVE ws' = ws
  BY <1>7 DEF SetAdmins
<1>8. CASE UNCHANGED vars
  BY <1>8 DEF vars
<1> QED
  BY <1>1, <1>2, <1>3, <1>4, <1>5, <1>6, <1>7, <1>8 DEF Next, ServerStep, Environment

LEMMA WriterIsAnswered ==
    ASSUME TypeOK, NEW r \in Requests, NEW pc \in Busy, At(r, pc), req'[r] = Idle
    PROVE  req'[r] # req[r]
BY DEF At, Idle, Busy, Waiting

\* Pro needs a plan that was active since the reconciliation began, and losing
\* it one that was not, however many requests overlap (services.py:178-210).
THEOREM TierFollows == Spec => TierIsFresh
<1>1. ASSUME IInv, [Next]_vars, ws'.tier # ws.tier
      PROVE  \E r \in Requests :
                /\ req'[r] # req[r]
                /\ (IF ws'.tier = "pro" THEN "active" ELSE "inactive") \in req[r].seen
  <2>1. ws \in Rows
    BY <1>1 DEF IInv, TypeOK, Rows
  <2>2. ASSUME NEW i \in Accounts, ws' = [ws EXCEPT !.id = i] PROVE FALSE
    BY <1>1, <2>1, <2>2 DEF Rows
  <2>3. ~DeleteWorkspace
    BY <1>1, <2>1 DEF DeleteWorkspace, Rows
  <2>4. PICK r \in Requests : WriteTier(r) /\ ws' = [ws EXCEPT !.tier = req[r].reply]
    BY <1>1, <2>2, <2>3, RowChanges
  <2>5. Grounded(req[r]) /\ At(r, "write")
    BY <1>1, <2>4 DEF IInv, WriteTier, Resumes
  <2>6. ws'.tier = req[r].reply /\ req[r].reply \in Tiers
    BY <2>1, <2>4, <2>5 DEF Rows, Grounded, At
  <2>7. (IF ws'.tier = "pro" THEN "active" ELSE "inactive") \in req[r].seen
    BY <2>5, <2>6 DEF Grounded, Tiers
  <2>8. req'[r] = Idle
    BY <2>4 DEF WriteTier, Write
  <2>9. req'[r] # req[r]
    BY <1>1, <2>5, <2>8, WriterIsAnswered DEF IInv, Busy
  <2> QED BY <2>7, <2>9
<1> QED BY <1>1, Invariance, PTL DEF Spec, TierIsFresh

\* Once an id was given out, only requests that began before can replace it
\* (services.py:136-149).
THEOREM IdStays == Spec => LaterRequestsKeepTheId
<1>1. ASSUME IInv, [Next]_vars, ws'.id # ws.id
      PROVE  \E r \in Requests : req'[r] # req[r] /\ req[r].early
  <2>1. ws \in Rows
    BY <1>1 DEF IInv, TypeOK, Rows
  <2>2. ASSUME NEW r \in Requests, ws' = [ws EXCEPT !.tier = req[r].reply] PROVE FALSE
    BY <1>1, <2>1, <2>2 DEF Rows
  <2>3. ~DeleteWorkspace
    BY <1>1, <2>1 DEF DeleteWorkspace, Rows
  <2>4. PICK r \in Requests, i \in Accounts : Reserve(r, i)
    BY <1>1, <2>2, <2>3, RowChanges
  <2>5. Grounded(req[r]) /\ At(r, "reserve")
    BY <1>1, <2>4 DEF IInv, Reserve, Resumes
  <2>6. req[r].early
    BY <2>5 DEF Grounded, At
  <2>7. req'[r] = Idle
    BY <2>4 DEF Reserve, Write
  <2>8. req'[r] # req[r]
    BY <1>1, <2>5, <2>7, WriterIsAnswered DEF IInv, Busy
  <2> QED BY <2>6, <2>8
<1> QED BY <1>1, Invariance, PTL DEF Spec, LaterRequestsKeepTheId

\* A request with a reply is answered by its own step.
LEMMA OwnStepAnswers ==
    ASSUME IInv, [Next]_vars, NEW r \in Requests, req[r] \in Pending,
           req[r].pc \in {"replied", "write"}, req'[r] = Idle
    PROVE  Resume(r) \/ WriteTier(r)
<1> SUFFICES ASSUME ~Resume(r), ~WriteTier(r) PROVE FALSE
  OBVIOUS
<1>1. req[r] # Idle /\ req[r].pc # "idle"
  BY DEF Idle
<1>2. \A x \in {TRUE, FALSE} : [req[r] EXCEPT !.calm = x].pc # "idle"
  BY <1>1 DEF Pending
<1>3. ASSUME NEW q \in Requests, q # r, NEW new, req' = [req EXCEPT ![q] = new]
      PROVE  FALSE
  BY <1>1, <1>3 DEF IInv, TypeOK
<1>4. ASSUME NEW q \in Requests, q # r, NEW row, Write(q, row) PROVE FALSE
  <2>1. req'[r] \in {req[r], [req[r] EXCEPT !.calm = FALSE]}
    BY <1>4 DEF Write
  <2> QED BY <1>1, <1>2, <2>1 DEF Idle
<1>5. ASSUME NEW q \in Requests, NewRequest(q) PROVE FALSE
  <2>1. q # r
    BY <1>1, <1>5 DEF NewRequest, BeginInitialize, BeginReconcile, Begin, At
  <2> QED BY <1>3, <1>5, <2>1 DEF NewRequest, BeginInitialize, BeginReconcile, Begin
<1>6. ASSUME NEW q \in Requests, NEW i \in Accounts, Reserve(q, i) PROVE FALSE
  BY <1>4, <1>6 DEF Reserve, Resumes, At
<1>7. ASSUME NEW q \in Requests, Call(q) \/ Ask(q) \/ GiveUp(q) PROVE FALSE
  <2>1. q # r
    BY <1>7 DEF Call, Ask, GiveUp, Resumes, At, Waiting
  <2>2. req'[r] = req[r]
    BY <1>7, <2>1 DEF Call, Ask, GiveUp, Advance, Answer, IInv, TypeOK
  <2> QED BY <1>1, <2>2
<1>8. ASSUME NEW q \in Requests, NEW w \in Workers, Authorize(q, w) PROVE FALSE
  <2>1. q # r
    BY <1>8 DEF Authorize, At
  <2>2. req'[r] = req[r]
    BY <1>8, <2>1 DEF Authorize, Advance, IInv, TypeOK
  <2> QED BY <1>1, <2>2
<1>9. ASSUME NEW q \in Requests, Reply(q) PROVE FALSE
  <2>1. q # r
    BY <1>9 DEF Reply
  <2>2. req'[r] = req[r]
    BY <1>9, <2>1 DEF Reply, IInv, TypeOK
  <2> QED BY <1>1, <2>2
<1>10. ASSUME NEW q \in Requests, Resume(q) PROVE FALSE
  <2>1. q # r
    BY <1>10
  <2>2. req'[r] = req[r]
    BY <1>10, <2>1 DEF Resume, Advance, Answer, IInv, TypeOK
  <2> QED BY <1>1, <2>2
<1>11. ASSUME NEW q \in Requests, WriteTier(q) PROVE FALSE
  BY <1>4, <1>11 DEF WriteTier
<1>12. ASSUME NEW i \in Accounts, NEW p \in Plans, SetPlan(i, p) PROVE FALSE
  <2>1. req'[r] \in {req[r], [req[r] EXCEPT !.seen = @ \cup {p}, !.calm = FALSE]}
    BY <1>12 DEF SetPlan
  <2>2. [req[r] EXCEPT !.seen = @ \cup {p}, !.calm = FALSE].pc # "idle"
    BY <1>1 DEF Pending
  <2>3. Idle.pc = "idle"
    BY DEF Idle
  <2> QED BY <1>1, <2>1, <2>2, <2>3
<1>13. ASSUME Unsettle PROVE FALSE
  <2>1. req'[r] = [req[r] EXCEPT !.calm = FALSE]
    BY <1>1, <1>13 DEF Unsettle, At
  <2> QED BY <1>2, <2>1 DEF Idle
<1>14. CASE UNCHANGED vars
  BY <1>1, <1>14 DEF vars
<1> QED
  BY <1>5, <1>6, <1>7, <1>8, <1>9, <1>10, <1>11, <1>12, <1>13, <1>14
     DEF Next, ServerStep, Resolver, Environment, SetAdmins, DeleteWorkspace

\* A reconciliation that nothing disturbs is not refused and leaves the tier
\* that goes with the plan (services.py:162-210, views.py:562-590).
THEOREM CalmMirrors == Spec => CalmReconcileMirrors
<1>1. ASSUME IInv, [Next]_vars, NEW r \in Requests,
             req[r].calm, req[r].reply # "none", req'[r] = Idle
      PROVE  /\ req[r].reply # "refused"
             /\ ws'.tier = "pro" <=> plan[req[r].id] = "active"
  <2>1. Grounded(req[r]) /\ Settled(req[r]) /\ req[r].pc \in {"replied", "write"}
    BY <1>1 DEF IInv, Grounded
  <2>2. req[r] \in Pending /\ ws \in Rows /\ req[r] # Idle
    BY <1>1, <2>1, PendingOrIdle DEF IInv, TypeOK, Rows, Idle
  <2>3. req[r].reply \in Tiers /\ req[r].reply # "refused"
        /\ req[r].reply = PlanReply(plan[req[r].id])
    BY <1>1, <2>1, <2>2 DEF Settled, Pending, Replies, Tiers
  <2>4. req[r].reply = "pro" <=> plan[req[r].id] = "active"
    BY <2>3 DEF PlanReply
  <2>5. ws'.tier = req[r].reply
    <3>1. CASE Resume(r)
      <4>1. req[r].reply = req[r].tier
        <5>1. CASE ~(req[r].reply = "refused" \/ req[r].reply = req[r].tier)
          <6>1. req'[r] = [req[r] EXCEPT !.pc = "write"]
            BY <1>1, <3>1, <5>1 DEF Resume, Advance, IInv, TypeOK
          <6> QED BY <1>1, <2>2, <6>1 DEF Pending, Idle
        <5> QED BY <2>3, <5>1
      <4> QED BY <1>1, <2>1, <3>1, <4>1 DEF Resume, Settled
    <3>2. CASE WriteTier(r)
      BY <1>1, <2>1, <2>2, <3>2 DEF WriteTier, Write, Settled, Rows
    <3>3. Resume(r) \/ WriteTier(r)
      BY <1>1, <2>1, <2>2, OwnStepAnswers
    <3> QED BY <3>1, <3>2, <3>3
  <2> QED BY <2>3, <2>4, <2>5
<1>2. IInv /\ [Next]_vars =>
        [\A r \in Requests :
            /\ req[r].calm /\ req[r].reply # "none" /\ req'[r] = Idle
            => /\ req[r].reply # "refused"
               /\ ws'.tier = "pro" <=> plan[req[r].id] = "active"]_vars
  BY <1>1
<1> QED BY <1>2, Invariance, PTL DEF Spec, CalmReconcileMirrors
=============================================================================
