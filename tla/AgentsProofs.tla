---------------------------- MODULE AgentsProofs ----------------------------
(* Proofs about Agents, for any workspaces, projects, agents, tokens and      *)
(* requests.                                                                  *)
EXTENDS Agents, TLAPS

\* What no step may do to the tokens: bring a dead one back, or give one to
\* another agent.
Keeps ==
    /\ born \subseteq born'
    /\ Dead \subseteq Dead'
    /\ \A t \in Tokens \cap born :
          token'[t] = NoToken \/ (token[t] # NoToken /\ token'[t].of = token[t].of)

LEMMA KeptWithoutWrites ==
    ASSUME UNCHANGED db
    PROVE  Keeps
BY DEF db, Keeps, Dead

\* The request that has nothing to do is sound.
LEMMA IdleIsSound ==
    ASSUME NEW r \in Requests, req[r] = Idle
    PROVE  Sound(req[r])
BY DEF Sound, Idle

\* What a request has to delete are tokens.
LEMMA SeenAreTokens ==
    ASSUME TypeOK, NEW r \in Requests
    PROVE  req[r].seen \subseteq Tokens
BY DEF TypeOK, Pending, Idle

\* A request that does not move stays sound while the tokens are kept.
LEMMA SoundStays ==
    ASSUME TypeOK, NEW r \in Requests, Sound(req[r]), Keeps, req'[r] = req[r]
    PROVE  Sound(req[r])'
<1>1. \A t \in req[r].seen : t \in born /\ (token[t] = NoToken \/ token[t].of = req[r].a)
         => t \in born' /\ (token'[t] = NoToken \/ token'[t].of = req[r].a)
  BY SeenAreTokens DEF Keeps
<1>2. req[r].seen \subseteq Dead => req[r].seen \subseteq Dead'
  BY DEF Keeps
<1>q. QED  BY <1>1, <1>2 DEF Sound

\* A step that only moves one request.
LEMMA RequestStep ==
    ASSUME IInv, UNCHANGED db, NEW r \in Requests,
           req' = [req EXCEPT ![r] = req'[r]],
           req'[r] \in Pending \cup {Idle}, Sound(req[r])'
    PROVE  IInv' /\ Keeps
<1>1. TypeOK'  BY DEF IInv, TypeOK, db
<1>2. TokensHaveAgents' /\ RowsAreBorn'
  BY DEF IInv, TokensHaveAgents, RowsAreBorn, db
<1>3. ASSUME NEW q \in Requests \ {r} PROVE Sound(req[q])'
  <2>1. req'[q] = req[q]  BY DEF IInv, TypeOK
  <2>q. QED  BY <2>1, KeptWithoutWrites, SoundStays DEF IInv
<1>q. QED  BY <1>1, <1>2, <1>3, KeptWithoutWrites DEF IInv

\* A step that writes, and ends at most one request.
LEMMA WriteStep ==
    ASSUME IInv, TypeOK', TokensHaveAgents', RowsAreBorn', Keeps,
           \A q \in Requests : req'[q] \in {req[q], Idle}
    PROVE  IInv' /\ Keeps
<1>1. ASSUME NEW q \in Requests PROVE Sound(req[q])'
  <2>1. CASE req'[q] = req[q]  BY <2>1, SoundStays DEF IInv
  <2>2. CASE req'[q] = Idle
    BY <2>2 DEF Sound, Idle
  <2>q. QED  BY <2>1, <2>2
<1>q. QED  BY <1>1 DEF IInv

-----------------------------------------------------------------------------
LEMMA InitIInv == Init => IInv
<1> SUFFICES ASSUME Init PROVE IInv  OBVIOUS
<1>1. TypeOK  BY HomeAssumption DEF Init, TypeOK
<1>2. TokensHaveAgents /\ RowsAreBorn
  BY DEF Init, TokensHaveAgents, RowsAreBorn
<1>3. \A r \in Requests : Sound(req[r])  BY IdleIsSound DEF Init
<1>q. QED  BY <1>1, <1>2, <1>3 DEF IInv

\* The requests that begin.
LEMMA NewRequestStep ==
    ASSUME IInv, NEW r \in Requests, NewRequest(r)
    PROVE  IInv' /\ Keeps
<1> USE DEF Start, At
<1>0. TypeOK /\ UNCHANGED db /\ req' = [req EXCEPT ![r] = req'[r]]
  BY DEF IInv, TypeOK, NewRequest, BeginCreateAgent, BeginCreateToken,
         BeginDeleteTokens, BeginDeleteAgent, BeginDeleteToken, BeginUse
<1>a. \A a : TokensOf(a) \subseteq Tokens
  BY DEF TokensOf
<1>b. \A a : \A t \in TokensOf(a) : t \in born /\ token[t].of = a
  BY DEF TokensOf, IInv, RowsAreBorn
<1>c. Dead \subseteq Tokens /\ Dead' = Dead /\ token' = token /\ born' = born
  BY <1>0 DEF Dead, db
<1>d. NoToken \in {NoToken} /\ NoAgent \in {NoAgent}  OBVIOUS
<1>1. ASSUME NEW w \in Workspaces, NEW p \in Projects \cup {"none"},
             BeginCreateAgent(r, w, p)
      PROVE  req'[r] \in Pending /\ Sound(req[r])'
  <2>1. req'[r] = [Idle EXCEPT !.pc = "insert_agent", !.ws = w, !.project = p]
    BY <1>0, <1>1 DEF BeginCreateAgent, TypeOK
  <2>q. QED  BY <2>1 DEF Pending, Idle, Sound
<1>2. ASSUME NEW w \in Workspaces, NEW a \in Agents, BeginCreateToken(r, w, a)
      PROVE  req'[r] \in Pending /\ Sound(req[r])'
  <2>1. req'[r] = [Idle EXCEPT !.pc = "insert_token", !.ws = w, !.a = a]
    BY <1>0, <1>2 DEF BeginCreateToken, TypeOK
  <2>q. QED  BY <2>1 DEF Pending, Idle, Sound
<1>3. ASSUME NEW w \in Workspaces, NEW a \in Agents, BeginDeleteTokens(r, w, a)
      PROVE  req'[r] \in Pending /\ Sound(req[r])'
  <2>1. req'[r] = [Idle EXCEPT !.pc = "drop_all", !.a = a, !.seen = TokensOf(a)]
    BY <1>0, <1>3 DEF BeginDeleteTokens, TypeOK
  <2>2. PICK S \in SUBSET Tokens :
           /\ req'[r] = [Idle EXCEPT !.pc = "drop_all", !.a = a, !.seen = S]
           /\ \A t \in S : t \in born /\ token[t].of = a
    BY <1>a, <1>b, <2>1
  <2>3. req'[r] \in Pending  BY <2>2 DEF Pending, Idle
  <2>4. Sound(req[r])'  BY <1>c, <2>2 DEF Idle, Sound
  <2>q. QED  BY <2>3, <2>4
<1>4. ASSUME NEW w \in Workspaces, NEW a \in Agents, BeginDeleteAgent(r, w, a)
      PROVE  req'[r] \in Pending /\ Sound(req[r])'
  <2>1. req'[r] = [Idle EXCEPT !.pc = "find_agent", !.ws = w, !.a = a,
                               !.seen = TokensOf(a)]
    BY <1>0, <1>4 DEF BeginDeleteAgent, TypeOK
  <2>2. PICK S \in SUBSET Tokens :
           /\ req'[r] = [Idle EXCEPT !.pc = "find_agent", !.ws = w, !.a = a, !.seen = S]
           /\ \A t \in S : t \in born /\ token[t].of = a
    BY <1>a, <1>b, <2>1
  <2>3. req'[r] \in Pending  BY <2>2 DEF Pending, Idle
  <2>4. Sound(req[r])'  BY <1>c, <2>2 DEF Idle, Sound
  <2>q. QED  BY <2>3, <2>4
<1>5. ASSUME NEW w \in Workspaces, NEW a \in Agents, NEW t \in Tokens,
             BeginDeleteToken(r, w, a, t)
      PROVE  req'[r] \in Pending /\ Sound(req[r])'
  <2>1. req'[r] = [Idle EXCEPT !.pc = "find_token", !.a = a, !.t = t, !.seen = {t}]
    BY <1>0, <1>5 DEF BeginDeleteToken, TypeOK
  <2>2. PICK S \in SUBSET Tokens :
           /\ S = {t}
           /\ req'[r] = [Idle EXCEPT !.pc = "find_token", !.a = a, !.t = t, !.seen = S]
    BY <2>1
  <2>3. req'[r] \in Pending  BY <2>2 DEF Pending, Idle
  <2>4. Sound(req[r])'  BY <2>2 DEF Idle, Sound
  <2>q. QED  BY <2>3, <2>4
<1>6. ASSUME NEW pc \in {"verify", "deliver"}, NEW t \in Tokens, BeginUse(r, pc, t)
      PROVE  req'[r] \in Pending /\ Sound(req[r])'
  <2>1. req'[r] = [Idle EXCEPT !.pc = pc, !.t = t, !.seen = Dead \cap {t}]
    BY <1>0, <1>6 DEF BeginUse, TypeOK
  <2>q. QED  BY <1>c, <2>1 DEF Pending, Idle, Sound
<1>q. QED
  BY <1>0, <1>1, <1>2, <1>3, <1>4, <1>5, <1>6, RequestStep DEF NewRequest

-----------------------------------------------------------------------------
\* The lookups, which end the request or let it go on.
LEMMA LookupStep ==
    ASSUME IInv, NEW r \in Requests,
           \/ FindToken(r) \/ FindAgent(r) \/ ReadVerified(r) \/ Use(r)
           \/ ReadDelivered(r) \/ ReadSecrets(r) \/ ReadAllowlist(r)
    PROVE  IInv' /\ Keeps
<1> USE DEF At
<1>0. TypeOK /\ UNCHANGED db /\ req' = [req EXCEPT ![r] = req'[r]]
  BY DEF IInv, TypeOK, FindToken, FindAgent, ReadVerified, Use, ReadDelivered,
         ReadSecrets, ReadAllowlist, GoOn, Answer
<1>1. req[r].pc # "idle" /\ req[r] \in Pending /\ Sound(req[r])
  <2>1. req[r].pc # "idle"
    BY DEF FindToken, FindAgent, ReadVerified, Use, ReadDelivered, ReadSecrets,
           ReadAllowlist
  <2>2. req[r] # Idle  BY <2>1 DEF Idle
  <2>q. QED  BY <2>1, <2>2 DEF IInv, TypeOK
<1>2. token' = token /\ born' = born /\ Dead' = Dead
  BY <1>0 DEF db, Dead
<1>3. CASE req'[r] = Idle
  BY <1>0, <1>3, RequestStep DEF Sound, Idle
<1>4. CASE req'[r] # Idle
  <2>1. CASE FindToken(r)
    <3>1. req'[r] = [req[r] EXCEPT !.pc = "drop_token"]
      BY <1>0, <1>4, <2>1 DEF FindToken, GoOn, TypeOK
    <3>q. QED  BY <1>0, <1>1, <1>2, <2>1, <3>1, RequestStep DEF FindToken, Pending, Sound
  <2>2. CASE FindAgent(r)
    <3>1. req'[r] = [req[r] EXCEPT !.pc = "drop_agent"]
      BY <1>0, <1>4, <2>2 DEF FindAgent, GoOn, TypeOK
    <3>q. QED  BY <1>0, <1>1, <1>2, <2>2, <3>1, RequestStep DEF FindAgent, Pending, Sound
  <2>3. CASE Use(r)
    <3>1. req'[r] = [req[r] EXCEPT !.pc = "allowlist"]
      BY <1>0, <1>4, <2>3 DEF Use, GoOn, TypeOK
    <3>q. QED  BY <1>0, <1>1, <1>2, <2>3, <3>1, RequestStep DEF Use, Pending, Sound
  <2>4. ASSUME req[r].pc \in {"verify", "deliver"}, Honoured(req[r].t),
               NEW pc \in {"use", "secrets"}, NEW row \in Token \cup {NoToken},
               NEW reg \in Agent \cup {NoAgent}, pc = "secrets" => reg.reads,
               req'[r] = [req[r] EXCEPT !.pc = pc, !.row = row, !.reg = reg]
        PROVE  IInv' /\ Keeps
    <3>1. req[r].t \in Tokens /\ req[r].seen \subseteq Dead /\ req[r].out = {}
      BY <1>1, <2>4 DEF Sound
    <3>2. req[r].t \notin Dead
      BY <2>4 DEF Honoured, Dead
    <3>3. req'[r] \in Pending
      BY <1>1, <2>4 DEF Pending
    <3>4. Sound(req[r])'
      BY <1>1, <1>2, <2>4, <3>1, <3>2 DEF Pending, Sound
    <3>q. QED  BY <1>0, <3>3, <3>4, RequestStep
  <2>5. CASE ReadVerified(r)
    <3> DEFINE row == token[req[r].t]
    <3>1. Honoured(req[r].t) /\ req'[r] = [req[r] EXCEPT !.pc = "use", !.row = row]
      BY <1>0, <1>4, <2>5 DEF ReadVerified, GoOn, TypeOK
    <3>2. req[r].pc = "verify" /\ row \in Token \cup {NoToken}
      BY <1>0, <1>1, <2>5 DEF ReadVerified, TypeOK, Sound
    <3>3. /\ req[r].reg \in Agent \cup {NoAgent}
          /\ req'[r] = [req[r] EXCEPT !.pc = "use", !.row = row, !.reg = req[r].reg]
      BY <1>1, <3>1 DEF Pending
    <3>q. QED  BY <2>4, <3>1, <3>2, <3>3
  <2>6. CASE ReadDelivered(r)
    <3> DEFINE reg == agent[token[req[r].t].of]
    <3>1. /\ Honoured(req[r].t) /\ reg.reads
          /\ req'[r] = [req[r] EXCEPT !.pc = "secrets", !.reg = reg]
      BY <1>0, <1>4, <2>6 DEF ReadDelivered, GoOn, TypeOK
    <3>2. req[r].pc = "deliver" /\ reg \in Agent \cup {NoAgent}
      BY <1>0, <1>1, <2>6, <3>1 DEF ReadDelivered, TypeOK, Sound, Honoured, Token
    <3>3. /\ req[r].row \in Token \cup {NoToken}
          /\ req'[r] = [req[r] EXCEPT !.pc = "secrets", !.row = req[r].row, !.reg = reg]
      BY <1>1, <3>1 DEF Pending
    <3>q. QED  BY <2>4, <3>1, <3>2, <3>3
  <2>7. CASE ReadSecrets(r)
    <3>1. req'[r] = [req[r] EXCEPT !.pc = "allowlist", !.out = InScope(req[r].reg)]
      BY <1>0, <2>7 DEF ReadSecrets, GoOn, TypeOK
    <3>2. InScope(req[r].reg) \in SUBSET Projects
      BY DEF InScope
    <3>3. \/ InScope(req[r].reg) = {} \/ req[r].reg.project = "none"
          \/ InScope(req[r].reg) = {req[r].reg.project}
      BY DEF InScope
    <3>4. req'[r] \in Pending
      BY <1>1, <3>1, <3>2 DEF Pending
    <3>5. Sound(req[r])'
      BY <1>1, <1>2, <2>7, <3>1, <3>3 DEF ReadSecrets, Pending, Sound
    <3>q. QED  BY <1>0, <3>4, <3>5, RequestStep
  <2>8. CASE ReadAllowlist(r)
    BY <1>0, <1>4, <2>8 DEF ReadAllowlist, Answer, TypeOK
  <2>q. QED  BY <2>1, <2>2, <2>3, <2>5, <2>6, <2>7, <2>8
<1>q. QED  BY <1>3, <1>4

-----------------------------------------------------------------------------
(* The writes.  Each keeps the tokens and leaves no row without its parents. *)

\* Taking agents and tokens away leaves no row without its parents, unless
\* parents go that are still needed.
LEMMA RemovalStep ==
    ASSUME IInv, TypeOK', UNCHANGED born, live' \subseteq live,
           \A q \in Requests : req'[q] \in {req[q], Idle},
           \A a \in Agents :
              agent'[a] # NoAgent =>
                   /\ agent'[a] = agent[a]
                   /\ agent[a].ws \in live'
                   /\ agent[a].project \in live' \cup {"none"},
           \A t \in Tokens :
              token'[t] # NoToken =>
                   /\ token'[t] = token[t]
                   /\ agent'[token[t].of] # NoAgent
                   /\ token[t].ws \in live'
    PROVE  IInv' /\ Keeps
<1>1. TokensHaveAgents' /\ RowsAreBorn'
  BY DEF IInv, TypeOK, TokensHaveAgents, RowsAreBorn, Token
<1>2. Keeps
  BY DEF IInv, Keeps, Dead
<1>q. QED  BY <1>1, <1>2, WriteStep

\* Without(gone), in words of the rows that are left.
LEMMA WithoutLeaves ==
    ASSUME IInv, NEW gone \in SUBSET Agents, Without(gone)
    PROVE  /\ agent' \in [Agents -> Agent \cup {NoAgent}]
           /\ token' \in [Tokens -> Token \cup {NoToken}]
           /\ \A a \in Agents : agent'[a] = NoAgent \/ (agent'[a] = agent[a] /\ a \notin gone)
           /\ \A t \in Tokens :
                 token'[t] # NoToken =>
                      /\ token'[t] = token[t]
                      /\ agent'[token[t].of] # NoAgent
                      /\ token[t].ws \in live
<1>1. /\ agent' \in [Agents -> Agent \cup {NoAgent}]
      /\ token' \in [Tokens -> Token \cup {NoToken}]
  <2>1. agent \in [Agents -> Agent \cup {NoAgent}] /\ token \in [Tokens -> Token \cup {NoToken}]
    BY DEF IInv, TypeOK
  <2>2. agent' \in [Agents -> Agent \cup {NoAgent}]
    BY <2>1, ZenonT(30) DEF Without
  <2>3. token' \in [Tokens -> Token \cup {NoToken}]
    BY <2>1, ZenonT(30) DEF Without
  <2>q. QED  BY <2>2, <2>3
<1>2. \A a \in Agents : agent'[a] = NoAgent \/ (agent'[a] = agent[a] /\ a \notin gone)
  BY DEF Without
<1>3. ASSUME NEW t \in Tokens, token'[t] # NoToken
      PROVE  /\ token'[t] = token[t] /\ agent'[token[t].of] # NoAgent
             /\ token[t].ws \in live
  <2>1. token'[t] = token[t] /\ token[t].of \notin gone
    BY <1>3 DEF Without
  <2>2. /\ token[t].of \in Agents /\ agent[token[t].of] # NoAgent
        /\ token[t].ws \in live
    BY <1>3, <2>1 DEF IInv, TypeOK, TokensHaveAgents, Token
  <2>3. agent'[token[t].of] = agent[token[t].of]
    BY <2>1, <2>2 DEF Without
  <2>q. QED  BY <2>1, <2>2, <2>3
<1>q. QED  BY <1>1, <1>2, <1>3

\* InsertAgent: two rows with new keys, under what exists.
LEMMA InsertAgentStep ==
    ASSUME IInv, NEW r \in Requests, NEW a \in Agents, NEW t \in Tokens,
           NEW reads \in BOOLEAN, InsertAgent(r, a, t, reads)
    PROVE  IInv' /\ Keeps
<1>0. /\ TypeOK /\ At(r, "insert_agent") /\ req' = [req EXCEPT ![r] = Idle]
      /\ UNCHANGED <<live, home>>
      /\ \A q \in Requests : req'[q] \in {req[q], Idle}
  BY DEF IInv, TypeOK, InsertAgent, Answer
<1>1. CASE UNCHANGED <<agent, token, born>>
  BY <1>0, <1>1, RequestStep, IdleIsSound DEF db, TypeOK, Sound, Idle
<1>2. CASE /\ req[r].ws \in live /\ req[r].project \in live \cup {"none"}
           /\ {a, t} \cap born = {}
           /\ agent' = [agent EXCEPT ![a] = [ws |-> req[r].ws,
                                             project |-> req[r].project,
                                             reads |-> reads]]
           /\ token' = [token EXCEPT ![t] = [of |-> a, ws |-> req[r].ws, void |-> FALSE]]
           /\ born' = born \cup {a, t}
  <2>1. req[r] \in Pending /\ req[r].ws \in Workspaces
    BY <1>0 DEF IInv, TypeOK, At, Idle, Sound
  <2>2. req[r].project \in Projects \cup {"none"}
    BY <2>1 DEF Pending
  <2>3. [ws |-> req[r].ws, project |-> req[r].project, reads |-> reads] \in Agent
    BY <2>1, <2>2 DEF Agent
  <2>4. [of |-> a, ws |-> req[r].ws, void |-> FALSE] \in Token
    BY <2>1 DEF Token
  <2>5. TypeOK'
    BY <1>0, <1>2, <2>3, <2>4 DEF TypeOK
  <2>6. /\ agent[a] = NoAgent /\ token[t] = NoToken
        /\ agent'[a] # NoAgent /\ token'[t].of = a /\ token'[t].ws = req[r].ws
        /\ agent'[a].ws = req[r].ws /\ agent'[a].project = req[r].project
        /\ \A b \in Agents \ {a} : agent'[b] = agent[b]
        /\ \A u \in Tokens \ {t} : token'[u] = token[u]
    BY <1>0, <1>2, <2>1, KeysAssumption DEF IInv, TypeOK, RowsAreBorn, NoAgent
  <2>7. TokensHaveAgents'
    BY <1>0, <1>2, <2>6 DEF IInv, TypeOK, TokensHaveAgents, Token
  <2>8. RowsAreBorn'
    BY <1>2, <2>6 DEF IInv, RowsAreBorn
  <2>9. Keeps
    BY <1>2, <2>6, KeysAssumption DEF Keeps, Dead
  <2>q. QED  BY <1>0, <2>5, <2>7, <2>8, <2>9, WriteStep
<1>q. QED  BY <1>1, <1>2 DEF InsertAgent

\* InsertToken: one row with a new key, under what exists.
LEMMA InsertTokenStep ==
    ASSUME IInv, NEW r \in Requests, NEW t \in Tokens, InsertToken(r, t)
    PROVE  IInv' /\ Keeps
<1>0. /\ TypeOK /\ At(r, "insert_token") /\ req' = [req EXCEPT ![r] = Idle]
      /\ UNCHANGED <<live, home, agent>>
      /\ \A q \in Requests : req'[q] \in {req[q], Idle}
      /\ req[r].ws \in Workspaces /\ req[r].a \in Agents
  BY DEF IInv, TypeOK, InsertToken, Answer, At, Sound
<1>1. CASE UNCHANGED <<token, born>>
  BY <1>0, <1>1, RequestStep DEF db, TypeOK, Sound, Idle
<1>2. CASE /\ Issuable(req[r].ws, req[r].a)
           /\ t \notin born
           /\ token' = [token EXCEPT ![t] = [of |-> req[r].a, ws |-> req[r].ws,
                                             void |-> FALSE]]
           /\ born' = born \cup {t}
  <2>1. TypeOK'
    BY <1>0, <1>2 DEF TypeOK, Token
  <2>2. /\ token[t] = NoToken /\ token'[t].of = req[r].a /\ token'[t].ws = req[r].ws
        /\ \A u \in Tokens \ {t} : token'[u] = token[u]
    BY <1>0, <1>2 DEF IInv, TypeOK, RowsAreBorn
  <2>3. TokensHaveAgents'
    BY <1>0, <1>2, <2>2 DEF IInv, TokensHaveAgents, Issuable
  <2>4. RowsAreBorn'
    BY <1>0, <1>2, <2>2 DEF IInv, RowsAreBorn
  <2>5. Keeps
    BY <1>2, <2>2 DEF Keeps, Dead
  <2>q. QED  BY <1>0, <2>1, <2>3, <2>4, <2>5, WriteStep
<1>q. QED  BY <1>1, <1>2 DEF InsertToken

\* The deletions that requests end with.
LEMMA DropStep ==
    ASSUME IInv, NEW r \in Requests, DropToken(r) \/ DropTokens(r) \/ DropAgent(r)
    PROVE  IInv' /\ Keeps
<1>0. /\ TypeOK /\ req' = [req EXCEPT ![r] = Idle] /\ UNCHANGED <<live, home, born>>
      /\ \A q \in Requests : req'[q] \in {req[q], Idle}
  BY DEF IInv, TypeOK, DropToken, DropTokens, DropAgent, Answer
<1>a. /\ \A a \in Agents : \/ agent[a] = NoAgent
                           \/ /\ agent[a].ws \in live
                              /\ agent[a].project \in live \cup {"none"}
      /\ \A t \in Tokens : \/ token[t] = NoToken
                           \/ /\ token[t].ws \in live
                              /\ agent[token[t].of] # NoAgent
  BY DEF IInv, TokensHaveAgents
<1>1. CASE DropToken(r) \/ DropTokens(r)
  <2>1. /\ agent' = agent /\ token' \in [Tokens -> Token \cup {NoToken}]
        /\ \A t \in Tokens : token'[t] \in {NoToken, token[t]}
    BY <1>0, <1>1 DEF DropToken, DropTokens, TypeOK
  <2>2. TypeOK'  BY <1>0, <2>1 DEF TypeOK
  <2>3. \A a \in Agents : agent'[a] # NoAgent =>
           /\ agent'[a] = agent[a]
           /\ agent[a].ws \in live'
           /\ agent[a].project \in live' \cup {"none"}
    BY <1>0, <1>a, <2>1
  <2>4. \A t \in Tokens : token'[t] # NoToken =>
           /\ token'[t] = token[t]
           /\ agent'[token[t].of] # NoAgent
           /\ token[t].ws \in live'
    BY <1>0, <1>a, <2>1
  <2>q. QED  BY <1>0, <2>2, <2>3, <2>4, RemovalStep
<1>2. CASE DropAgent(r)
  <2>1. req[r].a \in Agents
    BY <1>2 DEF DropAgent, IInv, Sound, At
  <2>2. Without({req[r].a})  BY <1>2 DEF DropAgent
  <2>3. TypeOK'  BY <1>0, <2>1, <2>2, WithoutLeaves DEF TypeOK
  <2>a. {req[r].a} \in SUBSET Agents  BY <2>1
  <2>4. \A a \in Agents : agent'[a] # NoAgent =>
           /\ agent'[a] = agent[a]
           /\ agent[a].ws \in live'
           /\ agent[a].project \in live' \cup {"none"}
    BY <1>0, <1>a, <2>a, <2>2, WithoutLeaves
  <2>5. \A t \in Tokens : token'[t] # NoToken =>
           /\ token'[t] = token[t]
           /\ agent'[token[t].of] # NoAgent
           /\ token[t].ws \in live'
    BY <1>0, <2>a, <2>2, WithoutLeaves
  <2>q. QED  BY <1>0, <2>3, <2>4, <2>5, RemovalStep
<1>q. QED  BY <1>1, <1>2

\* Expiry, moves and the deletions of projects and workspaces.
LEMMA OthersStep ==
    ASSUME IInv, Others
    PROVE  IInv' /\ Keeps
<1>0. TypeOK /\ UNCHANGED <<born, req>>
  BY DEF IInv, Others, Lapse, Transfer, Migrate, DeleteProject, DeleteWorkspace
<1>a. \A q \in Requests : req'[q] \in {req[q], Idle}
  BY <1>0
<1>1. ASSUME NEW t \in Tokens, Lapse(t) PROVE IInv' /\ Keeps
  <2>1. TypeOK'
    BY <1>0, <1>1 DEF Lapse, TypeOK, Token
  <2>2. /\ UNCHANGED <<live, agent>>
        /\ \A u \in Tokens \ {t} : token'[u] = token[u]
        /\ token'[t].of = token[t].of /\ token'[t].ws = token[t].ws
        /\ token'[t].void /\ token[t] # NoToken
    BY <1>0, <1>1 DEF Lapse, TypeOK, Token
  <2>3. TokensHaveAgents' /\ RowsAreBorn'
    BY <1>0, <2>2 DEF IInv, TokensHaveAgents, RowsAreBorn
  <2>4. Keeps
    BY <1>0, <1>1, <2>2 DEF Keeps, Dead, IInv
  <2>q. QED  BY <1>a, <2>1, <2>3, <2>4, WriteStep
<1>2. ASSUME NEW p \in Projects, NEW w \in Workspaces, Transfer(p, w) \/ Migrate(p, w)
      PROVE  IInv' /\ Keeps
  <2>1. /\ w \in live /\ UNCHANGED <<live, token>> /\ home' = [home EXCEPT ![p] = w]
        /\ agent' \in [Agents -> Agent \cup {NoAgent}]
        /\ \A a \in Agents : \/ agent'[a] = agent[a]
                             \/ /\ agent[a] # NoAgent /\ agent'[a] # NoAgent
                                /\ agent'[a].ws = w
                                /\ agent'[a].project = agent[a].project
    <3>1. CASE Migrate(p, w)  BY <1>0, <3>1 DEF Migrate, TypeOK
    <3>2. CASE Transfer(p, w)
      <4>1. ASSUME NEW a \in Agents
            PROVE  \/ agent'[a] = agent[a]
                   \/ /\ agent[a] # NoAgent /\ agent'[a] # NoAgent
                      /\ agent'[a] \in Agent
                      /\ agent'[a].ws = w /\ agent'[a].project = agent[a].project
        <5>1. CASE agent[a].project # p  BY <3>2, <5>1 DEF Transfer
        <5>2. CASE agent[a].project = p
          <6>1. agent[a] # NoAgent  BY <5>2, KeysAssumption DEF NoAgent
          <6>2. agent[a] \in Agent  BY <1>0, <6>1 DEF TypeOK
          <6>3. agent'[a] = [agent[a] EXCEPT !.ws = w]  BY <3>2, <5>2 DEF Transfer
          <6>q. QED  BY <5>2, <6>1, <6>2, <6>3, KeysAssumption DEF Agent, NoAgent
        <5>q. QED  BY <5>1, <5>2
      <4>2. agent' \in [Agents -> Agent \cup {NoAgent}]
        BY <1>0, <3>2, <4>1 DEF Transfer, TypeOK
      <4>q. QED  BY <3>2, <4>1, <4>2 DEF Transfer
    <3>q. QED  BY <1>2, <3>1, <3>2
  <2>2. TypeOK'
    BY <1>0, <2>1 DEF TypeOK
  <2>3. TokensHaveAgents' /\ RowsAreBorn'
    <3>1. \A a \in Agents : agent'[a] = NoAgent <=> agent[a] = NoAgent
      BY <2>1
    <3>2. \A t \in Tokens : token[t] # NoToken => token[t].of \in Agents
      BY <1>0 DEF TypeOK, Token
    <3>q. QED  BY <1>0, <2>1, <3>1, <3>2 DEF IInv, TokensHaveAgents, RowsAreBorn
  <2>4. Keeps
    BY <1>0, <2>1 DEF Keeps, Dead, IInv
  <2>q. QED  BY <1>a, <2>2, <2>3, <2>4, WriteStep
<1>b. /\ \A a \in Agents : agent[a] # NoAgent =>
             /\ agent[a].ws \in live /\ agent[a].ws \in Workspaces
             /\ agent[a].project \in live \cup {"none"}
      /\ \A t \in Tokens : token[t] # NoToken =>
             /\ token[t].ws \in live /\ token[t].ws \in Workspaces
             /\ token[t].of \in Agents /\ agent[token[t].of] # NoAgent
  BY <1>0 DEF IInv, TypeOK, TokensHaveAgents, Agent, Token
<1>3. ASSUME NEW p \in Projects, DeleteProject(p) PROVE IInv' /\ Keeps
  <2> DEFINE gone == {a \in Agents : agent[a].project = p}
  <2>1. Without(gone) /\ live' = live \ {p} /\ UNCHANGED home
    BY <1>3 DEF DeleteProject
  <2>2. gone \in SUBSET Agents  OBVIOUS
  <2> HIDE DEF gone
  <2>3. TypeOK'
    BY <1>0, <2>1, <2>2, WithoutLeaves DEF TypeOK
  <2>a. /\ \A a \in Agents : agent'[a] = NoAgent \/ (agent'[a] = agent[a] /\ a \notin gone)
        /\ \A t \in Tokens :
              token'[t] # NoToken =>
                   /\ token'[t] = token[t]
                   /\ agent'[token[t].of] # NoAgent
                   /\ token[t].ws \in live
    BY <2>1, <2>2, WithoutLeaves
  <2>4. ASSUME NEW a \in Agents, agent'[a] # NoAgent
        PROVE  /\ agent'[a] = agent[a]
               /\ agent[a].ws \in live'
               /\ agent[a].project \in live' \cup {"none"}
    <3>1. agent'[a] = agent[a] /\ agent[a].project # p
      BY <2>4, <2>a DEF gone
    <3>2. agent[a].ws # p  BY <1>b, <2>4, <3>1, KeysAssumption
    <3>q. QED  BY <1>b, <2>1, <2>4, <3>1, <3>2
  <2>5. ASSUME NEW t \in Tokens, token'[t] # NoToken
        PROVE  /\ token'[t] = token[t]
               /\ agent'[token[t].of] # NoAgent
               /\ token[t].ws \in live'
    <3>1. token'[t] = token[t] /\ agent'[token[t].of] # NoAgent /\ token[t].ws \in live
      BY <2>5, <2>a
    <3>2. token[t].ws # p  BY <1>b, <2>5, <3>1, KeysAssumption
    <3>q. QED  BY <2>1, <3>1, <3>2
  <2>q. QED  BY <1>0, <1>a, <2>1, <2>3, <2>4, <2>5, RemovalStep
<1>4. ASSUME NEW w \in Workspaces, DeleteWorkspace(w) PROVE IInv' /\ Keeps
  <2> DEFINE gone == {w} \cup {p \in Projects : home[p] = w}
             Hit(a) == {agent[a].ws, agent[a].project} \cap gone # {}
  <2>1. /\ live' = live \ gone /\ UNCHANGED home
        /\ agent' = [a \in Agents |-> IF Hit(a) THEN NoAgent ELSE agent[a]]
        /\ token' = [t \in Tokens |->
               IF token[t].ws = w \/ \E a \in Agents : token[t].of = a /\ Hit(a)
               THEN NoToken ELSE token[t]]
    BY <1>4 DEF DeleteWorkspace
  <2>2. "none" \notin gone /\ \A v \in Workspaces : v \in gone => v = w
    BY KeysAssumption
  <2>3. TypeOK'
    <3>1. agent' \in [Agents -> Agent \cup {NoAgent}] /\ token' \in [Tokens -> Token \cup {NoToken}]
      BY <1>0, <2>1 DEF TypeOK
    <3>q. QED  BY <1>0, <2>1, <3>1 DEF TypeOK
  <2> HIDE DEF gone
  <2>4. ASSUME NEW a \in Agents, agent'[a] # NoAgent
        PROVE  /\ agent'[a] = agent[a]
               /\ agent[a].ws \in live'
               /\ agent[a].project \in live' \cup {"none"}
    <3>1. agent'[a] = agent[a] /\ ~Hit(a)
      BY <2>1, <2>4
    <3>2. agent[a].ws \notin gone /\ agent[a].project \notin gone
      BY <3>1
    <3>q. QED  BY <1>b, <2>1, <2>4, <3>1, <3>2
  <2>5. ASSUME NEW t \in Tokens, token'[t] # NoToken
        PROVE  /\ token'[t] = token[t]
               /\ agent'[token[t].of] # NoAgent
               /\ token[t].ws \in live'
    <3>1. /\ token'[t] = token[t] /\ token[t].ws # w
          /\ \A a \in Agents : token[t].of = a => ~Hit(a)
      <4> HIDE DEF Hit
      <4>q. QED  BY <2>1, <2>5
    <3>2. token[t].ws \in live'
      BY <1>b, <2>1, <2>2, <2>5, <3>1
    <3>3. agent'[token[t].of] # NoAgent
      <4> HIDE DEF Hit
      <4>q. QED  BY <1>b, <2>1, <2>5, <3>1
    <3>q. QED  BY <3>1, <3>2, <3>3
  <2>q. QED  BY <1>0, <1>a, <2>1, <2>3, <2>4, <2>5, RemovalStep
<1>q. QED  BY <1>1, <1>2, <1>3, <1>4 DEF Others
-----------------------------------------------------------------------------
LEMMA NextIInv == IInv /\ [Next]_vars => IInv' /\ Keeps
<1> SUFFICES ASSUME IInv, [Next]_vars PROVE IInv' /\ Keeps  OBVIOUS
<1>1. CASE UNCHANGED vars
  BY <1>1 DEF vars, IInv, TypeOK, TokensHaveAgents, RowsAreBorn, Sound, Dead, Keeps
<1>2. CASE Others  BY <1>2, OthersStep
<1>3. ASSUME NEW r \in Requests, NewRequest(r) PROVE IInv' /\ Keeps
  BY <1>3, NewRequestStep
<1>4. ASSUME NEW r \in Requests, ServerStep(r) PROVE IInv' /\ Keeps
  BY <1>4, InsertAgentStep, InsertTokenStep, DropStep, LookupStep DEF ServerStep
<1>q. QED  BY <1>1, <1>2, <1>3, <1>4 DEF Next

\* The inductive invariant holds for any workspaces, projects, agents, tokens
\* and number of requests, so the type invariant does.
THEOREM InvariantHolds == Spec => []IInv
<1>q. QED  BY InitIInv, NextIInv, PTL DEF Spec

\* The foreign keys of agents and tokens always lead to rows (services.py:441-537).
THEOREM RowsHaveParents == Spec => []TokensHaveAgents
<1>1. IInv => TokensHaveAgents  BY DEF IInv
<1>q. QED  BY <1>1, InvariantHolds, PTL

\* No request goes through with a token that was dead when it came
\* (services.py:597-615; selectors.py:498-511).
THEOREM DeadTokensAreNotHonoured == Spec => []DeadTokensAreRefused
<1>1. IInv => DeadTokensAreRefused  BY DEF IInv, Sound, DeadTokensAreRefused
<1>q. QED  BY <1>1, InvariantHolds, PTL

\* Environments go to agents that may read them, within their scope
\* (selectors.py:513-551).
THEOREM DeliveryStaysInScope == Spec => []DeliveredToReaders
<1>1. IInv => DeliveredToReaders  BY DEF IInv, Sound, DeliveredToReaders
<1>q. QED  BY <1>1, InvariantHolds, PTL

\* A revoked, expired or deleted token stays so (services.py:617-618).
THEOREM DeadTokensStayDead == Spec => RevocationIsFinal
<1>1. IInv /\ [Next]_vars => [Dead \subseteq Dead']_vars
  BY NextIInv DEF Keeps
<1>q. QED  BY <1>1, InvariantHolds, PTL DEF Spec, RevocationIsFinal

\* The write of a deletion takes all the tokens that it began with.
LEMMA CutTokensGo ==
    ASSUME IInv, NEW r \in Requests, DropToken(r) \/ DropTokens(r) \/ DropAgent(r)
    PROVE  \A t \in req[r].seen : token'[t] = NoToken
<1>1. Sound(req[r]) /\ TypeOK
  BY DEF IInv
<1>2. req[r].seen \subseteq Tokens
  BY <1>1, SeenAreTokens
<1>3. CASE DropToken(r)
  BY <1>1, <1>3 DEF DropToken, At, Sound, TypeOK
<1>4. CASE DropTokens(r)
  <2>1. \A t \in Tokens : token'[t] = IF t \in TokensOf(req[r].a) THEN NoToken ELSE token[t]
    BY <1>4 DEF DropTokens
  <2>2. ASSUME NEW t \in req[r].seen PROVE token'[t] = NoToken
    BY <1>1, <1>2, <1>4, <2>1 DEF DropTokens, TokensOf, At, Sound
  <2>q. QED  BY <2>2
<1>5. CASE DropAgent(r)
  <2>1. \A t \in Tokens : token'[t] = IF token[t].of \in {req[r].a} THEN NoToken ELSE token[t]
    BY <1>5 DEF DropAgent, Without
  <2>2. ASSUME NEW t \in req[r].seen PROVE token'[t] = NoToken
    BY <1>1, <1>2, <1>5, <2>1 DEF DropAgent, At, Sound
  <2>q. QED  BY <2>2
<1>q. QED  BY <1>3, <1>4, <1>5

\* A deletion answers only when none of the tokens it began with is left
\* (services.py:550-577).
THEOREM DeletionsDelete == Spec => DeletionIsFinal
<1> DEFINE Gone(r) == req[r].pc \in {"drop_token", "drop_all", "drop_agent"} /\ req'[r] = Idle
                        => \A t \in req[r].seen : token'[t] = NoToken
<1>1. ASSUME IInv, [Next]_vars, NEW r \in Requests,
             req[r].pc \in {"drop_token", "drop_all", "drop_agent"}, req'[r] = Idle
      PROVE  \A t \in req[r].seen : token'[t] = NoToken
  <2>1. req'[r] # req[r] /\ Sound(req[r]) /\ TypeOK
    BY <1>1 DEF Idle, IInv
  <2>2. DropToken(r) \/ DropTokens(r) \/ DropAgent(r)
    <3>1. ~UNCHANGED vars /\ ~Others
      BY <2>1 DEF vars, Others, Lapse, Transfer, Migrate, DeleteProject, DeleteWorkspace
    <3>2. PICK q \in Requests : NewRequest(q) \/ ServerStep(q)
      BY <1>1, <3>1 DEF Next
    <3>3. req' = [req EXCEPT ![q] = req'[q]]
      BY <2>1, <3>2
      DEF TypeOK, NewRequest, ServerStep, BeginCreateAgent, BeginCreateToken,
          BeginDeleteTokens, BeginDeleteAgent, BeginDeleteToken, BeginUse, InsertAgent,
          InsertToken, FindToken, DropToken, DropTokens, FindAgent, DropAgent,
          ReadVerified, Use, ReadDelivered, ReadSecrets, ReadAllowlist, Start, GoOn,
          Answer
    <3>4. q = r  BY <2>1, <3>3 DEF TypeOK
    <3>q. QED
      BY <1>1, <3>2, <3>4
      DEF NewRequest, ServerStep, BeginCreateAgent, BeginCreateToken,
          BeginDeleteTokens, BeginDeleteAgent, BeginDeleteToken, BeginUse, InsertAgent,
          InsertToken, FindToken, FindAgent, ReadVerified, Use, ReadDelivered,
          ReadSecrets, ReadAllowlist, Start, At
  <2>q. QED  BY <1>1, <2>2, CutTokensGo
<1>2. IInv /\ [Next]_vars => [\A r \in Requests : Gone(r)]_vars
  BY <1>1
<1>q. QED  BY <1>2, InvariantHolds, PTL DEF Spec, DeletionIsFinal

-----------------------------------------------------------------------------
(* Credentials: what a step does to the lives and the claims of tokens.       *)

Stages == [t \in Tokens |-> Stage(t)]
Asked  == [r \in Requests |-> Claim(req[r])]

\* What a request claims is well-formed.
LEMMA ClaimTypes ==
    ASSUME NEW q \in Pending \cup {Idle}, q.pc \in Using => q.t \in Tokens
    PROVE  \/ Claim(q) \in Promised!Claims /\ q.pc \in Using \cup Cutting
           \/ Claim(q) = Promised!NoClaim /\ q.pc \notin Using \cup Cutting
<1>1. CASE q.pc \in Using
  <2>1. q.t \in Tokens
    BY <1>1
  <2>q. QED  BY <1>1, <2>1 DEF Claim, Promised!Claims
<1>2. CASE q.pc \in Cutting
  <2>1. q.pc \notin Using /\ q.seen \in SUBSET Tokens
    BY <1>2 DEF Using, Cutting, Pending, Idle
  <2>q. QED  BY <1>2, <2>1 DEF Claim, Promised!Claims
<1>3. CASE q.pc \notin Using \cup Cutting
  BY <1>3 DEF Claim, Promised!NoClaim
<1>q. QED  BY <1>1, <1>2, <1>3

\* A step of one request is a change of one claim.
LEMMA OneClaim ==
    ASSUME TypeOK, NEW r \in Requests, req' = [req EXCEPT ![r] = req'[r]]
    PROVE  Asked' = [Asked EXCEPT ![r] = Claim(req'[r])]
BY DEF Asked, TypeOK

\* Lives end and do not begin as long as no key is given out.
LEMMA LivesEnd ==
    ASSUME born' = born, Keeps
    PROVE  /\ Dead' \ Dead \in SUBSET Promised!Valid
           /\ Stages' = Promised!Retired(Dead' \ Dead)
<1>1. Dead \subseteq Dead' /\ Dead' \subseteq born
  BY DEF Keeps, Dead
<1>2. \A t \in Tokens : Stage(t)' = IF t \in Dead' \ Dead THEN "dead" ELSE Stage(t)
  BY <1>1 DEF Stage, Dead
<1>3. Dead' \subseteq Tokens
  BY DEF Dead
<1>4. \A t \in Dead' \ Dead : Stage(t) = "valid"
  BY <1>1 DEF Stage, Dead
<1>q. QED  BY <1>2, <1>3, <1>4 DEF Stages, Promised!Valid, Promised!Retired

\* What neither issues, changes nor deletes a token keeps every stage.
LEMMA LivesStay ==
    ASSUME born' = born, token' = token
    PROVE  Stages' = Stages
BY DEF Stages, Stage

\* What happens beside the requests ends lives at most.
LEMMA OthersRetire ==
    ASSUME born' = born, req' = req, Keeps
    PROVE  Promised!Next
<1>1. Asked' = Asked
  BY DEF Asked
<1>2. Promised!Retire
  BY <1>1, LivesEnd DEF Promised!Retire, Stages, Asked
<1>q. QED  BY <1>2 DEF Promised!Next

\* A request that comes claims something or nothing.
LEMMA RequestAsks ==
    ASSUME IInv, IInv', NEW r \in Requests, NewRequest(r)
    PROVE  Promised!Next \/ UNCHANGED Promised!vars
<1>1. /\ req[r].pc = "idle" /\ UNCHANGED db /\ req' = [req EXCEPT ![r] = req'[r]]
  BY DEF NewRequest, BeginCreateAgent, BeginCreateToken, BeginDeleteTokens,
         BeginDeleteAgent, BeginDeleteToken, BeginUse, Start, At, IInv, TypeOK
<1>0. /\ req'[r] \in Pending \cup {Idle}
      /\ req'[r].pc \in Using => req'[r].t \in Tokens
  BY DEF IInv, TypeOK, Sound, Using
<1>2. Stages' = Stages
  BY <1>1, LivesStay DEF db
<1>3. Asked' = [Asked EXCEPT ![r] = Claim(req'[r])]
  BY <1>1, OneClaim DEF IInv
<1>4. Asked[r] = Promised!NoClaim
  BY <1>1 DEF Asked, Claim, Using, Cutting, Promised!NoClaim
<1>5. CASE Claim(req'[r]) = Promised!NoClaim
  <2>1. Asked' = Asked
    BY <1>3, <1>4, <1>5 DEF Asked
  <2>q. QED  BY <1>2, <2>1 DEF Promised!vars, Stages, Asked
<1>6. CASE Claim(req'[r]) \in Promised!Claims
  <2>1. Claim(req'[r]).accepted => Promised!Acceptable(Claim(req'[r]))
    <3> SUFFICES ASSUME Claim(req'[r]).accepted
                 PROVE  Promised!Acceptable(Claim(req'[r]))
      OBVIOUS
    <3>1. req'[r].pc \in Accepted
      BY DEF Claim
    <3>2. req'[r].pc = "drop_all" /\ \E a \in Agents : req'[r].seen = TokensOf(a)
      <4>1. CASE \E w \in Workspaces, a \in Agents : BeginDeleteTokens(r, w, a)
        <5>1. PICK a \in Agents :
                 req' = [req EXCEPT ![r] = [Idle EXCEPT !.pc = "drop_all", !.a = a,
                                                        !.seen = TokensOf(a)]]
          BY <4>1 DEF BeginDeleteTokens, Start
        <5>2. req'[r] = [Idle EXCEPT !.pc = "drop_all", !.a = a, !.seen = TokensOf(a)]
          BY <5>1 DEF IInv, TypeOK
        <5>q. QED  BY <5>2 DEF Idle
      <4>2. CASE ~ \E w \in Workspaces, a \in Agents : BeginDeleteTokens(r, w, a)
        <5>1. ASSUME NEW w, NEW p, BeginCreateAgent(r, w, p) PROVE req'[r].pc \notin Accepted
          <6>1. req'[r] = [Idle EXCEPT !.pc = "insert_agent", !.ws = w, !.project = p]
            BY <5>1 DEF BeginCreateAgent, Start, IInv, TypeOK
          <6>q. QED  BY <6>1 DEF Idle, Accepted
        <5>2. ASSUME NEW w, NEW a, BeginCreateToken(r, w, a) PROVE req'[r].pc \notin Accepted
          <6>1. req'[r] = [Idle EXCEPT !.pc = "insert_token", !.ws = w, !.a = a]
            BY <5>2 DEF BeginCreateToken, Start, IInv, TypeOK
          <6>q. QED  BY <6>1 DEF Idle, Accepted
        <5>3. ASSUME NEW w, NEW a, BeginDeleteAgent(r, w, a) PROVE req'[r].pc \notin Accepted
          <6>1. req'[r] = [Idle EXCEPT !.pc = "find_agent", !.ws = w, !.a = a,
                                   !.seen = TokensOf(a)]
            BY <5>3 DEF BeginDeleteAgent, Start, IInv, TypeOK
          <6>q. QED  BY <6>1 DEF Idle, Accepted
        <5>4. ASSUME NEW w, NEW a, NEW t, BeginDeleteToken(r, w, a, t) PROVE req'[r].pc \notin Accepted
          <6>1. req'[r] = [Idle EXCEPT !.pc = "find_token", !.a = a, !.t = t, !.seen = {t}]
            BY <5>4 DEF BeginDeleteToken, Start, IInv, TypeOK
          <6>q. QED  BY <6>1 DEF Idle, Accepted
        <5>5. ASSUME NEW pc \in {"verify", "deliver"}, NEW t, BeginUse(r, pc, t) PROVE req'[r].pc \notin Accepted
          <6>1. req'[r] = [Idle EXCEPT !.pc = pc, !.t = t, !.seen = Dead \cap {t}]
            BY <5>5 DEF BeginUse, Start, IInv, TypeOK
          <6>q. QED  BY <6>1 DEF Idle, Accepted
        <5>q. QED  BY <3>1, <4>2, <5>1, <5>2, <5>3, <5>4, <5>5 DEF NewRequest
      <4>q. QED  BY <4>1, <4>2
    <3>3. /\ Claim(req'[r]).to = "cut"
          /\ \A t \in Claim(req'[r]).tokens : t \in Tokens /\ t \in born
      BY <3>2 DEF Claim, Using, Cutting, TokensOf, IInv, RowsAreBorn
    <3>q. QED  BY <3>3 DEF Promised!Acceptable, Stage
  <2>2. Asked'[r] = Claim(req'[r])
    BY <1>3 DEF Asked
  <2>3. Promised!Ask(r)
    BY <1>2, <1>3, <1>4, <1>6, <2>1, <2>2 DEF Promised!Ask, Stages, Asked
  <2>q. QED  BY <2>3 DEF Promised!Next
<1>q. QED  BY <1>0, <1>5, <1>6, ClaimTypes

\* How a lookup goes on.
LEMMA LookupMoves ==
    ASSUME IInv, NEW r \in Requests, req'[r] # Idle,
           \/ FindToken(r) \/ FindAgent(r) \/ ReadVerified(r) \/ Use(r)
           \/ ReadDelivered(r) \/ ReadSecrets(r) \/ ReadAllowlist(r)
    PROVE  \/ /\ req[r].pc = "find_token" /\ req[r].t \in TokensOf(req[r].a)
              /\ req'[r] = [req[r] EXCEPT !.pc = "drop_token"]
           \/ /\ req[r].pc = "find_agent"
              /\ req'[r] = [req[r] EXCEPT !.pc = "drop_agent"]
           \/ /\ req[r].pc \in {"verify", "deliver"} /\ Honoured(req[r].t)
              /\ \E row, reg : \E pc \in {"use", "secrets"} :
                    req'[r] = [req[r] EXCEPT !.pc = pc, !.row = row, !.reg = reg]
           \/ /\ req[r].pc = "use"
              /\ req'[r] = [req[r] EXCEPT !.pc = "allowlist"]
           \/ /\ req[r].pc = "secrets"
              /\ \E out : req'[r] = [req[r] EXCEPT !.pc = "allowlist", !.out = out]
<1> USE DEF IInv, TypeOK, GoOn, At
<1>1. CASE FindToken(r)  BY <1>1 DEF FindToken
<1>2. CASE FindAgent(r)  BY <1>2 DEF FindAgent
<1>3. CASE ReadVerified(r)
  <2>1. /\ req[r].pc = "verify" /\ Honoured(req[r].t) /\ req[r] \in Pending
        /\ req'[r] = [req[r] EXCEPT !.pc = "use", !.row = token[req[r].t]]
    BY <1>3 DEF ReadVerified, Idle
  <2>2. req'[r] = [req[r] EXCEPT !.pc = "use", !.row = token[req[r].t], !.reg = req[r].reg]
    BY <2>1 DEF Pending
  <2>q. QED  BY <2>1, <2>2
<1>4. CASE Use(r)  BY <1>4 DEF Use
<1>5. CASE ReadDelivered(r)
  <2> DEFINE reg == agent[token[req[r].t].of]
  <2>1. /\ req[r].pc = "deliver" /\ Honoured(req[r].t) /\ req[r] \in Pending
        /\ req'[r] = [req[r] EXCEPT !.pc = "secrets", !.reg = reg]
    BY <1>5 DEF ReadDelivered, Idle
  <2>2. req'[r] = [req[r] EXCEPT !.pc = "secrets", !.row = req[r].row, !.reg = reg]
    BY <2>1 DEF Pending
  <2>q. QED  BY <2>1, <2>2
<1>6. CASE ReadSecrets(r)
  <2>1. req'[r] = [req[r] EXCEPT !.pc = "allowlist", !.out = InScope(req[r].reg)]
    BY <1>6 DEF ReadSecrets
  <2>q. QED  BY <1>6, <2>1 DEF ReadSecrets
<1>7. CASE ReadAllowlist(r)  BY <1>7 DEF ReadAllowlist, Answer
<1>q. QED  BY <1>1, <1>2, <1>3, <1>4, <1>5, <1>6, <1>7

\* Accepting changes nothing in a claim but that it is accepted.
LEMMA ClaimAccepted ==
    ASSUME NEW q, NEW p, q.pc \notin Accepted, p.pc \in Accepted,
           \/ q.pc \in Using /\ p.pc \in Using /\ p.t = q.t
           \/ q.pc \in Cutting \ Using /\ p.pc \in Cutting \ Using /\ p.seen = q.seen
    PROVE  Claim(p) = [Claim(q) EXCEPT !.accepted = TRUE]
<1>1. /\ Claim(q).to = Claim(p).to /\ Claim(q).tokens = Claim(p).tokens
      /\ Claim(p).accepted = TRUE
  BY DEF Claim
<1>2. ASSUME NEW c PROVE \E to, tokens, accepted :
             Claim(c) = [to |-> to, tokens |-> tokens, accepted |-> accepted]
  BY Zenon DEF Claim
<1>3. PICK to, tokens, b :
         Claim(q) = [to |-> to, tokens |-> tokens, accepted |-> b]
  BY <1>2
<1>4. PICK to2, tokens2, b2 :
         Claim(p) = [to |-> to2, tokens |-> tokens2, accepted |-> b2]
  BY <1>2
<1>q. QED  BY <1>1, <1>3, <1>4

\* A lookup accepts a claim, refuses it, or finishes a use.
LEMMA LookupAnswers ==
    ASSUME IInv, IInv', NEW r \in Requests,
           \/ FindToken(r) \/ FindAgent(r) \/ ReadVerified(r) \/ Use(r)
           \/ ReadDelivered(r) \/ ReadSecrets(r) \/ ReadAllowlist(r)
    PROVE  Promised!Next \/ UNCHANGED Promised!vars
<1> DEFINE now == Claim(req[r])  next == Claim(req'[r])
<1>1. UNCHANGED db /\ req' = [req EXCEPT ![r] = req'[r]]
  BY DEF IInv, TypeOK, FindToken, FindAgent, ReadVerified, Use, ReadDelivered,
         ReadSecrets, ReadAllowlist, GoOn, Answer
<1>2. Stages' = Stages
  BY <1>1, LivesStay DEF db
<1>3. Asked' = [Asked EXCEPT ![r] = next]
  BY <1>1, OneClaim DEF IInv
<1>4. Asked[r] = now
  BY DEF Asked
<1>5. req[r].pc \in Using \cup Cutting /\ Sound(req[r]) /\ req[r] \in Pending
  <2>1. req[r].pc \in Using \cup Cutting
    BY DEF FindToken, FindAgent, ReadVerified, Use, ReadDelivered, ReadSecrets,
           ReadAllowlist, At, Using, Cutting
  <2>2. req[r] # Idle
    BY <2>1 DEF Idle, Using, Cutting
  <2>q. QED  BY <2>1, <2>2 DEF IInv, TypeOK
<1>6. /\ now.to \in {"use", "cut"} /\ now # Promised!NoClaim
      /\ now.accepted <=> req[r].pc \in Accepted
      /\ now.to = "use" <=> req[r].pc \in Using
  BY <1>5 DEF Claim, Promised!NoClaim, Using, Cutting
<1>7. CASE req'[r] = Idle
  <2>1. next = Promised!NoClaim
    BY <1>7 DEF Claim, Idle, Promised!NoClaim, Using, Cutting
  <2>2. CASE ~now.accepted
    <3>1. Promised!Refuse(r)
      BY <1>2, <1>3, <1>4, <1>6, <2>1, <2>2 DEF Promised!Refuse, Stages, Asked
    <3>q. QED  BY <3>1 DEF Promised!Next
  <2>3. CASE now.accepted
    <3>1. now.to = "use"
      BY <1>6, <2>3 DEF FindToken, FindAgent, ReadVerified, Use, ReadDelivered,
         ReadSecrets, ReadAllowlist, At, Using, Accepted
    <3>2. Promised!Finish(r)
      BY <1>2, <1>3, <1>4, <2>1, <2>3, <3>1 DEF Promised!Finish, Stages, Asked
    <3>q. QED  BY <3>2 DEF Promised!Next
  <2>q. QED  BY <2>2, <2>3
<1>8. CASE req'[r] # Idle /\ req[r].pc \in Accepted
  <2>1. /\ req[r].pc \in {"use", "secrets"} /\ req'[r].pc = "allowlist"
        /\ req'[r].t = req[r].t
    BY <1>5, <1>8, LookupMoves DEF Accepted, Pending
  <2>3. (req[r].pc \in Accepted) = (req'[r].pc \in Accepted)
    BY <2>1 DEF Accepted
  <2>4. next = now
    BY <2>1, <2>3 DEF Claim, Using
  <2>2. Asked' = Asked
    BY <1>3, <1>4, <2>4 DEF Asked
  <2>q. QED  BY <1>2, <2>2 DEF Promised!vars, Stages, Asked
<1>9. CASE req'[r] # Idle /\ req[r].pc \notin Accepted
  <2>1. CASE req[r].pc \in {"find_token", "find_agent"}
    <3>1. /\ req'[r].pc \in {"drop_token", "drop_agent"} /\ req'[r].seen = req[r].seen
          /\ req[r].pc = "find_token" => req[r].t \in TokensOf(req[r].a)
      BY <1>5, <1>9, <2>1, LookupMoves DEF Pending
    <3>2. next = [now EXCEPT !.accepted = TRUE]
      BY <2>1, <3>1, <1>9, ClaimAccepted DEF Using, Cutting, Accepted
    <3>3. \A t \in req[r].seen : t \in Tokens /\ t \in born
      BY <1>5, <2>1, <3>1 DEF Sound, Pending, TokensOf, IInv, RowsAreBorn
    <3>4. now.to = "cut" /\ now.tokens = req[r].seen
      BY <2>1 DEF Claim, Using, Cutting
    <3> HIDE DEF now, next
    <3>5. Promised!Acceptable(now)
      BY <3>3, <3>4 DEF Promised!Acceptable, Stage
    <3>6. Promised!Accept(r)
      BY <1>2, <1>3, <1>4, <1>6, <3>2, <3>5 DEF Promised!Accept, Stages, Asked
    <3>q. QED  BY <3>6 DEF Promised!Next
  <2>2. CASE req[r].pc \in {"verify", "deliver"}
    <3>1. /\ req'[r].pc \in {"use", "secrets"} /\ req'[r].t = req[r].t
          /\ Honoured(req[r].t)
      BY <1>5, <1>9, <2>2, LookupMoves DEF Pending
    <3>2. next = [now EXCEPT !.accepted = TRUE]
      BY <2>2, <3>1, <1>9, ClaimAccepted DEF Using, Accepted
    <3>3. req[r].t \in Tokens /\ Stage(req[r].t) = "valid"
      BY <1>5, <2>2, <3>1 DEF Sound, Stage, Honoured, IInv, RowsAreBorn
    <3>4. now.to = "use" /\ now.tokens = {req[r].t}
      BY <2>2 DEF Claim, Using
    <3> HIDE DEF now, next
    <3>5. Promised!Acceptable(now)
      BY <3>3, <3>4 DEF Promised!Acceptable, Promised!Valid
    <3>6. Promised!Accept(r)
      BY <1>2, <1>3, <1>4, <1>6, <3>2, <3>5 DEF Promised!Accept, Stages, Asked
    <3>q. QED  BY <3>6 DEF Promised!Next
  <2>q. QED
    BY <1>9, <2>1, <2>2 DEF FindToken, FindAgent, ReadVerified, Use, ReadDelivered,
       ReadSecrets, ReadAllowlist, At, Accepted
<1>q. QED  BY <1>7, <1>8, <1>9

\* An insert begins the life of one token, or fails.
LEMMA InsertIssues ==
    ASSUME IInv, NEW r \in Requests,
           \/ \E a \in Agents, t \in Tokens, reads \in BOOLEAN : InsertAgent(r, a, t, reads)
           \/ \E t \in Tokens : InsertToken(r, t)
    PROVE  Promised!Next \/ UNCHANGED Promised!vars
<1>1. Asked' = Asked
  <2>1. req' = [req EXCEPT ![r] = Idle] /\ req[r].pc \in {"insert_agent", "insert_token"}
    BY DEF InsertAgent, InsertToken, Answer, At
  <2>2. Claim(req[r]) = Claim(Idle)
    BY <2>1 DEF Claim, Idle, Using, Cutting
  <2>q. QED  BY <2>1, <2>2 DEF Asked, IInv, TypeOK
<1>2. ASSUME NEW t \in Tokens \ born, born' \cap Tokens = (born \cap Tokens) \cup {t},
             token'[t] # NoToken, ~token'[t].void,
             \A u \in Tokens \ {t} : token'[u] = token[u]
      PROVE  Promised!Next
  <2>1. Stage(t) = "unissued" /\ Stage(t)' = "valid"
    BY <1>2 DEF Stage
  <2>2. \A u \in Tokens \ {t} : Stage(u)' = Stage(u)
    BY <1>2 DEF Stage
  <2>3. Stages' = [Stages EXCEPT ![t] = "valid"]
    BY <2>1, <2>2 DEF Stages
  <2>4. Promised!Issue(t)
    BY <1>1, <2>1, <2>3 DEF Promised!Issue, Stages, Asked
  <2>q. QED  BY <2>4 DEF Promised!Next
<1>3. CASE UNCHANGED <<born, token>>
  BY <1>1, <1>3, LivesStay DEF Promised!vars, Stages, Asked
<1>4. CASE ~UNCHANGED <<born, token>>
  <2>1. CASE \E a \in Agents, t \in Tokens, reads \in BOOLEAN : InsertAgent(r, a, t, reads)
    <3>1. PICK a \in Agents, t \in Tokens :
             /\ {a, t} \cap born = {} /\ born' = born \cup {a, t}
             /\ token' = [token EXCEPT ![t] = [of |-> a, ws |-> req[r].ws, void |-> FALSE]]
      BY <1>4, <2>1 DEF InsertAgent
    <3>2. a \notin Tokens /\ t # a /\ a # "none"
      BY KeysAssumption
    <3>3. /\ token'[t] # NoToken /\ ~token'[t].void
          /\ \A u \in Tokens \ {t} : token'[u] = token[u]
      BY <3>1, <3>2 DEF NoToken, IInv, TypeOK
    <3>q. QED  BY <1>2, <3>1, <3>2, <3>3
  <2>2. CASE \E t \in Tokens : InsertToken(r, t)
    <3>1. PICK t \in Tokens :
             /\ t \notin born /\ born' = born \cup {t} /\ At(r, "insert_token")
             /\ token' = [token EXCEPT ![t] = [of |-> req[r].a, ws |-> req[r].ws,
                                               void |-> FALSE]]
      BY <1>4, <2>2 DEF InsertToken
    <3>2. req[r].a # "none"
      BY <3>1, KeysAssumption DEF At, IInv, Sound
    <3>3. /\ token'[t] # NoToken /\ ~token'[t].void
          /\ \A u \in Tokens \ {t} : token'[u] = token[u]
      BY <3>1, <3>2 DEF NoToken, IInv, TypeOK
    <3>q. QED  BY <1>2, <3>1, <3>3
  <2>q. QED  BY <2>1, <2>2
<1>q. QED  BY <1>3, <1>4

\* When a deletion finishes, none of what it is about is left.
LEMMA CutsFinish ==
    ASSUME IInv, Keeps, NEW r \in Requests, DropToken(r) \/ DropTokens(r) \/ DropAgent(r)
    PROVE  Promised!Next
<1>1. /\ born' = born /\ req' = [req EXCEPT ![r] = Idle]
      /\ req[r].pc \in {"drop_token", "drop_all", "drop_agent"}
  BY DEF DropToken, DropTokens, DropAgent, Answer, At
<1>2. req'[r] = Idle
  BY <1>1 DEF IInv, TypeOK
<1>3. Asked' = [Asked EXCEPT ![r] = Promised!NoClaim]
  <2>1. Claim(Idle) = Promised!NoClaim
    BY DEF Claim, Idle, Promised!NoClaim, Using, Cutting
  <2>q. QED  BY <1>1, <1>2, <2>1, OneClaim DEF IInv
<1>4. Asked[r].accepted /\ Asked[r].tokens = req[r].seen
  BY <1>1 DEF Asked, Claim, Using, Cutting, Accepted
<1>5. \A t \in req[r].seen : token'[t] = NoToken
  BY CutTokensGo
<1>6. req[r].seen \subseteq Tokens
  BY SeenAreTokens DEF IInv
<1>7. req[r].seen \cap Promised!Valid \subseteq Dead' \ Dead
  <2> SUFFICES ASSUME NEW t \in req[r].seen, t \in Promised!Valid
               PROVE  t \in Dead' \ Dead
    OBVIOUS
  <2>1. t \in Tokens /\ t \in born /\ t \notin Dead
    BY <1>6 DEF Promised!Valid, Stage, Dead
  <2>q. QED  BY <1>1, <1>5, <2>1 DEF Dead
<1>8. Promised!Finish(r)
  BY <1>1, <1>3, <1>4, <1>7, LivesEnd DEF Promised!Finish, Stages, Asked
<1>q. QED  BY <1>8 DEF Promised!Next

\* Every step is one that Credentials allows, or no step of it.
LEMMA CredentialsStep ==
    ASSUME IInv, IInv', Keeps, Next
    PROVE  Promised!Next \/ UNCHANGED Promised!vars
<1>1. CASE Others
  <2>1. born' = born /\ req' = req
    BY <1>1 DEF Others, Lapse, Transfer, Migrate, DeleteProject, DeleteWorkspace
  <2>q. QED  BY <2>1, OthersRetire
<1>2. ASSUME NEW r \in Requests, ServerStep(r)
      PROVE  Promised!Next \/ UNCHANGED Promised!vars
  BY <1>2, InsertIssues, CutsFinish, LookupAnswers DEF ServerStep
<1>q. QED  BY <1>1, <1>2, RequestAsks DEF Next

\* The handlers keep what Credentials promises to the holders of tokens and to
\* those who cut them off (services.py:522-577, 597-618).
THEOREM CredentialsKept == Spec => ImplementsCredentials
<1>1. Init => Promised!Init
  <2> SUFFICES ASSUME Init PROVE Promised!Init
    OBVIOUS
  <2>1. \A t \in Tokens : Stage(t) = "unissued"
    BY DEF Init, Stage
  <2>2. \A r \in Requests : Claim(req[r]) = Promised!NoClaim
    BY DEF Init, Idle, Claim, Promised!NoClaim, Using, Cutting
  <2>q. QED  BY <2>1, <2>2 DEF Promised!Init
<1>2. IInv /\ [Next]_vars => [Promised!Next]_(Promised!vars)
  <2>1. UNCHANGED vars => UNCHANGED Promised!vars
    BY DEF vars, Promised!vars, Stage
  <2>q. QED  BY <2>1, NextIInv, CredentialsStep
<1>q. QED  BY <1>1, <1>2, InvariantHolds, PTL DEF Spec, ImplementsCredentials, Promised!Spec
=============================================================================
