------------------------------- MODULE Agents -------------------------------
(***************************************************************************)
(* Agents and their tokens: AgentService of apps/workspaces/services.py,   *)
(* with verify_agent_token, which the proxies call, and the delivery of an *)
(* environment to a workload (WorkloadSelector.resolve_env_payload).       *)
(*                                                                         *)
(* A request is a process that reads first and writes last, every await an *)
(* action, as in Membership.  Who may ask for what is not modelled here:   *)
(* callers are admins of the workspace they name.  A lookup that fails     *)
(* ends the request with nothing changed.                                  *)
(***************************************************************************)
EXTENDS Naturals, FiniteSets

CONSTANTS
    Workspaces,  \* workspaces that exist at the start
    Projects,    \* projects that exist at the start
    FirstHome,   \* FirstHome[p]: the workspace of project p at the start
    Agents,      \* primary keys of agents
    Tokens,      \* primary keys of tokens
    Requests     \* requests in progress at the same time

ASSUME HomeAssumption == FirstHome \in [Projects -> Workspaces]
ASSUME KeysAssumption ==
    /\ Workspaces \cap Projects = {} /\ Agents \cap Tokens = {}
    /\ "none" \notin Workspaces \cup Projects \cup Agents \cup Tokens

VARIABLES
    live,        \* workspaces and projects that still exist
    home,        \* home[p]: the workspace project p is or was last in
    agent,       \* agent[a]: the row of agent a, or NoAgent
    token,       \* token[t]: the row of token t, or NoToken
    born,        \* primary keys that were ever given to a row
    req          \* req[r]: what request r has read so far

vars == <<live, home, agent, token, born, req>>
db   == <<live, home, agent, token, born>>

-----------------------------------------------------------------------------
\* reads is the can_env_read capability, void a revoked_at or an expires_at
\* that has passed.
NoAgent == [ws |-> "none", project |-> "none", reads |-> FALSE]
Agent   == [ws : Workspaces, project : Projects \cup {"none"}, reads : BOOLEAN]
NoToken == [of |-> "none", ws |-> "none", void |-> FALSE]
Token   == [of : Agents, ws : Workspaces, void : BOOLEAN]

\* A request: the agent or token it is about, the rows it has read, and as
\* history the tokens it is to delete, or those that were dead when it came.
Idle == [pc |-> "idle", ws |-> "none", project |-> "none", a |-> "none",
         t |-> "none", row |-> NoToken, reg |-> NoAgent, out |-> {}, seen |-> {}]
Pending ==
    [pc : {"insert_agent", "insert_token", "find_token", "drop_token", "drop_all",
           "find_agent", "drop_agent", "verify", "use", "deliver", "secrets",
           "allowlist"},
     ws : Workspaces \cup {"none"}, project : Projects \cup {"none"},
     a : Agents \cup {"none"}, t : Tokens \cup {"none"},
     row : Token \cup {NoToken}, reg : Agent \cup {NoAgent},
     out : SUBSET Projects, seen : SUBSET Tokens]

TypeOK ==
    /\ live \subseteq Workspaces \cup Projects
    /\ home \in [Projects -> Workspaces]
    /\ agent \in [Agents -> Agent \cup {NoAgent}]
    /\ token \in [Tokens -> Token \cup {NoToken}]
    /\ born \subseteq Agents \cup Tokens
    /\ req \in [Requests -> Pending \cup {Idle}]

Init ==
    /\ live = Workspaces \cup Projects
    /\ home = FirstHome
    /\ agent = [a \in Agents |-> NoAgent]
    /\ token = [t \in Tokens |-> NoToken]
    /\ born = {}
    /\ req = [r \in Requests |-> Idle]

-----------------------------------------------------------------------------
\* Steps a request is made of.

At(r, pc) == req[r].pc = pc

Start(r, rec) ==
    /\ At(r, "idle")
    /\ req' = [req EXCEPT ![r] = rec]
    /\ UNCHANGED db

\* A lookup: the request goes on with rec when it has found what it looked for.
GoOn(r, found, rec) ==
    /\ req' = [req EXCEPT ![r] = IF found THEN rec ELSE Idle]
    /\ UNCHANGED db

Answer(r) == req' = [req EXCEPT ![r] = Idle]

AgentIn(a, w) == agent[a] # NoAgent /\ agent[a].ws = w

TokensOf(a) == {t \in Tokens : token[t] # NoToken /\ token[t].of = a}

\* Not issued yet is not dead.
Dead == {t \in Tokens \cap born : token[t] = NoToken \/ token[t].void}

\* Deleting agents takes their tokens along.
Without(gone) == /\ agent' = [a \in Agents |-> IF a \in gone THEN NoAgent ELSE agent[a]]
                 /\ token' = [t \in Tokens |-> IF token[t].of \in gone THEN NoToken
                                               ELSE token[t]]

-----------------------------------------------------------------------------
(* create_agent_with_token, create_agent_token *)

BeginCreateAgent(r, w, p) ==
    /\ w \in live
    /\ Start(r, [Idle EXCEPT !.pc = "insert_agent", !.ws = w, !.project = p])

\* Both rows in one transaction.  It fails when the workspace or the project
\* is gone, and may fail when the name is taken.
InsertAgent(r, a, t, reads) ==
    /\ At(r, "insert_agent")
    /\ \/ /\ req[r].ws \in live /\ req[r].project \in live \cup {"none"}
          /\ {a, t} \cap born = {}
          /\ agent' = [agent EXCEPT ![a] = [ws |-> req[r].ws,
                                            project |-> req[r].project,
                                            reads |-> reads]]
          /\ token' = [token EXCEPT ![t] = [of |-> a, ws |-> req[r].ws, void |-> FALSE]]
          /\ born' = born \cup {a, t}
       \/ UNCHANGED <<agent, token, born>>
    /\ Answer(r)
    /\ UNCHANGED <<live, home>>

BeginCreateToken(r, w, a) ==
    /\ AgentIn(a, w)
    /\ Start(r, [Idle EXCEPT !.pc = "insert_token", !.ws = w, !.a = a])

\* Slip: the foreign keys are not checked.
IssuableAnyway(w, a) == a \in Agents

\* The foreign keys of a token.
Issuable(w, a) == w \in live /\ agent[a] # NoAgent

InsertToken(r, t) ==
    /\ At(r, "insert_token")
    /\ \/ /\ Issuable(req[r].ws, req[r].a)
          /\ t \notin born
          /\ token' = [token EXCEPT ![t] = [of |-> req[r].a, ws |-> req[r].ws,
                                            void |-> FALSE]]
          /\ born' = born \cup {t}
       \/ /\ ~Issuable(req[r].ws, req[r].a)
          /\ UNCHANGED <<token, born>>
    /\ Answer(r)
    /\ UNCHANGED <<live, home, agent>>

-----------------------------------------------------------------------------
(* delete_agent_token, bulk_delete_agent_tokens, delete_agent *)

BeginDeleteToken(r, w, a, t) ==
    /\ AgentIn(a, w)
    /\ Start(r, [Idle EXCEPT !.pc = "find_token", !.a = a, !.t = t, !.seen = {t}])

FindToken(r) ==
    /\ At(r, "find_token")
    /\ GoOn(r, req[r].t \in TokensOf(req[r].a), [req[r] EXCEPT !.pc = "drop_token"])

DropToken(r) ==
    /\ At(r, "drop_token")
    /\ token' = [token EXCEPT ![req[r].t] = NoToken]
    /\ Answer(r)
    /\ UNCHANGED <<live, home, agent, born>>

BeginDeleteTokens(r, w, a) ==
    /\ AgentIn(a, w)
    /\ Start(r, [Idle EXCEPT !.pc = "drop_all", !.a = a, !.seen = TokensOf(a)])

\* Slip: revoked and expired tokens are kept.
DropActiveTokens(r) ==
    /\ At(r, "drop_all")
    /\ token' = [t \in Tokens |-> IF t \in TokensOf(req[r].a) /\ ~token[t].void
                                  THEN NoToken ELSE token[t]]
    /\ Answer(r)
    /\ UNCHANGED <<live, home, agent, born>>

DropTokens(r) ==
    /\ At(r, "drop_all")
    /\ token' = [t \in Tokens |-> IF t \in TokensOf(req[r].a) THEN NoToken ELSE token[t]]
    /\ Answer(r)
    /\ UNCHANGED <<live, home, agent, born>>

BeginDeleteAgent(r, w, a) ==
    /\ w \in live /\ a \in born
    /\ Start(r, [Idle EXCEPT !.pc = "find_agent", !.ws = w, !.a = a,
                             !.seen = TokensOf(a)])

FindAgent(r) ==
    /\ At(r, "find_agent")
    /\ GoOn(r, AgentIn(req[r].a, req[r].ws), [req[r] EXCEPT !.pc = "drop_agent"])

DropAgent(r) ==
    /\ At(r, "drop_agent")
    /\ Without({req[r].a})
    /\ Answer(r)
    /\ UNCHANGED <<live, home, born>>

-----------------------------------------------------------------------------
(* verify_agent_token, resolve_env_payload *)

BeginUse(r, pc, t) ==
    /\ t \in born
    /\ Start(r, [Idle EXCEPT !.pc = pc, !.t = t, !.seen = Dead \cap {t}])

\* The token comes with its registration, in one query.  Kept are the instance
\* that is saved and the registration that decides what is delivered; what else
\* was read goes into the answer.

\* Slip: neither the revocation nor the expiry is looked at.
HonouredAnyway(t) == token[t] # NoToken

Honoured(t) == token[t] # NoToken /\ ~token[t].void

ReadVerified(r) ==
    /\ At(r, "verify")
    /\ GoOn(r, Honoured(req[r].t),
            [req[r] EXCEPT !.pc = "use", !.row = token[req[r].t]])

\* Slip: the whole row is saved.
UseSavesRow(r) ==
    /\ At(r, "use")
    /\ token' = [token EXCEPT ![req[r].t] = req[r].row]
    /\ req' = [req EXCEPT ![r].pc = "allowlist"]
    /\ UNCHANGED <<live, home, agent, born>>

\* last_used_at alone is saved; without the row that is an error.
Use(r) ==
    /\ At(r, "use")
    /\ GoOn(r, token[req[r].t] # NoToken, [req[r] EXCEPT !.pc = "allowlist"])

ReadDelivered(r) ==
    /\ At(r, "deliver")
    /\ GoOn(r, Honoured(req[r].t) /\ agent[token[req[r].t].of].reads,
            [req[r] EXCEPT !.pc = "secrets", !.reg = agent[token[req[r].t].of]])

\* Slip: an agent of a project gets the secrets of its whole workspace.
InWorkspace(reg) == {p \in Projects \cap live : home[p] = reg.ws}

\* The projects whose secrets an agent gets: its own, or all of its workspace.
InScope(reg) ==
    {p \in Projects \cap live :
        IF reg.project = "none" THEN home[p] = reg.ws ELSE p = reg.project}

ReadSecrets(r) ==
    /\ At(r, "secrets")
    /\ GoOn(r, TRUE, [req[r] EXCEPT !.pc = "allowlist", !.out = InScope(req[r].reg)])

ReadAllowlist(r) ==
    /\ At(r, "allowlist")
    /\ Answer(r)
    /\ UNCHANGED db

-----------------------------------------------------------------------------
(* What happens beside. *)

\* A token expires, or an operator sets revoked_at on the admin site (who could
\* also clear it there; that is left out).
Lapse(t) ==
    /\ token[t] # NoToken /\ ~token[t].void
    /\ token' = [token EXCEPT ![t].void = TRUE]
    /\ UNCHANGED <<live, home, agent, born, req>>

\* transfer_project: the registrations move along, their tokens do not.
Transfer(p, w) ==
    /\ {p, w} \subseteq live /\ home[p] # w
    /\ home' = [home EXCEPT ![p] = w]
    /\ agent' = [a \in Agents |-> IF agent[a].project = p THEN [agent[a] EXCEPT !.ws = w]
                                  ELSE agent[a]]
    /\ UNCHANGED <<live, token, born, req>>

\* invite_to_project may move a project without its agents.
Migrate(p, w) ==
    /\ {p, w} \subseteq live /\ home[p] # w
    /\ home' = [home EXCEPT ![p] = w]
    /\ UNCHANGED <<live, agent, token, born, req>>

DeleteProject(p) ==
    /\ p \in live
    /\ live' = live \ {p}
    /\ Without({a \in Agents : agent[a].project = p})
    /\ UNCHANGED <<home, born, req>>

\* Projects, agents and tokens go with their workspace.
DeleteWorkspace(w) ==
    LET gone == {w} \cup {p \in Projects : home[p] = w} IN
    /\ w \in live
    /\ live' = live \ gone
    /\ agent' = [a \in Agents |-> IF {agent[a].ws, agent[a].project} \cap gone # {}
                                  THEN NoAgent ELSE agent[a]]
    /\ token' = [t \in Tokens |->
           IF \/ token[t].ws = w
              \/ \E a \in Agents : /\ token[t].of = a
                                   /\ {agent[a].ws, agent[a].project} \cap gone # {}
           THEN NoToken ELSE token[t]]
    /\ UNCHANGED <<home, born, req>>

-----------------------------------------------------------------------------
NewRequest(r) ==
    \/ \E w \in Workspaces, p \in Projects \cup {"none"} : BeginCreateAgent(r, w, p)
    \/ \E w \in Workspaces, a \in Agents :
          \/ BeginCreateToken(r, w, a)
          \/ BeginDeleteTokens(r, w, a)
          \/ BeginDeleteAgent(r, w, a)
          \/ \E t \in Tokens : BeginDeleteToken(r, w, a, t)
    \/ \E t \in Tokens : BeginUse(r, "verify", t) \/ BeginUse(r, "deliver", t)

ServerStep(r) ==
    \/ \E a \in Agents, t \in Tokens, reads \in BOOLEAN : InsertAgent(r, a, t, reads)
    \/ \E t \in Tokens : InsertToken(r, t)
    \/ FindToken(r) \/ DropToken(r) \/ DropTokens(r) \/ FindAgent(r) \/ DropAgent(r)
    \/ ReadVerified(r) \/ Use(r) \/ ReadDelivered(r) \/ ReadSecrets(r)
    \/ ReadAllowlist(r)

Others ==
    \/ \E t \in Tokens : Lapse(t)
    \/ \E p \in Projects, w \in Workspaces : Transfer(p, w) \/ Migrate(p, w)
    \/ \E p \in Projects : DeleteProject(p)
    \/ \E w \in Workspaces : DeleteWorkspace(w)

Next == Others \/ \E r \in Requests : NewRequest(r) \/ ServerStep(r)

Spec == Init /\ [][Next]_vars

-----------------------------------------------------------------------------
(* Properties *)

\* No token without its agent and its workspace and no agent without its own,
\* although what they hang from is looked up awaits before the insert
\* (services.py:522-537; models.py:264-270, on_delete=CASCADE).
TokensHaveAgents ==
    /\ \A t \in Tokens : token[t] # NoToken => /\ agent[token[t].of] # NoAgent
                                               /\ token[t].ws \in live
    /\ \A a \in Agents : agent[a] # NoAgent => /\ agent[a].ws \in live
                                               /\ agent[a].project \in live \cup {"none"}

\* Where a token is in its life, and what a request claims of it.
Stage(t) ==
    IF t \notin born THEN "unissued"
    ELSE IF token[t] = NoToken \/ token[t].void THEN "dead" ELSE "valid"

Using    == {"verify", "deliver", "use", "secrets", "allowlist"}
Cutting  == {"find_token", "find_agent", "drop_token", "drop_agent", "drop_all"}
Accepted == {"use", "secrets", "allowlist", "drop_token", "drop_agent", "drop_all"}

Claim(q) ==
    IF q.pc \in Using
    THEN [to |-> "use", tokens |-> {q.t}, accepted |-> q.pc \in Accepted]
    ELSE IF q.pc \in Cutting
    THEN [to |-> "cut", tokens |-> q.seen, accepted |-> q.pc \in Accepted]
    ELSE [to |-> "nothing", tokens |-> {}, accepted |-> FALSE]

Promised == INSTANCE Credentials
    WITH stage <- [t \in Tokens |-> Stage(t)], claim <- [r \in Requests |-> Claim(req[r])]

\* The handlers keep the life of a token and what uses and deletions promise,
\* although each decides on rows that it read awaits ago
\* (services.py:522-577, 597-618; selectors.py:498-511).
ImplementsCredentials == Promised!Spec

\* A revoked, expired or deleted token never comes back, whatever was read of
\* it before: the stamp of last_used_at writes nothing else (services.py:617-618).
RevocationIsFinal == [][Dead \subseteq Dead']_vars

\* When a deletion answers, none of the tokens that were there for it when it
\* began is left, even if others are issued meanwhile (services.py:550-577).
DeletionIsFinal ==
    [][\A r \in Requests :
          req[r].pc \in {"drop_token", "drop_all", "drop_agent"} /\ req'[r] = Idle
             => \A t \in req[r].seen : token'[t] = NoToken]_vars

\* A token that was dead when a request came is not honoured by it
\* (services.py:597-615; selectors.py:498-511).
DeadTokensAreRefused ==
    \A r \in Requests :
        req[r].pc \in {"use", "secrets", "allowlist"} => req[r].t \notin req[r].seen

\* An environment is delivered only for an agent that may read it, and for an
\* agent of a project holds the secrets of no other (selectors.py:513-551).
DeliveredToReaders ==
    \A r \in Requests :
        req[r].out # {} => /\ req[r].reg.reads
                           /\ req[r].reg.project = "none" \/ req[r].out = {req[r].reg.project}

\* What is left for an inductive invariant: rows have keys that were given out,
\* and a request names what it needs and still has to delete what it began with.
RowsAreBorn ==
    /\ \A a \in Agents : agent[a] # NoAgent => a \in born
    /\ \A t \in Tokens : token[t] # NoToken => t \in born

Sound(q) ==
    /\ q.pc \in {"insert_agent", "insert_token"} => q.ws \in Workspaces
    /\ q.pc \in {"insert_token", "find_token", "drop_all", "find_agent", "drop_agent"} =>
          q.a \in Agents
    /\ q.pc \in {"find_token", "drop_token"} => q.t \in Tokens /\ q.seen = {q.t}
    /\ q.pc \in {"drop_all", "find_agent", "drop_agent"} =>
          \A t \in q.seen : t \in born /\ (token[t] = NoToken \/ token[t].of = q.a)
    /\ q.pc \in {"verify", "deliver"} => q.t \in Tokens /\ q.seen \subseteq Dead
    /\ q.pc \in {"use", "secrets", "allowlist"} =>
          q.t \in Tokens /\ q.t \notin q.seen
    /\ q.pc = "secrets" => q.reg.reads
    /\ q.pc # "allowlist" => q.out = {}
    /\ q.out # {} => /\ q.reg.reads
                     /\ q.reg.project = "none" \/ q.out = {q.reg.project}

\* The inductive invariant of AgentsProofs.
IInv ==
    /\ TypeOK
    /\ TokensHaveAgents
    /\ RowsAreBorn
    /\ \A r \in Requests : Sound(req[r])
=============================================================================
