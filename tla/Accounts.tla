------------------------------ MODULE Accounts ------------------------------
(***************************************************************************)
(* Accounts, their sessions, and the import of a migration bundle          *)
(* (apps/accounts/services.py and views.py, apps/migration).               *)
(*                                                                         *)
(* register_user writes in one transaction on a thread; a login, a refresh *)
(* and a change of the password are not transactions; import_bundle is a   *)
(* transaction of many statements, and what it has written is locked and   *)
(* not visible to others until it commits (READ COMMITTED).  A request is  *)
(* a small process as in Membership, and any of them may break off: the    *)
(* worker is killed, the source of a bundle does not answer, the database  *)
(* aborts a deadlock.                                                      *)
(***************************************************************************)
EXTENDS Naturals, FiniteSets

CONSTANTS
    Emails,
    Legacy,    \* addresses with an account from before billing ids and keys
    OldTokens, \* their refresh tokens of that time, without a billing id
    KeyPairs,  \* a public key, or the private key that belongs to it, encrypted
    Malformed, \* those whose public key nothing can be sealed for
    Sendable,  \* the keys that come with registrations
    Bundles,   \* migration bundles
    Jtis,      \* jti of the migration tokens that source servers have issued
    Tokens,    \* jti of refresh tokens
    Requests   \* requests in progress at the same time

NoKey == "none"
NoJti == "none"

\* The private key that an owner sends with a new password.
Own == "own"

\* The two columns.  Both are optional wherever keys are sent.
PubKeys  == KeyPairs \cup {NoKey}
PrivKeys == KeyPairs \cup {NoKey, Own}
Keys     == [pub : PubKeys, priv : PrivKeys]

\* The account a bundle is of, its keys, and the other addresses it names.
Bundle == [email : Emails, pub : PubKeys, priv : KeyPairs \cup {NoKey},
           others : SUBSET Emails]

NoBundle == [email |-> "none", pub |-> NoKey, priv |-> NoKey, others |-> {}]

ASSUME AccountsAssumption ==
    /\ Legacy \subseteq Emails /\ OldTokens \subseteq Tokens
    /\ Malformed \subseteq KeyPairs /\ Bundles \subseteq Bundle
    /\ Sendable \subseteq [pub : PubKeys, priv : KeyPairs \cup {NoKey}]
    /\ \A k \in Sendable : k.pub = k.priv \/ NoKey \in {k.pub, k.priv}
    /\ "none" \notin Emails \cup KeyPairs \cup Jtis \cup Tokens
    /\ {"own", "plain"} \cap KeyPairs = {}

VARIABLES
    user,      \* user[e]: the account of e, or NoUser
    token,     \* token[t]: the refresh token t, or NoToken
    black,     \* the blacklist of refresh tokens
    spent,     \* history: refresh tokens that clients have exchanged
    used,      \* the nonces of migration tokens
    imports,   \* history: imports[j] imports with token j were committed
    ids,       \* ids[e]: the billing ids that were generated for e
    req        \* req[r]: where request r stands and what it has read

vars == <<user, token, black, spent, used, imports, ids, req>>

-----------------------------------------------------------------------------
\* bill numbers the billing ids generated for the account, 0 is null; home is
\* what the key of the personal workspace is sealed for, or that it is not.
\* whole is history: both keys came with the registration.
Plain  == "plain"
User   == [pw : {"set", "none"}, pub : PubKeys, priv : PrivKeys, bill : Nat,
           home : KeyPairs \cup {NoKey, Plain}, whole : BOOLEAN]
NoUser == [pw |-> "no account", pub |-> NoKey, priv |-> NoKey, bill |-> 0,
           home |-> NoKey, whole |-> FALSE]

\* The claims of a token; 0 when there is no billing id among them.  old is
\* history: it descends from a token of before billing ids.
Token   == [email : Emails, bill : Nat, old : BOOLEAN]
NoToken == [email |-> "none", bill |-> 0, old |-> FALSE]

\* late is history: the token had been exchanged when the request began.
Idle == [pc |-> "idle", email |-> "none", keys |-> [pub |-> NoKey, priv |-> NoKey],
         bill |-> 0, tok |-> "none", late |-> FALSE, jti |-> NoJti,
         bundle |-> NoBundle, seen |-> NoUser]
Pcs == {"create", "backfill", "backfill_me", "issue", "check", "revoke", "renew",
        "password", "nonce", "account", "save", "rest"}
Pending == [pc : Pcs, email : Emails \cup {"none"}, keys : Keys,
            bill : Nat, tok : Tokens \cup {"none"}, late : BOOLEAN,
            jti : Jtis \cup {NoJti}, bundle : Bundles \cup {NoBundle},
            seen : User \cup {NoUser}]

TypeOK ==
    /\ user \in [Emails -> User \cup {NoUser}]
    /\ token \in [Tokens -> Token \cup {NoToken}]
    /\ black \subseteq Tokens /\ spent \subseteq Tokens
    /\ used \subseteq Jtis
    /\ imports \in [Jtis -> Nat]
    /\ ids \in [Emails -> Nat]
    /\ req \in [Requests -> Pending \cup {Idle}]

\* Accounts of before billing ids have been given one since, or not.
Init ==
    \E given \in [Legacy -> {0, 1}], of \in [OldTokens -> Legacy] :
    /\ ids = [e \in Emails |-> IF e \in Legacy THEN given[e] ELSE 0]
    /\ user = [e \in Emails |-> IF e \in Legacy
                                THEN [pw |-> "set", pub |-> NoKey, priv |-> NoKey,
                                      bill |-> given[e], home |-> NoKey, whole |-> FALSE]
                                ELSE NoUser]
    /\ token = [t \in Tokens |-> IF t \in OldTokens
                                  THEN [email |-> of[t], bill |-> 0, old |-> TRUE]
                                  ELSE NoToken]
    /\ black = {} /\ spent = {}
    /\ used = {}
    /\ imports = [j \in Jtis |-> 0]
    /\ req = [r \in Requests |-> Idle]

-----------------------------------------------------------------------------
\* Steps a request is made of.

At(r, pc) == req[r].pc = pc

Start(r, rec) ==
    /\ At(r, "idle")
    /\ req' = [req EXCEPT ![r] = rec]
    /\ UNCHANGED <<user, token, black, spent, used, imports, ids>>

Go(r, pc) == req' = [req EXCEPT ![r].pc = pc]
Answer(r) == req' = [req EXCEPT ![r] = Idle]

\* The account of e is written by a transaction that has not committed.
Locked(e) == \E q \in Requests : At(q, "rest") /\ req[q].email = e

\* Bound on the clients: as many sessions are asked for as there are tokens.
Unissued   == {t \in Tokens : token[t] = NoToken}
TokensLeft == Cardinality({q \in Requests : req[q].pc \in {"backfill", "issue",
                             "check", "revoke", "renew"}}) < Cardinality(Unissued)

-----------------------------------------------------------------------------
(* register_user *)

BeginRegister(r, e, k) ==
    /\ user[e] = NoUser
    /\ Start(r, [Idle EXCEPT !.pc = "create", !.email = e, !.keys = k])

\* A sealed box needs a public key of the right form; without one the key is
\* stored as it is.
Sealed(pub) == IF pub \in Malformed THEN Plain ELSE pub

NewUser(pw, keys, home) ==
    [pw |-> pw, pub |-> keys.pub, priv |-> keys.priv, bill |-> 1, home |-> home,
     whole |-> home # NoKey /\ keys.priv # NoKey]

\* One transaction: the account and, when a public key was sent along, its
\* personal workspace.  It fails when the address is taken by now.
CreateAccount(r) ==
    LET e == req[r].email  keys == req[r].keys IN
    /\ At(r, "create") /\ ~Locked(e)
    /\ IF user[e] = NoUser
       THEN /\ user' = [user EXCEPT ![e] = NewUser("set", keys, Sealed(keys.pub))]
            /\ ids' = [ids EXCEPT ![e] = @ + 1]
       ELSE UNCHANGED <<user, ids>>
    /\ Answer(r)
    /\ UNCHANGED <<token, black, spent, used, imports>>

-----------------------------------------------------------------------------
(* authenticate_user, and /me for a token from before billing ids *)

BeginLogin(r, e) ==
    /\ user[e].pw = "set" /\ TokensLeft
    /\ Start(r, [Idle EXCEPT !.pc = IF user[e].bill = 0 THEN "backfill" ELSE "issue",
                             !.email = e, !.bill = user[e].bill])

BeginMe(r, e) ==
    /\ e \in Legacy /\ user[e] # NoUser /\ user[e].bill = 0
    /\ Start(r, [Idle EXCEPT !.pc = "backfill_me", !.email = e])

\* Slip: the id is put into the token and not saved.
BackfillUnsaved(r) ==
    /\ req[r].pc \in {"backfill", "backfill_me"}
    /\ IF At(r, "backfill")
       THEN req' = [req EXCEPT ![r].pc = "issue", ![r].bill = 1]
       ELSE Answer(r)
    /\ UNCHANGED <<user, token, black, spent, used, imports, ids>>

\* An id is generated and saved with update_fields=["billing_id"].
Backfill(r) ==
    LET e == req[r].email  new == ids[e] + 1 IN
    /\ req[r].pc \in {"backfill", "backfill_me"} /\ ~Locked(e)
    /\ user' = [user EXCEPT ![e].bill = new]
    /\ ids' = [ids EXCEPT ![e] = new]
    /\ IF At(r, "backfill")
       THEN req' = [req EXCEPT ![r].pc = "issue", ![r].bill = new]
       ELSE Answer(r)
    /\ UNCHANGED <<token, black, spent, used, imports>>

\* The claims are those of the row in memory.
Issue(r, t) ==
    /\ At(r, "issue") /\ t \in Unissued
    /\ token' = [token EXCEPT ![t] = [email |-> req[r].email, bill |-> req[r].bill,
                                         old |-> FALSE]]
    /\ Answer(r)
    /\ UNCHANGED <<user, black, spent, used, imports, ids>>

-----------------------------------------------------------------------------
(* refresh_token: rotation, with the blacklist after it *)

BeginRefresh(r, t) ==
    /\ token[t] # NoToken /\ TokensLeft
    /\ Start(r, [Idle EXCEPT !.pc = "check", !.tok = t, !.late = (t \in spent)])

CheckToken(r) ==
    /\ At(r, "check")
    /\ IF req[r].tok \in black THEN Answer(r) ELSE Go(r, "revoke")
    /\ UNCHANGED <<user, token, black, spent, used, imports, ids>>

\* Slip: rotation without the blacklist after it.
RevokeNothing(r) ==
    /\ At(r, "revoke")
    /\ Go(r, "renew")
    /\ UNCHANGED <<user, token, black, spent, used, imports, ids>>

\* get_or_create: a token that another request has blacklisted meanwhile is
\* no error.
Revoke(r) ==
    /\ At(r, "revoke")
    /\ black' = black \cup {req[r].tok}
    /\ Go(r, "renew")
    /\ UNCHANGED <<user, token, spent, used, imports, ids>>

\* set_jti: the same claims under a new jti.
Renew(r, t) ==
    /\ At(r, "renew") /\ t \in Unissued
    /\ token' = [token EXCEPT ![t] = token[req[r].tok]]
    /\ spent' = spent \cup {req[r].tok}
    /\ Answer(r)
    /\ UNCHANGED <<user, black, used, imports, ids>>

-----------------------------------------------------------------------------
(* set_new_password and change_password *)

\* The row is read, to check the link of the reset or the current password.  A
\* private key, encrypted with the new password, may come along.
BeginPassword(r, e, k) ==
    /\ user[e] # NoUser
    /\ Start(r, [Idle EXCEPT !.pc = "password", !.email = e, !.keys.priv = k,
                             !.seen = user[e]])

\* asave() of the whole row as it was read, with an id when it had none.
SavePassword(r) ==
    LET e == req[r].email  seen == req[r].seen  k == req[r].keys.priv
        new == IF seen.bill = 0 THEN ids[e] + 1 ELSE ids[e]
    IN
    /\ At(r, "password") /\ ~Locked(e)
    /\ user' = [user EXCEPT ![e].pw = "set", ![e].pub = seen.pub,
                            ![e].priv = IF k = NoKey THEN seen.priv ELSE k,
                            ![e].bill = IF seen.bill = 0 THEN new ELSE seen.bill]
    /\ ids' = [ids EXCEPT ![e] = new]
    /\ Answer(r)
    /\ UNCHANGED <<token, black, spent, used, imports>>

-----------------------------------------------------------------------------
(* import_migration_data *)

\* verify_token refuses a token whose nonce is there; then the bundle is fetched
\* from the source, which may take its time or fail.  An inline bundle comes
\* without a token.
BeginImport(r, b, j) ==
    /\ j \notin used
    /\ Start(r, [Idle EXCEPT !.pc = IF j = NoJti THEN "account" ELSE "nonce",
                             !.email = b.email, !.bundle = b, !.jti = j])

\* Slip: the nonce is not unique, as another import may have stored it since.
ClaimNonceAgain(r) ==
    /\ At(r, "nonce")
    /\ Go(r, "account")
    /\ UNCHANGED <<user, token, black, spent, used, imports, ids>>

\* The nonce is unique: the INSERT waits for a transaction that has inserted
\* the same one, and fails when that commits.
ClaimNonce(r) ==
    LET j == req[r].jti IN
    /\ At(r, "nonce")
    /\ \A q \in Requests : req[q].pc \in {"account", "save", "rest"} => req[q].jti # j
    /\ IF j \in used THEN Answer(r) ELSE Go(r, "account")
    /\ UNCHANGED <<user, token, black, spent, used, imports, ids>>

ReadAccount(r) ==
    /\ At(r, "account")
    /\ req' = [req EXCEPT ![r].pc = "save", ![r].seen = user[req[r].email]]
    /\ UNCHANGED <<user, token, black, spent, used, imports, ids>>

\* Slip: an account that has appeared since is written over.
SaveAccountAnyway(r) ==
    /\ At(r, "save") /\ ~Locked(req[r].email)
    /\ Go(r, "rest")
    /\ UNCHANGED <<user, token, black, spent, used, imports, ids>>

\* get_or_create: an INSERT that fails is followed by another read.  The keys
\* of an account that was there are saved, whatever became of the row since it
\* was read.
SaveAccount(r) ==
    LET e == req[r].email IN
    /\ At(r, "save") /\ ~Locked(e)
    /\ IF req[r].seen = NoUser /\ user[e] # NoUser
       THEN req' = [req EXCEPT ![r].seen = user[e]]
       ELSE Go(r, "rest")
    /\ UNCHANGED <<user, token, black, spent, used, imports, ids>>

\* Slip: the keys of the bundle come first.
MergedAnew(seen, given) == IF given = NoKey THEN seen ELSE given

\* Of each of the two columns: only what was missing is taken from the bundle.
Merged(seen, given) == IF seen = NoKey THEN given ELSE seen

\* What the transaction has made of the account itself.
Written(r) ==
    LET e == req[r].email  b == req[r].bundle  seen == req[r].seen IN
    IF seen = NoUser
    THEN NewUser("set", b, NoKey)
    ELSE [user[e] EXCEPT !.pub = Merged(seen.pub, b.pub),
                         !.priv = Merged(seen.priv, b.priv)]

\* An account for an address that a bundle names, without password and keys.
Placeholder == NewUser("none", [pub |-> NoKey, priv |-> NoKey], NoKey)

\* The workspaces, with an account for every other address that has none.
FinishImport(r) ==
    LET e == req[r].email  b == req[r].bundle  j == req[r].jti
        named == {o \in b.others \ {e} : user[o] = NoUser}
    IN
    /\ At(r, "rest")
    /\ \A q \in Requests \ {r} : At(q, "rest") => req[q].email \notin named
    /\ user' = [o \in Emails |-> IF o = e THEN Written(r)
                                 ELSE IF o \in named THEN Placeholder
                                 ELSE user[o]]
    /\ ids' = [o \in Emails |-> IF o \in named \/ (o = e /\ req[r].seen = NoUser)
                                THEN ids[o] + 1 ELSE ids[o]]
    /\ IF j = NoJti THEN UNCHANGED <<used, imports>>
       ELSE /\ used' = used \cup {j}
            /\ imports' = [imports EXCEPT ![j] = @ + 1]
    /\ Answer(r)
    /\ UNCHANGED <<token, black, spent>>

-----------------------------------------------------------------------------
\* The request ends here; a transaction that it is in is rolled back.  So ends
\* an import with a workspace, project or agent that is not on this server:
\* import_bundle creates it with columns that the model does not have.
Break(r) ==
    /\ ~At(r, "idle")
    /\ Answer(r)
    /\ UNCHANGED <<user, token, black, spent, used, imports, ids>>

NewRequest(r) ==
    \/ \E e \in Emails : \/ \E k \in Sendable : BeginRegister(r, e, k)
                         \/ \E k \in {NoKey, Own} : BeginPassword(r, e, k)
                         \/ BeginLogin(r, e)
                         \/ BeginMe(r, e)
    \/ \E t \in Tokens : BeginRefresh(r, t)
    \/ \E b \in Bundles, j \in Jtis \cup {NoJti} : BeginImport(r, b, j)

ServerStep(r) ==
    \/ CreateAccount(r) \/ SavePassword(r)
    \/ Backfill(r) \/ \E t \in Tokens : Issue(r, t)
    \/ CheckToken(r) \/ Revoke(r) \/ \E t \in Tokens : Renew(r, t)
    \/ ClaimNonce(r) \/ ReadAccount(r) \/ SaveAccount(r) \/ FinishImport(r)

Next == \E r \in Requests : NewRequest(r) \/ ServerStep(r) \/ Break(r)

Spec == Init /\ [][Next]_vars

-----------------------------------------------------------------------------
(* Properties *)

\* "Consumes the token_jti nonce to prevent replay" (migration/services.py:251):
\* a migration token is used up by the one import that is committed with it,
\* although overlapping imports have all found it unused, and by no import
\* that fails or breaks off (migration/services.py:256-263, views.py:82-114).
ImportedOnce ==
    \A j \in Jtis : imports[j] = IF j \in used THEN 1 ELSE 0

\* The key of a personal workspace is sealed for the public key of its owner's
\* account, or not at all when that has a wrong form; and the private key of an
\* account that came with both is the one it came with or one that its owner has
\* sent with a new password.  No import puts the keys of a bundle there, though
\* it overlaps the registration or saves what it read before, and no password
\* change does that has read the row before (accounts/services.py:103-142,
\* 213-244, migration/services.py:265-281).  An account that came without a
\* private key can get one from a bundle that does not belong to its public key.
HomeIsReadable ==
    \A e \in Emails :
        user[e].home # NoKey =>
            /\ user[e].home = Sealed(user[e].pub)
            /\ user[e].whole => user[e].priv \in {user[e].pub, Own}

\* A key that is there stays, whatever is imported: imports fill in what is
\* missing, column by column, and only a password change that carries one puts
\* another private key in its place (accounts/services.py:226-228, 243-244,
\* migration/services.py:265-281).  For that, no import and no password change
\* under way may have read the row before the key was in it: both save what they
\* have read, and such a key is lost.
Settled(e, col) ==
    /\ user[e][col] # NoKey
    /\ \A r \in Requests :
          req[r].pc \in {"password", "save", "rest"} /\ req[r].email = e
            /\ req[r].seen # NoUser
          => req[r].seen[col] = user[e][col]

Rekeyed(e) ==
    \E r \in Requests : /\ At(r, "password") /\ req[r].email = e
                        /\ req[r].keys.priv # NoKey /\ req'[r] = Idle

KeysAreFinal ==
    [][\A e \in Emails : \A col \in {"pub", "priv"} :
         Settled(e, col) =>
            \/ user'[e][col] = user[e][col] /\ Settled(e, col)'
            \/ col = "priv" /\ Rekeyed(e)]_vars

\* A refresh token that was exchanged is refused from then on: of the refreshes
\* that an answered one did not overlap, none is given a second successor
\* (accounts/services.py:255-292).
RenewedOnce ==
    [][\A r \in Requests, t \in Tokens :
         token'[t] # token[t] /\ At(r, "renew") /\ req'[r] = Idle
         => ~req[r].late]_vars

\* Through any number of rotations tokens carry the billing id of the account,
\* unless overlapping requests have given it two; or none, and these are the ones
\* that go back to a token of before billing ids, as a rotation copies the claims
\* (accounts/services.py:165-170, 264-278, views.py:124-132).
TokensNameTheAccount ==
    \A t \in Tokens : token[t] # NoToken =>
        IF token[t].old THEN token[t].bill = 0
        ELSE /\ token[t].bill # 0
             /\ ids[token[t].email] <= 1 => token[t].bill = user[token[t].email].bill

-----------------------------------------------------------------------------
(* The inductive invariant *)

\* What is known of keys that are or were the account's.
KeysOf(u, e) ==
    /\ u.home = user[e].home /\ u.whole = user[e].whole
    /\ u.home # NoKey => /\ u.pub # NoKey /\ u.home = Sealed(u.pub)
                         /\ u.pub = user[e].pub
                         /\ u.whole => u.priv \in {u.pub, Own}

\* An account that was given one billing id has it.
IdsOf(bill, e) == ids[e] <= 1 => bill = ids[e]

\* What a request relies on.
Grounded(q) ==
    /\ q.pc \notin {"idle", "check", "revoke", "renew"} => q.email \in Emails
    /\ q.pc \in {"backfill", "backfill_me", "issue"} => user[q.email] # NoUser
    /\ q.pc = "issue" => q.bill # 0 /\ IdsOf(q.bill, q.email)
    /\ q.pc \in {"check", "revoke", "renew"} =>
          /\ q.tok \in Tokens /\ token[q.tok] # NoToken
          /\ q.late => q.tok \in spent /\ q.pc = "check"
          /\ q.pc = "renew" => q.tok \in black
    /\ q.pc = "create" => q.keys \in Sendable
    /\ q.pc \in {"nonce", "account", "save", "rest"} => q.bundle \in Bundles
    /\ q.pc \in {"account", "save", "rest"} => q.jti \notin used
    /\ q.pc \in {"password", "save", "rest"} /\ q.seen # NoUser =>
          user[q.email] # NoUser /\ KeysOf(q.seen, q.email)
    /\ q.pc = "password" => /\ q.seen # NoUser /\ q.keys.priv \in {NoKey, Own}
                            /\ q.seen.bill # 0 => IdsOf(q.seen.bill, q.email)
    /\ q.pc = "rest" /\ q.seen = NoUser => user[q.email] = NoUser

\* What two transactions may not have written at the same time.
Apart(q, r) ==
    /\ q.pc = "rest" /\ r.pc = "rest" => q.email # r.email
    /\ {q.pc, r.pc} \subseteq {"account", "save", "rest"} =>
          q.jti # r.jti \/ q.jti = NoJti

TokensHaveAccounts ==
    \A t \in Tokens : token[t] # NoToken => user[token[t].email] # NoUser

AccountIsOK(e) ==
    /\ user[e] = NoUser => ids[e] = 0
    /\ IdsOf(user[e].bill, e)
    /\ KeysOf(user[e], e)

IInv ==
    /\ TypeOK
    /\ ImportedOnce /\ HomeIsReadable /\ TokensNameTheAccount
    /\ \A e \in Emails : AccountIsOK(e)
    /\ TokensHaveAccounts /\ spent \subseteq black
    /\ \A r \in Requests : Grounded(req[r])
    /\ \A q, r \in Requests : q # r => Apart(req[q], req[r])
=============================================================================
