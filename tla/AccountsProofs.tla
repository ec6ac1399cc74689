--------------------------- MODULE AccountsProofs ---------------------------
(***************************************************************************)
(* Proofs about Accounts, for any addresses, keys, bundles, tokens and     *)
(* number of requests.                                                     *)
(***************************************************************************)
EXTENDS Accounts, TLAPS

Importing == {"account", "save", "rest"}

\* Idle is the only value that is at "idle".
LEMMA PendingOrIdle ==
    ASSUME TypeOK, NEW r \in Requests
    PROVE  /\ req[r] = Idle \/ req[r] \in Pending
           /\ req[r].pc = "idle" => req[r] = Idle
           /\ req[r].pc # "idle" => req[r] \in Pending
BY DEF TypeOK, Pending, Pcs, Idle

LEMMA NoUserIsNone == NoUser \notin User
BY DEF NoUser, User

LEMMA NoTokenIsNone == NoToken \notin Token
BY AccountsAssumption DEF NoToken, Token

LEMMA IdleHolds ==
    /\ Grounded(Idle)
    /\ \A q : Apart(Idle, q) /\ Apart(q, Idle)
BY DEF Grounded, Apart, Idle

LEMMA InitIInv == Init => IInv
<1> SUFFICES ASSUME Init PROVE IInv  OBVIOUS
<1>0. PICK given \in [Legacy -> {0, 1}], of \in [OldTokens -> Legacy] :
        /\ ids = [e \in Emails |-> IF e \in Legacy THEN given[e] ELSE 0]
        /\ user = [e \in Emails |-> IF e \in Legacy
                       THEN [pw |-> "set", pub |-> NoKey, priv |-> NoKey,
                             bill |-> given[e], home |-> NoKey, whole |-> FALSE]
                       ELSE NoUser]
        /\ token = [t \in Tokens |-> IF t \in OldTokens
                       THEN [email |-> of[t], bill |-> 0, old |-> TRUE] ELSE NoToken]
        /\ black = {} /\ spent = {} /\ used = {}
        /\ imports = [j \in Jtis |-> 0]
        /\ req = [r \in Requests |-> Idle]
  BY DEF Init
<1> DEFINE new(e) == [pw |-> "set", pub |-> NoKey, priv |-> NoKey, bill |-> given[e],
                      home |-> NoKey, whole |-> FALSE]
<1>5. Legacy \subseteq Emails /\ OldTokens \subseteq Tokens
  BY AccountsAssumption
<1>6. ASSUME NEW e \in Legacy
      PROVE  /\ new(e) \in User /\ new(e) # NoUser /\ new(e).bill = given[e]
             /\ new(e).home = NoKey /\ given[e] \in {0, 1}
  <2>1. given[e] \in {0, 1} /\ given[e] \in Nat
    OBVIOUS
  <2>2. new(e) \in User /\ new(e).bill = given[e] /\ new(e).home = NoKey
    BY <2>1 DEF User, PubKeys, PrivKeys
  <2> HIDE DEF new
  <2> QED BY <2>1, <2>2, NoUserIsNone
<1>7. \A e \in Emails : user[e] = IF e \in Legacy THEN new(e) ELSE NoUser
  BY <1>0
<1>8. /\ \A e \in Emails : ids[e] = IF e \in Legacy THEN given[e] ELSE 0
      /\ NoUser.home = NoKey /\ NoUser.bill = 0
  BY <1>0 DEF NoUser
<1> HIDE DEF new
<1>9. \A t \in Tokens : token[t] # NoToken =>
         token[t] \in Token /\ token[t].email \in Legacy /\ token[t].old /\ token[t].bill = 0
  BY <1>0, <1>5 DEF Token
<1>10. user \in [Emails -> User \cup {NoUser}]
  BY <1>0, <1>6, <1>7
<1>11. token \in [Tokens -> Token \cup {NoToken}]
  BY <1>0, <1>9
<1>12. ids \in [Emails -> Nat]
  <2>1. ids = [e \in Emails |-> IF e \in Legacy THEN given[e] ELSE 0]
    BY <1>0
  <2>2. \A e \in Legacy : given[e] \in Nat
    OBVIOUS
  <2> QED BY <2>1, <2>2
<1>1. TypeOK
  BY <1>0, <1>10, <1>11, <1>12 DEF TypeOK
<1>13. \A e \in Emails : AccountIsOK(e)
  BY <1>6, <1>7, <1>8 DEF AccountIsOK, IdsOf, KeysOf
<1>2. ImportedOnce /\ HomeIsReadable /\ TokensNameTheAccount /\ TokensHaveAccounts
  <2>1. ImportedOnce
    BY <1>0 DEF ImportedOnce
  <2>2. HomeIsReadable
    BY <1>6, <1>7, <1>8 DEF HomeIsReadable
  <2>3. TokensNameTheAccount
    BY <1>9 DEF TokensNameTheAccount
  <2>4. TokensHaveAccounts
    BY <1>5, <1>6, <1>7, <1>9 DEF TokensHaveAccounts
  <2> QED BY <2>1, <2>2, <2>3, <2>4
<1>3. \A r \in Requests : Grounded(req[r])
  BY <1>0, IdleHolds
<1>4. \A q, r \in Requests : q # r => Apart(req[q], req[r])
  BY <1>0, IdleHolds
<1> QED BY <1>0, <1>1, <1>2, <1>3, <1>4, <1>13 DEF IInv

-----------------------------------------------------------------------------
(* Steps that write to no table. *)

\* A step that moves one request and changes nothing else is judged by where
\* it puts that request.
LEMMA OneMoves ==
    ASSUME IInv, NEW r \in Requests, NEW new \in Pending \cup {Idle},
           req' = [req EXCEPT ![r] = new],
           UNCHANGED <<user, token, black, spent, used, imports, ids>>,
           Grounded(new),
           \A q \in Requests \ {r} : Apart(req[q], new) /\ Apart(new, req[q])
    PROVE  IInv'
<1>1. TypeOK'
  BY DEF IInv, TypeOK
<1>2. \A q \in Requests : req'[q] = IF q = r THEN new ELSE req[q]
  BY DEF IInv, TypeOK
<1>3. ASSUME NEW q \in Requests PROVE Grounded(req[q])'
  BY <1>2 DEF IInv, Grounded, KeysOf, IdsOf
<1>4. ASSUME NEW q \in Requests, NEW p \in Requests, q # p PROVE Apart(req[q], req[p])'
  BY <1>2, <1>4 DEF IInv, Apart
<1>5. /\ ImportedOnce' /\ HomeIsReadable' /\ TokensNameTheAccount'
      /\ TokensHaveAccounts' /\ (spent \subseteq black)'
      /\ (\A e \in Emails : AccountIsOK(e))'
  BY DEF IInv, ImportedOnce, HomeIsReadable, TokensNameTheAccount, TokensHaveAccounts,
         AccountIsOK, KeysOf, IdsOf
<1> QED BY <1>1, <1>3, <1>4, <1>5 DEF IInv

LEMMA Answered ==
    ASSUME IInv, NEW r \in Requests, Answer(r),
           UNCHANGED <<user, token, black, spent, used, imports, ids>>
    PROVE  IInv'
BY IdleHolds, OneMoves DEF Answer

\* A request that begins outside an import.
LEMMA Begins ==
    ASSUME IInv, NEW r \in Requests, NEW new \in Pending, Start(r, new), Grounded(new),
           new.pc \notin Importing
    PROVE  IInv'
<1>1. \A q \in Requests \ {r} : Apart(req[q], new) /\ Apart(new, req[q])
  BY DEF Apart, Importing
<1> QED BY <1>1, OneMoves DEF Start

LEMMA NewRequestStep ==
    ASSUME IInv, NEW r \in Requests, NewRequest(r)
    PROVE  IInv'
<1>1. ASSUME NEW e \in Emails, NEW k \in Sendable, BeginRegister(r, e, k)
      PROVE  IInv'
  <2> DEFINE new == [Idle EXCEPT !.pc = "create", !.email = e, !.keys = k]
  <2>1. k \in Keys
    BY AccountsAssumption DEF Keys, PrivKeys
  <2>2. new \in Pending /\ new.pc = "create" /\ new.email = e /\ new.keys = k
    BY <2>1 DEF Pending, Pcs, Idle, Keys, PubKeys, PrivKeys
  <2> HIDE DEF new
  <2>3. Grounded(new) /\ new.pc \notin Importing
    BY <2>2 DEF Grounded, Importing
  <2>4. Start(r, new)
    BY <1>1 DEF BeginRegister, new
  <2> QED BY <2>2, <2>3, <2>4, Begins
<1>2. ASSUME NEW e \in Emails, BeginLogin(r, e) PROVE IInv'
  <2> DEFINE new == [Idle EXCEPT !.pc = IF user[e].bill = 0 THEN "backfill" ELSE "issue",
                                 !.email = e, !.bill = user[e].bill]
  <2>1. user[e] # NoUser /\ user[e] \in User
    <3>1. user[e].pw = "set"
      BY <1>2 DEF BeginLogin
    <3>2. NoUser.pw = "no account"
      BY DEF NoUser
    <3> QED BY <3>1, <3>2 DEF IInv, TypeOK
  <2>2. user[e].bill \in Nat /\ IdsOf(user[e].bill, e)
    BY <2>1 DEF User, IInv, AccountIsOK
  <2>3. /\ new \in Pending /\ new.pc \in {"backfill", "issue"} /\ new.email = e
        /\ new.bill = user[e].bill
        /\ new.pc = "issue" => new.bill # 0
    BY <2>2 DEF Pending, Pcs, Idle, Keys, PubKeys, PrivKeys
  <2>4. Start(r, new)
    BY <1>2 DEF BeginLogin
  <2> HIDE DEF new
  <2>5. Grounded(new) /\ new.pc \notin Importing
    BY <2>1, <2>2, <2>3 DEF Grounded, Importing
  <2> QED BY <2>3, <2>4, <2>5, Begins
<1>6. ASSUME NEW e \in Emails, NEW k \in {NoKey, Own}, BeginPassword(r, e, k) PROVE IInv'
  <2> DEFINE new == [Idle EXCEPT !.pc = "password", !.email = e, !.keys.priv = k,
                                 !.seen = user[e]]
  <2>1. user[e] # NoUser /\ user[e] \in User /\ Start(r, new)
    BY <1>6 DEF BeginPassword, IInv, TypeOK
  <2>2. /\ new \in Pending /\ new.pc = "password" /\ new.email = e
        /\ new.keys.priv = k /\ new.seen = user[e]
    BY <2>1 DEF Pending, Pcs, Idle, Keys, PubKeys, PrivKeys
  <2> HIDE DEF new
  <2>3. KeysOf(user[e], e) /\ IdsOf(user[e].bill, e)
    BY DEF IInv, AccountIsOK
  <2>4. Grounded(new) /\ new.pc \notin Importing
    BY <2>1, <2>2, <2>3 DEF Grounded, Importing
  <2> QED BY <2>1, <2>2, <2>4, Begins
<1>3. ASSUME NEW e \in Emails, BeginMe(r, e) PROVE IInv'
  <2> DEFINE new == [Idle EXCEPT !.pc = "backfill_me", !.email = e]
  <2>1. new \in Pending /\ new.pc = "backfill_me" /\ new.email = e
    BY DEF Pending, Pcs, Idle, Keys, PubKeys, PrivKeys
  <2>2. user[e] # NoUser
    BY <1>3 DEF BeginMe
  <2>3. Grounded(new) /\ new.pc \notin Importing
    BY <2>1, <2>2 DEF Grounded, Importing
  <2> QED BY <1>3, <2>1, <2>3, Begins DEF BeginMe
<1>4. ASSUME NEW t \in Tokens, BeginRefresh(r, t) PROVE IInv'
  <2> DEFINE late == (t \in spent)
             new == [Idle EXCEPT !.pc = "check", !.tok = t, !.late = late]
  <2>1. late \in BOOLEAN
    OBVIOUS
  <2>2. token[t] # NoToken /\ Start(r, new)
    BY <1>4 DEF BeginRefresh
  <2>3. late => t \in spent
    OBVIOUS
  <2> HIDE DEF late
  <2>4. new \in Pending /\ new.pc = "check" /\ new.tok = t /\ new.late = late
    BY <2>1 DEF Pending, Pcs, Idle, Keys, PubKeys, PrivKeys
  <2>5. Grounded(new) /\ new.pc \notin Importing
    BY <2>2, <2>3, <2>4 DEF Grounded, Importing
  <2> QED BY <2>2, <2>4, <2>5, Begins
<1>5. ASSUME NEW b \in Bundles, NEW j \in Jtis \cup {NoJti}, BeginImport(r, b, j)
      PROVE  IInv'
  <2> DEFINE new == [Idle EXCEPT !.pc = IF j = NoJti THEN "account" ELSE "nonce",
                                 !.email = b.email, !.bundle = b, !.jti = j]
  <2>1. b.email \in Emails
    BY AccountsAssumption DEF Bundle
  <2>2. /\ new \in Pending /\ new.pc = (IF j = NoJti THEN "account" ELSE "nonce")
        /\ new.email = b.email /\ new.bundle = b /\ new.jti = j
    BY <2>1 DEF Pending, Pcs, Idle, Keys, PubKeys, PrivKeys
  <2>3. Grounded(new)
    BY <1>5, <2>1, <2>2 DEF Grounded, BeginImport
  <2>4. \A q \in Requests \ {r} : Apart(req[q], new) /\ Apart(new, req[q])
    BY <2>2 DEF Apart
  <2>5. req' = [req EXCEPT ![r] = new]
    BY <1>5 DEF BeginImport, Start
  <2> HIDE DEF new
  <2> QED BY <1>5, <2>2, <2>3, <2>4, <2>5, OneMoves DEF BeginImport, Start
<1> QED BY <1>1, <1>2, <1>3, <1>4, <1>5, <1>6 DEF NewRequest

-----------------------------------------------------------------------------
(* Steps that write. *)

\* A step that writes to the accounts and imports and moves one request is judged
\* by where it puts that request and what it makes of each account: it keeps its
\* home and the public key that this is sealed for, and ids only become more.
LEMMA OneWrites ==
    ASSUME IInv, NEW r \in Requests, NEW new \in Pending \cup {Idle},
           req' = [req EXCEPT ![r] = new], UNCHANGED <<token, black, spent>>,
           user' \in [Emails -> User \cup {NoUser}], ids' \in [Emails -> Nat],
           used' \subseteq Jtis, imports' \in [Jtis -> Nat], ImportedOnce',
           \A e \in Emails : ids'[e] >= ids[e],
           \A e \in Emails : user[e] # NoUser =>
               /\ user'[e] # NoUser
               /\ user'[e].home = user[e].home /\ user'[e].whole = user[e].whole
               /\ user[e].home # NoKey => user'[e].pub = user[e].pub,
           \A e \in Emails : AccountIsOK(e)',
           Grounded(new)',
           \A q \in Requests \ {r} :
               /\ Apart(req[q], new) /\ Apart(new, req[q])
               /\ req[q].pc = "rest" => user'[req[q].email] = user[req[q].email]
               /\ req[q].pc \in Importing => req[q].jti \notin used'
    PROVE  IInv'
<1>1. TypeOK'
  BY DEF IInv, TypeOK
<1>2. \A q \in Requests : req'[q] = IF q = r THEN new ELSE req[q]
  BY DEF IInv, TypeOK
<1>3. ASSUME NEW bill \in Nat, NEW e \in Emails, IdsOf(bill, e), bill # 0
      PROVE  IdsOf(bill, e)'
  <2>1. ids[e] \in Nat /\ ids'[e] \in Nat /\ ids'[e] >= ids[e]
    BY DEF IInv, TypeOK
  <2> QED BY <1>3, <2>1 DEF IdsOf
<1>4. ASSUME NEW q \in Requests PROVE Grounded(req[q])'
  <2>1. CASE q = r
    BY <1>2, <2>1 DEF Grounded, KeysOf, IdsOf
  <2>2. CASE q # r
    <3>1. req'[q] = req[q] /\ Grounded(req[q])
      BY <1>2, <2>2 DEF IInv
    <3>2. req[q].pc # "idle" => req[q].bill \in Nat /\ req[q].seen \in User \cup {NoUser}
      BY PendingOrIdle DEF IInv, Pending
    <3>3. req[q].pc = "issue" => IdsOf(req[q].bill, req[q].email)'
      BY <1>3, <3>1, <3>2 DEF Grounded, IdsOf
    <3>4. req[q].pc = "password" /\ req[q].seen.bill # 0
             => IdsOf(req[q].seen.bill, req[q].email)'
      <4>1. req[q].pc = "password" => req[q].seen.bill \in Nat /\ req[q].email \in Emails
        BY <3>1, <3>2 DEF Grounded, User
      <4> QED BY <1>3, <3>1, <4>1 DEF Grounded, IdsOf
    <3>5. req[q].pc \in {"password", "save", "rest"} /\ req[q].seen # NoUser
             => user'[req[q].email] # NoUser /\ KeysOf(req[q].seen, req[q].email)'
      BY <3>1 DEF Grounded, KeysOf
    <3> HIDE DEF IdsOf, KeysOf
    <3>6. Grounded(req[q])' <=> Grounded(req[q])'
      OBVIOUS
    <3> QED BY <2>2, <3>1, <3>3, <3>4, <3>5 DEF Grounded, Importing, IdsOf, KeysOf
  <2> QED BY <2>1, <2>2
<1>5. ASSUME NEW q \in Requests, NEW p \in Requests, q # p PROVE Apart(req[q], req[p])'
  BY <1>2, <1>5 DEF IInv, Apart
<1>6. HomeIsReadable'
  BY DEF HomeIsReadable, AccountIsOK, KeysOf
<1>7. TokensNameTheAccount' /\ TokensHaveAccounts'
  <2> SUFFICES ASSUME NEW t \in Tokens, token[t] # NoToken
               PROVE  /\ user'[token[t].email] # NoUser
                      /\ IF token[t].old THEN token[t].bill = 0
                         ELSE /\ token[t].bill # 0
                              /\ ids'[token[t].email] <= 1
                                    => token[t].bill = user'[token[t].email].bill
    BY DEF TokensNameTheAccount, TokensHaveAccounts
  <2> DEFINE e == token[t].email
  <2>1. token[t] \in Token /\ e \in Emails /\ token[t].bill \in Nat
    BY DEF IInv, TypeOK, Token
  <2>2. user[e] # NoUser /\ user'[e] # NoUser
    BY <2>1 DEF IInv, TokensHaveAccounts
  <2>3. IF token[t].old THEN token[t].bill = 0
        ELSE token[t].bill # 0 /\ (ids[e] <= 1 => token[t].bill = user[e].bill)
    BY DEF IInv, TokensNameTheAccount
  <2>4. /\ ids[e] \in Nat /\ ids'[e] \in Nat /\ ids'[e] >= ids[e]
        /\ ids[e] <= 1 => user[e].bill = ids[e]
        /\ ids'[e] <= 1 => user'[e].bill = ids'[e]
    BY <2>1 DEF IInv, TypeOK, AccountIsOK, IdsOf
  <2> QED BY <2>1, <2>2, <2>3, <2>4
<1> QED BY <1>1, <1>4, <1>5, <1>6, <1>7 DEF IInv

\* One request less is about as much as there was.
LEMMA StayApart ==
    ASSUME IInv, NEW r \in Requests, Answer(r)
    PROVE  \A q, p \in Requests : q # p => Apart(req[q], req[p])'
<1>1. \A q \in Requests : req'[q] = IF q = r THEN Idle ELSE req[q]
  BY DEF IInv, TypeOK, Answer
<1>2. SUFFICES ASSUME NEW q \in Requests, NEW p \in Requests, q # p
               PROVE  Apart(req[q], req[p])'
  OBVIOUS
<1>3. Apart(req[q], req[p])
  BY <1>2 DEF IInv
<1>4. CASE q = r \/ p = r
  <2>1. Apart(req'[q], req'[p])
    BY <1>1, <1>4, IdleHolds
  <2> QED BY <2>1 DEF Apart
<1>5. CASE q # r /\ p # r
  BY <1>1, <1>3, <1>5 DEF Apart
<1> QED BY <1>4, <1>5

\* What a fresh account is.
LEMMA NewUserIsOne ==
    ASSUME NEW pw \in {"set", "none"}, NEW keys, keys.pub \in PubKeys,
           keys.priv \in PrivKeys, NEW home \in KeyPairs \cup {NoKey, Plain}
    PROVE  /\ NewUser(pw, keys, home) \in User /\ NewUser(pw, keys, home) # NoUser
           /\ NewUser(pw, keys, home).bill = 1 /\ NewUser(pw, keys, home).home = home
           /\ NewUser(pw, keys, home).pub = keys.pub
           /\ NewUser(pw, keys, home).priv = keys.priv
           /\ NewUser(pw, keys, home).whole => keys.priv # NoKey
<1> DEFINE whole == (home # NoKey /\ keys.priv # NoKey)
<1>1. whole \in BOOLEAN /\ (whole => keys.priv # NoKey)
  OBVIOUS
<1>2. NewUser(pw, keys, home)
        = [pw |-> pw, pub |-> keys.pub, priv |-> keys.priv, bill |-> 1, home |-> home,
           whole |-> whole]
  BY DEF NewUser
<1> HIDE DEF whole
<1>3. NewUser(pw, keys, home) \in User
  BY <1>1, <1>2 DEF User
<1> QED BY <1>1, <1>2, <1>3, NoUserIsNone

\* What a key is sealed for.
LEMMA SealedIsHome ==
    ASSUME NEW pub \in PubKeys
    PROVE  /\ Sealed(pub) \in KeyPairs \cup {NoKey, Plain}
           /\ Sealed(pub) # NoKey => pub # NoKey
<1>1. NoKey \notin Malformed
  BY AccountsAssumption DEF NoKey
<1> QED BY <1>1 DEF Sealed, PubKeys

\* An account is as it should be when what was written to it is.
LEMMA WrittenIsOK ==
    ASSUME NEW o \in Emails, NEW u, user'[o] = u, u # NoUser,
           ids'[o] <= 1 => u.bill = ids'[o],
           u.home # NoKey => /\ u.pub # NoKey /\ u.home = Sealed(u.pub)
                             /\ u.whole => u.priv \in {u.pub, Own}
    PROVE  AccountIsOK(o)'
BY DEF AccountIsOK, IdsOf, KeysOf

\* A request that is answered is apart from all others.
LEMMA IdleApart == \A q \in Requests : Apart(req[q], Idle) /\ Apart(Idle, req[q])
BY IdleHolds

LEMMA IdleGrounded == Grounded(Idle)'
BY DEF Grounded, Idle

LEMMA CreateStep ==
    ASSUME IInv, NEW r \in Requests, CreateAccount(r)
    PROVE  IInv'
<1> DEFINE e == req[r].email
           keys == req[r].keys
           new == NewUser("set", keys, Sealed(keys.pub))
<1>1. CASE user[e] # NoUser
  BY <1>1, Answered DEF CreateAccount
<1>2. CASE user[e] = NoUser
  <2>1. /\ user' = [user EXCEPT ![e] = new] /\ ids' = [ids EXCEPT ![e] = @ + 1]
        /\ req' = [req EXCEPT ![r] = Idle] /\ ~Locked(e)
        /\ UNCHANGED <<token, black, spent, used, imports>>
    BY <1>2 DEF CreateAccount, Answer
  <2>2. req[r] \in Pending /\ e \in Emails /\ Grounded(req[r]) /\ keys \in Sendable
    BY PendingOrIdle DEF IInv, Grounded, CreateAccount, At
  <2>3. /\ keys.pub \in PubKeys /\ keys.priv \in KeyPairs \cup {NoKey}
        /\ keys.pub = keys.priv \/ NoKey \in {keys.pub, keys.priv}
    BY <2>2, AccountsAssumption
  <2>4. /\ Sealed(keys.pub) \in KeyPairs \cup {NoKey, Plain}
        /\ Sealed(keys.pub) # NoKey => keys.pub # NoKey
    BY <2>3, SealedIsHome
  <2>5. /\ new \in User /\ new # NoUser /\ new.bill = 1 /\ new.home = Sealed(keys.pub)
        /\ new.pub = keys.pub /\ new.priv = keys.priv
        /\ new.whole => keys.priv # NoKey
    BY <2>3, <2>4, NewUserIsOne DEF PrivKeys
  <2> HIDE DEF new, keys
  <2>6. ids[e] = 0 /\ ids \in [Emails -> Nat]
    BY <1>2, <2>2 DEF IInv, AccountIsOK, TypeOK
  <2>7. /\ \A o \in Emails : user'[o] = IF o = e THEN new ELSE user[o]
        /\ \A o \in Emails : ids'[o] = IF o = e THEN 1 ELSE ids[o]
        /\ user' \in [Emails -> User \cup {NoUser}] /\ ids' \in [Emails -> Nat]
    BY <2>1, <2>2, <2>5, <2>6 DEF IInv, TypeOK
  <2>8. ASSUME NEW o \in Emails PROVE AccountIsOK(o)'
    <3>1. CASE o = e
      <4>1. user'[o] = new /\ ids'[o] = 1
        BY <2>7, <3>1
      <4>2. new.home # NoKey => /\ new.pub # NoKey /\ new.home = Sealed(new.pub)
                                /\ new.whole => new.priv \in {new.pub, Own}
        BY <2>3, <2>4, <2>5
      <4> QED BY <2>5, <4>1, <4>2, WrittenIsOK
    <3>2. CASE o # e
      BY <2>7, <3>2 DEF IInv, AccountIsOK, IdsOf, KeysOf
    <3> QED BY <3>1, <3>2
  <2>9. ASSUME NEW q \in Requests \ {r}
        PROVE  /\ req[q].pc = "rest" => user'[req[q].email] = user[req[q].email]
               /\ req[q].pc \in Importing => req[q].jti \notin used'
    BY <2>1, <2>7 DEF IInv, Grounded, Locked, At, Importing
  <2>10. \A o \in Emails : ids'[o] >= ids[o]
    BY <2>6, <2>7
  <2>11. used' \subseteq Jtis /\ imports' \in [Jtis -> Nat] /\ ImportedOnce'
    BY <2>1 DEF IInv, TypeOK, ImportedOnce
  <2>12. \A o \in Emails : user[o] # NoUser =>
            /\ user'[o] # NoUser
            /\ user'[o].home = user[o].home /\ user'[o].whole = user[o].whole
            /\ user[o].home # NoKey => user'[o].pub = user[o].pub
    BY <1>2, <2>7
  <2>13. /\ req' = [req EXCEPT ![r] = Idle] /\ UNCHANGED <<token, black, spent>>
         /\ user' \in [Emails -> User \cup {NoUser}] /\ ids' \in [Emails -> Nat]
    BY <2>1, <2>7
  <2> HIDE DEF e
  <2> QED BY <2>8, <2>9, <2>10, <2>11, <2>12, <2>13, IdleApart, IdleGrounded, OneWrites
<1> QED BY <1>1, <1>2

LEMMA BackfillStep ==
    ASSUME IInv, NEW r \in Requests, Backfill(r)
    PROVE  IInv'
<1> DEFINE e == req[r].email
           bill == ids[e] + 1
           moved == IF At(r, "backfill") THEN [req[r] EXCEPT !.pc = "issue", !.bill = bill]
                                         ELSE Idle
           new == [user[e] EXCEPT !.bill = bill]
<1>1. req[r] \in Pending /\ Grounded(req[r]) /\ e \in Emails /\ user[e] # NoUser
  BY PendingOrIdle DEF IInv, Grounded, Backfill
<1>2. user[e] \in User /\ ids[e] \in Nat /\ bill \in Nat /\ bill # 0
  BY <1>1 DEF IInv, TypeOK, User
<1>3. /\ user' = [user EXCEPT ![e].bill = bill] /\ ids' = [ids EXCEPT ![e] = bill]
      /\ req' = [req EXCEPT ![r] = moved] /\ ~Locked(e)
      /\ UNCHANGED <<token, black, spent, used, imports>>
  BY DEF Backfill, Answer
<1>4. /\ moved \in Pending \cup {Idle}
      /\ moved.pc \in {"idle", "issue"}
      /\ moved.pc = "issue" => moved.email = e /\ moved.bill = bill
  BY <1>1, <1>2 DEF Pending, Pcs, Idle
<1>5. /\ new \in User /\ new # NoUser /\ new.bill = bill
      /\ new.home = user[e].home /\ new.whole = user[e].whole
      /\ new.pub = user[e].pub /\ new.priv = user[e].priv
  BY <1>2, NoUserIsNone DEF User
<1>6. user' = [user EXCEPT ![e] = new]
  BY <1>3
<1> HIDE DEF moved, new
<1>7. /\ \A o \in Emails : user'[o] = IF o = e THEN new ELSE user[o]
      /\ \A o \in Emails : ids'[o] = IF o = e THEN bill ELSE ids[o]
      /\ user' \in [Emails -> User \cup {NoUser}] /\ ids' \in [Emails -> Nat]
  BY <1>1, <1>2, <1>3, <1>5, <1>6 DEF IInv, TypeOK
<1>8. \A o \in Emails : ids'[o] >= ids[o]
  BY <1>2, <1>7 DEF IInv, TypeOK
<1>9. ASSUME NEW o \in Emails PROVE AccountIsOK(o)'
  <2>1. AccountIsOK(o)
    BY DEF IInv
  <2> QED BY <1>5, <1>7, <2>1 DEF AccountIsOK, IdsOf, KeysOf
<1>10. ASSUME NEW q \in Requests \ {r}
       PROVE  /\ req[q].pc = "rest" => user'[req[q].email] = user[req[q].email]
              /\ req[q].pc \in Importing => req[q].jti \notin used'
  BY <1>3, <1>7 DEF IInv, Grounded, Locked, At, Importing
<1>11. PICK m \in Pending \cup {Idle} : m = moved
  BY <1>4
<1>12. m.pc = "issue" => /\ m.email \in Emails /\ user'[m.email] # NoUser
                         /\ m.bill # 0 /\ IdsOf(m.bill, m.email)'
  BY <1>1, <1>2, <1>4, <1>5, <1>7, <1>11 DEF IdsOf
<1>13. Grounded(m)'
  BY <1>4, <1>11, <1>12 DEF Grounded, IdsOf
<1>14. \A q \in Requests \ {r} : Apart(req[q], m) /\ Apart(m, req[q])
  BY <1>4, <1>11 DEF Apart
<1>15. used' \subseteq Jtis /\ imports' \in [Jtis -> Nat] /\ ImportedOnce'
  BY <1>3 DEF IInv, TypeOK, ImportedOnce
<1>16. \A o \in Emails : user[o] # NoUser =>
          /\ user'[o] # NoUser /\ user'[o].home = user[o].home
          /\ user'[o].whole = user[o].whole /\ user'[o].pub = user[o].pub
  BY <1>5, <1>7
<1>17. \A o \in Emails : user[o] # NoUser =>
          /\ user'[o] # NoUser
          /\ user'[o].home = user[o].home /\ user'[o].whole = user[o].whole
          /\ user[o].home # NoKey => user'[o].pub = user[o].pub
  BY <1>16
<1>18. /\ req' = [req EXCEPT ![r] = m] /\ UNCHANGED <<token, black, spent>>
       /\ user' \in [Emails -> User \cup {NoUser}] /\ ids' \in [Emails -> Nat]
  BY <1>3, <1>7, <1>11
<1> HIDE DEF e, bill
<1> QED BY <1>8, <1>9, <1>10, <1>13, <1>14, <1>15, <1>17, <1>18, OneWrites

\* A password change writes back the home's public key and, of an account that
\* came with both keys, one of its owner's.
LEMMA PasswordStep ==
    ASSUME IInv, NEW r \in Requests, SavePassword(r)
    PROVE  IInv'
<1> DEFINE e == req[r].email
           seen == req[r].seen
           k == req[r].keys.priv
           n == IF seen.bill = 0 THEN ids[e] + 1 ELSE ids[e]
           priv == IF k = NoKey THEN seen.priv ELSE k
           bill == IF seen.bill = 0 THEN n ELSE seen.bill
           new == [user[e] EXCEPT !.pw = "set", !.pub = seen.pub, !.priv = priv, !.bill = bill]
<1>1. req[r] \in Pending /\ Grounded(req[r]) /\ e \in Emails /\ At(r, "password")
  BY PendingOrIdle DEF IInv, Grounded, SavePassword, At
<1>2. /\ seen \in User /\ user[e] # NoUser /\ user[e] \in User /\ KeysOf(seen, e)
      /\ k \in {NoKey, Own}
      /\ seen.bill # 0 => IdsOf(seen.bill, e)
      /\ ids[e] \in Nat /\ seen.bill \in Nat
  BY <1>1 DEF Grounded, At, Pending, IInv, TypeOK, User
<1>3. AccountIsOK(e)
  BY <1>1 DEF IInv
<1>4. /\ n \in Nat /\ n >= ids[e] /\ priv \in PrivKeys /\ bill \in Nat
      /\ n <= 1 => bill = n
      /\ k = NoKey => priv = seen.priv
      /\ k # NoKey => priv = Own
  BY <1>2 DEF User, PrivKeys, IdsOf
<1>5. /\ user' = [user EXCEPT ![e] = new] /\ ids' = [ids EXCEPT ![e] = n]
      /\ req' = [req EXCEPT ![r] = Idle] /\ ~Locked(e)
      /\ UNCHANGED <<token, black, spent, used, imports>>
  BY <1>1 DEF SavePassword, Answer, IInv, TypeOK
<1> HIDE DEF priv, bill, n
<1>6. /\ new \in User /\ new # NoUser /\ new.bill = bill /\ new.pub = seen.pub
      /\ new.priv = priv /\ new.home = user[e].home /\ new.whole = user[e].whole
  BY <1>2, <1>4, NoUserIsNone DEF User
<1> HIDE DEF new, seen, k
<1>7. /\ \A o \in Emails : user'[o] = IF o = e THEN new ELSE user[o]
      /\ \A o \in Emails : ids'[o] = IF o = e THEN n ELSE ids[o]
      /\ user' \in [Emails -> User \cup {NoUser}] /\ ids' \in [Emails -> Nat]
  BY <1>1, <1>4, <1>5, <1>6 DEF IInv, TypeOK
<1>8. \A o \in Emails : ids'[o] >= ids[o]
  BY <1>4, <1>7 DEF IInv, TypeOK
<1>9. ASSUME NEW o \in Emails PROVE AccountIsOK(o)'
  <2>1. CASE o = e
    <3>1. user'[o] = new /\ ids'[o] = n
      BY <1>7, <2>1
    <3>2. new.home # NoKey => /\ new.pub # NoKey /\ new.home = Sealed(new.pub)
                              /\ new.whole => new.priv \in {new.pub, Own}
      BY <1>2, <1>4, <1>6 DEF KeysOf
    <3> QED BY <1>4, <1>6, <3>1, <3>2, WrittenIsOK
  <2>2. CASE o # e
    BY <1>7, <2>2 DEF IInv, AccountIsOK, IdsOf, KeysOf
  <2> QED BY <2>1, <2>2
<1>10. ASSUME NEW q \in Requests \ {r}
       PROVE  /\ req[q].pc = "rest" => user'[req[q].email] = user[req[q].email]
              /\ req[q].pc \in Importing => req[q].jti \notin used'
  BY <1>5, <1>7 DEF IInv, Grounded, Locked, At, Importing
<1>11. used' \subseteq Jtis /\ imports' \in [Jtis -> Nat] /\ ImportedOnce'
  BY <1>5 DEF IInv, TypeOK, ImportedOnce
<1>12. \A o \in Emails : user[o] # NoUser =>
          /\ user'[o] # NoUser /\ user'[o].home = user[o].home
          /\ user'[o].whole = user[o].whole
          /\ user[o].home # NoKey => user'[o].pub = user[o].pub
  BY <1>2, <1>6, <1>7 DEF KeysOf
<1>13. /\ req' = [req EXCEPT ![r] = Idle] /\ UNCHANGED <<token, black, spent>>
       /\ user' \in [Emails -> User \cup {NoUser}] /\ ids' \in [Emails -> Nat]
  BY <1>5, <1>7
<1> HIDE DEF e
<1> QED BY <1>8, <1>9, <1>10, <1>11, <1>12, <1>13, IdleApart, IdleGrounded, OneWrites

LEMMA IssueStep ==
    ASSUME IInv, NEW r \in Requests, NEW t \in Tokens, Issue(r, t)
    PROVE  IInv'
<1> DEFINE new == [email |-> req[r].email, bill |-> req[r].bill, old |-> FALSE]
<1>1. req[r] \in Pending /\ Grounded(req[r]) /\ At(r, "issue")
  BY PendingOrIdle DEF IInv, Issue, At
<1>2. new \in Token
  BY <1>1 DEF Grounded, At, Pending, Token
<1>3. /\ token' = [token EXCEPT ![t] = new] /\ Answer(r)
      /\ UNCHANGED <<user, black, spent, used, imports, ids>>
  BY DEF Issue
<1>4. \A o \in Tokens : token'[o] = IF o = t THEN new ELSE token[o]
  BY <1>3 DEF IInv, TypeOK
<1>5. TypeOK'
  BY <1>2, <1>3 DEF IInv, TypeOK, Answer
<1>6. /\ user[new.email] # NoUser /\ new.bill # 0 /\ ~new.old
      /\ ids[new.email] <= 1 => new.bill = user[new.email].bill
  <2>1. AccountIsOK(req[r].email)
    BY <1>1 DEF Grounded, At, IInv
  <2> QED BY <1>1, <2>1 DEF Grounded, At, AccountIsOK, IdsOf
<1>7. new # NoToken
  BY <1>2, NoTokenIsNone
<1> HIDE DEF new
<1>8. TokensNameTheAccount' /\ TokensHaveAccounts'
  BY <1>3, <1>4, <1>6 DEF IInv, TokensNameTheAccount, TokensHaveAccounts
<1>9. ASSUME NEW q \in Requests PROVE Grounded(req[q])'
  <2>1. CASE q = r
    BY <1>3, <2>1 DEF Answer, IInv, TypeOK, Grounded, Idle
  <2>2. CASE q # r
    <3>1. req'[q] = req[q]
      BY <1>3, <2>2 DEF Answer, IInv, TypeOK
    <3>2. Grounded(req[q])
      BY DEF IInv
    <3> QED BY <1>3, <1>4, <1>7, <3>1, <3>2 DEF Grounded, KeysOf, IdsOf
  <2> QED BY <2>1, <2>2
<1>10. (\A e \in Emails : AccountIsOK(e))'
  BY <1>3 DEF IInv, AccountIsOK, KeysOf, IdsOf
<1> QED BY <1>3, <1>5, <1>8, <1>9, <1>10, StayApart DEF IInv, ImportedOnce, HomeIsReadable

LEMMA CheckStep ==
    ASSUME IInv, NEW r \in Requests, CheckToken(r)
    PROVE  IInv'
<1>1. CASE req[r].tok \in black
  BY <1>1, Answered DEF CheckToken
<1>2. CASE req[r].tok \notin black
  <2> DEFINE new == [req[r] EXCEPT !.pc = "revoke"]
  <2>1. req[r] \in Pending /\ Grounded(req[r]) /\ At(r, "check")
    BY PendingOrIdle DEF IInv, CheckToken, At
  <2>2. ~req[r].late
    BY <1>2, <2>1 DEF Grounded, At, IInv
  <2>3. new \in Pending /\ Grounded(new) /\ new.pc = "revoke"
    BY <2>1, <2>2 DEF Pending, Pcs, Grounded, At
  <2>4. \A q \in Requests \ {r} : Apart(req[q], new) /\ Apart(new, req[q])
    BY <2>3 DEF Apart
  <2>5. req' = [req EXCEPT ![r] = new]
    BY <1>2 DEF CheckToken, Go
  <2> HIDE DEF new
  <2> QED BY <2>3, <2>4, <2>5, OneMoves DEF CheckToken
<1> QED BY <1>1, <1>2

\* The blacklist grows before the token counts as exchanged.
LEMMA RevokeStep ==
    ASSUME IInv, NEW r \in Requests, Revoke(r)
    PROVE  IInv'
<1> DEFINE new == [req[r] EXCEPT !.pc = "renew"]
<1>1. req[r] \in Pending /\ Grounded(req[r]) /\ At(r, "revoke")
  BY PendingOrIdle DEF IInv, Revoke, At
<1>2. new \in Pending /\ new.pc = "renew" /\ new.tok = req[r].tok /\ ~new.late
  BY <1>1 DEF Pending, Pcs, Grounded, At
<1>3. /\ req' = [req EXCEPT ![r] = new] /\ black' = black \cup {req[r].tok}
      /\ UNCHANGED <<user, token, spent, used, imports, ids>>
  BY DEF Revoke, Go
<1>4. req[r].tok \in Tokens /\ token[req[r].tok] # NoToken
  BY <1>1 DEF Grounded, At
<1> HIDE DEF new
<1>5. TypeOK'
  BY <1>2, <1>3, <1>4 DEF IInv, TypeOK
<1>6. \A q \in Requests : req'[q] = IF q = r THEN new ELSE req[q]
  BY <1>3 DEF IInv, TypeOK
<1>7. ASSUME NEW q \in Requests PROVE Grounded(req[q])'
  <2>1. CASE q = r
    <3>1. req'[q] = new
      BY <1>6, <2>1
    <3> QED BY <1>2, <1>3, <1>4, <3>1 DEF Grounded
  <2>2. CASE q # r
    <3>1. req'[q] = req[q] /\ Grounded(req[q])
      BY <1>6, <2>2 DEF IInv
    <3> QED BY <1>3, <3>1 DEF Grounded, KeysOf, IdsOf
  <2> QED BY <2>1, <2>2
<1>8. ASSUME NEW q \in Requests, NEW p \in Requests, q # p PROVE Apart(req[q], req[p])'
  BY <1>2, <1>6, <1>8 DEF IInv, Apart
<1>9. (\A e \in Emails : AccountIsOK(e))'
  BY <1>3 DEF IInv, AccountIsOK, KeysOf, IdsOf
<1> QED BY <1>3, <1>5, <1>7, <1>8, <1>9
        DEF IInv, ImportedOnce, HomeIsReadable, TokensNameTheAccount, TokensHaveAccounts

LEMMA RenewStep ==
    ASSUME IInv, NEW r \in Requests, NEW t \in Tokens, Renew(r, t)
    PROVE  IInv' /\ ~req[r].late
<1> DEFINE new == token[req[r].tok]
<1>1. req[r] \in Pending /\ Grounded(req[r]) /\ At(r, "renew")
  BY PendingOrIdle DEF IInv, Renew, At
<1>2. req[r].tok \in Tokens /\ new # NoToken /\ ~req[r].late
  BY <1>1 DEF Grounded, At
<1>3. /\ token' = [token EXCEPT ![t] = new] /\ Answer(r)
      /\ spent' = spent \cup {req[r].tok}
      /\ UNCHANGED <<user, black, used, imports, ids>>
  BY DEF Renew
<1>4. \A o \in Tokens : token'[o] = IF o = t THEN new ELSE token[o]
  BY <1>3 DEF IInv, TypeOK
<1>5. TypeOK'
  BY <1>2, <1>3 DEF IInv, TypeOK, Answer
<1>6. /\ user[new.email] # NoUser
      /\ IF new.old THEN new.bill = 0
         ELSE new.bill # 0 /\ (ids[new.email] <= 1 => new.bill = user[new.email].bill)
  BY <1>2 DEF IInv, TokensHaveAccounts, TokensNameTheAccount
<1> HIDE DEF new
<1>7. TokensNameTheAccount' /\ TokensHaveAccounts'
  BY <1>3, <1>4, <1>6 DEF IInv, TokensNameTheAccount, TokensHaveAccounts
<1>8. ASSUME NEW q \in Requests PROVE Grounded(req[q])'
  <2>1. CASE q = r
    BY <1>3, <2>1 DEF Answer, IInv, TypeOK, Grounded, Idle
  <2>2. CASE q # r
    <3>1. req'[q] = req[q]
      BY <1>3, <2>2 DEF Answer, IInv, TypeOK
    <3>2. Grounded(req[q])
      BY DEF IInv
    <3> QED BY <1>2, <1>3, <1>4, <3>1, <3>2 DEF Grounded, KeysOf, IdsOf
  <2> QED BY <2>1, <2>2
<1>9. (spent \subseteq black)'
  BY <1>1, <1>3 DEF IInv, Grounded, At
<1>10. (\A e \in Emails : AccountIsOK(e))'
  BY <1>3 DEF IInv, AccountIsOK, KeysOf, IdsOf
<1> QED BY <1>2, <1>3, <1>5, <1>7, <1>8, <1>9, <1>10, StayApart
        DEF IInv, ImportedOnce, HomeIsReadable

LEMMA ClaimStep ==
    ASSUME IInv, NEW r \in Requests, ClaimNonce(r)
    PROVE  IInv'
<1>1. CASE req[r].jti \in used
  BY <1>1, Answered DEF ClaimNonce
<1>2. CASE req[r].jti \notin used
  <2> DEFINE new == [req[r] EXCEPT !.pc = "account"]
  <2>1. req[r] \in Pending /\ Grounded(req[r]) /\ At(r, "nonce")
    BY PendingOrIdle DEF IInv, ClaimNonce, At
  <2>2. new \in Pending /\ Grounded(new) /\ new.pc = "account" /\ new.jti = req[r].jti
    BY <1>2, <2>1 DEF Pending, Pcs, Grounded, At
  <2>3. req' = [req EXCEPT ![r] = new]
    BY <1>2 DEF ClaimNonce, Go
  <2> HIDE DEF new
  <2>4. \A q \in Requests \ {r} : Apart(req[q], new) /\ Apart(new, req[q])
    BY <2>2 DEF Apart, ClaimNonce
  <2> QED BY <2>2, <2>3, <2>4, OneMoves DEF ClaimNonce
<1> QED BY <1>1, <1>2

LEMMA ReadStep ==
    ASSUME IInv, NEW r \in Requests, ReadAccount(r)
    PROVE  IInv'
<1> DEFINE new == [req[r] EXCEPT !.pc = "save", !.seen = user[req[r].email]]
<1>1. req[r] \in Pending /\ Grounded(req[r]) /\ At(r, "account") /\ req[r].email \in Emails
  BY PendingOrIdle DEF IInv, ReadAccount, At, Grounded
<1>2. user[req[r].email] \in User \cup {NoUser}
  BY <1>1 DEF IInv, TypeOK
<1>3. /\ new \in Pending /\ new.pc = "save" /\ new.seen = user[req[r].email]
      /\ new.email = req[r].email /\ new.jti = req[r].jti /\ new.bundle = req[r].bundle
  BY <1>1, <1>2 DEF Pending, Pcs
<1>4. req' = [req EXCEPT ![r] = new]
  BY DEF ReadAccount
<1> HIDE DEF new
<1>5. Grounded(new)
  BY <1>1, <1>3 DEF Grounded, At, IInv, AccountIsOK
<1>6. \A q \in Requests \ {r} : Apart(req[q], new) /\ Apart(new, req[q])
  BY <1>1, <1>3 DEF Apart, At, IInv
<1> QED BY <1>3, <1>4, <1>5, <1>6, OneMoves DEF ReadAccount

\* The lock is free, so no two requests write the same account.
LEMMA SaveStep ==
    ASSUME IInv, NEW r \in Requests, SaveAccount(r)
    PROVE  IInv'
<1> DEFINE e == req[r].email
<1>1. req[r] \in Pending /\ Grounded(req[r]) /\ At(r, "save") /\ e \in Emails /\ ~Locked(e)
  BY PendingOrIdle DEF IInv, SaveAccount, At, Grounded
<1>2. CASE req[r].seen = NoUser /\ user[e] # NoUser
  <2> DEFINE new == [req[r] EXCEPT !.seen = user[e]]
  <2>1. user[e] \in User \cup {NoUser}
    BY <1>1 DEF IInv, TypeOK
  <2>2. /\ new \in Pending /\ new.pc = "save" /\ new.seen = user[e]
        /\ new.email = e /\ new.jti = req[r].jti /\ new.bundle = req[r].bundle
    BY <1>1, <2>1 DEF Pending, Pcs, At
  <2>3. req' = [req EXCEPT ![r] = new]
    BY <1>2 DEF SaveAccount
  <2> HIDE DEF new
  <2>4. Grounded(new)
    BY <1>1, <2>2 DEF Grounded, At, IInv, AccountIsOK
  <2>5. \A q \in Requests \ {r} : Apart(req[q], new) /\ Apart(new, req[q])
    BY <1>1, <2>2 DEF Apart, At, IInv
  <2> QED BY <2>2, <2>3, <2>4, <2>5, OneMoves DEF SaveAccount
<1>3. CASE ~(req[r].seen = NoUser /\ user[e] # NoUser)
  <2> DEFINE new == [req[r] EXCEPT !.pc = "rest"]
  <2>1. /\ new \in Pending /\ new.pc = "rest" /\ new.seen = req[r].seen
        /\ new.email = e /\ new.jti = req[r].jti /\ new.bundle = req[r].bundle
    BY <1>1 DEF Pending, Pcs
  <2>2. req' = [req EXCEPT ![r] = new]
    BY <1>3 DEF SaveAccount, Go
  <2> HIDE DEF new
  <2>3. Grounded(new)
    BY <1>1, <1>3, <2>1 DEF Grounded, At
  <2>4. \A q \in Requests \ {r} : Apart(req[q], new) /\ Apart(new, req[q])
    BY <1>1, <2>1 DEF Apart, At, IInv, Locked
  <2> QED BY <2>1, <2>2, <2>3, <2>4, OneMoves DEF SaveAccount
<1> QED BY <1>2, <1>3

\* What an import has made of its account: of one that was there it keeps the
\* billing id and the home, and every key that it has read.
LEMMA WrittenKeeps ==
    ASSUME IInv, NEW r \in Requests, At(r, "rest")
    PROVE  LET u == user[req[r].email]
               seen == req[r].seen
               b == req[r].bundle
           IN
           /\ Written(r) \in User /\ Written(r) # NoUser
           /\ u # NoUser <=> seen # NoUser
           /\ seen = NoUser => Written(r).home = NoKey /\ Written(r).bill = 1
           /\ seen # NoUser => /\ Written(r).home = u.home /\ Written(r).bill = u.bill
                               /\ Written(r).whole = u.whole
                               /\ Written(r).pub = Merged(seen.pub, b.pub)
                               /\ Written(r).priv = Merged(seen.priv, b.priv)
                               /\ KeysOf(seen, req[r].email)
<1> DEFINE e == req[r].email
           b == req[r].bundle
           seen == req[r].seen
<1>1. req[r] \in Pending /\ Grounded(req[r]) /\ e \in Emails /\ b \in Bundles
  BY PendingOrIdle DEF IInv, Grounded, At
<1>2. b.pub \in PubKeys /\ b.priv \in KeyPairs \cup {NoKey}
  BY <1>1, AccountsAssumption DEF Bundle
<1>3. CASE seen = NoUser
  <2>1. user[e] = NoUser
    BY <1>1, <1>3 DEF Grounded, At
  <2>2. Written(r) = NewUser("set", b, NoKey)
    BY <1>3 DEF Written
  <2>3. /\ Written(r) \in User /\ Written(r) # NoUser /\ Written(r).bill = 1
        /\ Written(r).home = NoKey
    BY <1>2, <2>2, NewUserIsOne DEF PrivKeys
  <2> QED BY <1>3, <2>1, <2>3
<1>4. CASE seen # NoUser
  <2>1. seen \in User /\ user[e] # NoUser /\ KeysOf(seen, e) /\ user[e] \in User
    BY <1>1, <1>4 DEF Pending, Grounded, At, IInv, TypeOK
  <2> DEFINE pub == Merged(seen.pub, b.pub)
             priv == Merged(seen.priv, b.priv)
  <2>2. pub \in PubKeys /\ priv \in PrivKeys
    BY <1>2, <2>1 DEF Merged, User, PrivKeys
  <2>3. Written(r) = [user[e] EXCEPT !.pub = pub, !.priv = priv]
    BY <1>4 DEF Written
  <2> HIDE DEF pub, priv
  <2>4. /\ Written(r) \in User /\ Written(r).home = user[e].home
        /\ Written(r).bill = user[e].bill /\ Written(r).whole = user[e].whole
        /\ Written(r).pub = pub /\ Written(r).priv = priv
    BY <2>1, <2>2, <2>3 DEF User
  <2> QED BY <1>4, <2>1, <2>4, NoUserIsNone DEF pub, priv
<1> QED BY <1>3, <1>4

LEMMA FinishStep ==
    ASSUME IInv, NEW r \in Requests, FinishImport(r)
    PROVE  /\ IInv'
           /\ \A o \in Emails : user[o] # NoUser =>
                 user'[o] = IF o = req[r].email THEN Written(r) ELSE user[o]
<1> DEFINE e == req[r].email
           j == req[r].jti
           b == req[r].bundle
           seen == req[r].seen
           named == {o \in b.others \ {e} : user[o] = NoUser}
<1>1. req[r] \in Pending /\ Grounded(req[r]) /\ At(r, "rest") /\ e \in Emails
  BY PendingOrIdle DEF IInv, FinishImport, At, Grounded
<1>2. /\ user' = [o \in Emails |-> IF o = e THEN Written(r)
                                   ELSE IF o \in named THEN Placeholder ELSE user[o]]
      /\ ids' = [o \in Emails |-> IF o \in named \/ (o = e /\ seen = NoUser)
                                  THEN ids[o] + 1 ELSE ids[o]]
      /\ IF j = NoJti THEN UNCHANGED <<used, imports>>
         ELSE used' = used \cup {j} /\ imports' = [imports EXCEPT ![j] = @ + 1]
      /\ req' = [req EXCEPT ![r] = Idle] /\ UNCHANGED <<token, black, spent>>
      /\ \A q \in Requests \ {r} : At(q, "rest") => req[q].email \notin named
  BY DEF FinishImport, Answer
<1>3. /\ Placeholder \in User /\ Placeholder.home = NoKey /\ Placeholder # NoUser
      /\ Placeholder.bill = 1
  BY NewUserIsOne DEF Placeholder, PubKeys, PrivKeys
<1>4. /\ Written(r) \in User /\ Written(r) # NoUser
      /\ user[e] # NoUser <=> seen # NoUser
      /\ seen = NoUser => Written(r).home = NoKey /\ Written(r).bill = 1
      /\ seen # NoUser => /\ Written(r).home = user[e].home /\ Written(r).bill = user[e].bill
                          /\ Written(r).whole = user[e].whole
                          /\ Written(r).pub = Merged(seen.pub, b.pub)
                          /\ Written(r).priv = Merged(seen.priv, b.priv)
                          /\ KeysOf(seen, e)
  BY <1>1, WrittenKeeps
<1>5. \A o \in Emails : o \in named => user[o] = NoUser /\ o # e
  OBVIOUS
<1> HIDE DEF named, seen, b
<1>6. \A o \in Emails :
         /\ user'[o] = IF o = e THEN Written(r)
                       ELSE IF o \in named THEN Placeholder ELSE user[o]
         /\ ids'[o] = IF o \in named \/ (o = e /\ seen = NoUser)
                      THEN ids[o] + 1 ELSE ids[o]
  BY <1>2
<1>7. j \in Jtis \cup {NoJti} /\ j \notin used
  BY <1>1 DEF Pending, Grounded, At
<1>8. ids \in [Emails -> Nat] /\ \A o \in Emails : AccountIsOK(o)
  BY DEF IInv, TypeOK
<1>9. /\ user' \in [Emails -> User \cup {NoUser}] /\ ids' \in [Emails -> Nat]
      /\ \A o \in Emails : ids'[o] >= ids[o]
  <2>1. user' \in [Emails -> User \cup {NoUser}]
    BY <1>2, <1>3, <1>4 DEF IInv, TypeOK
  <2>2. ids' \in [Emails -> Nat] /\ \A o \in Emails : ids'[o] >= ids[o]
    BY <1>2, <1>8
  <2> QED BY <2>1, <2>2
<1>10. used' \subseteq Jtis /\ imports' \in [Jtis -> Nat]
  BY <1>2, <1>7 DEF IInv, TypeOK
<1>11. ImportedOnce'
  BY <1>2, <1>7 DEF IInv, TypeOK, ImportedOnce
<1>12. ASSUME NEW o \in Emails PROVE AccountIsOK(o)'
  <2>1. CASE o \in named
    <3>1. ids'[o] = 1 /\ user'[o] = Placeholder
      BY <1>5, <1>6, <1>8, <2>1 DEF AccountIsOK
    <3> QED BY <1>3, <3>1 DEF AccountIsOK, IdsOf, KeysOf
  <2>2. CASE o = e /\ seen = NoUser
    <3>1. ids'[o] = 1 /\ user'[o] = Written(r)
      BY <1>4, <1>6, <1>8, <2>2 DEF AccountIsOK
    <3> QED BY <1>4, <2>2, <3>1 DEF AccountIsOK, IdsOf, KeysOf
  <2>3. CASE o = e /\ seen # NoUser
    <3>1. ids'[o] = ids[o] /\ user'[o] = Written(r) /\ AccountIsOK(o)
      BY <1>5, <1>6, <1>8, <2>3
    <3>2. KeysOf(user[o], o) /\ KeysOf(seen, o)
      BY <1>4, <2>3, <3>1 DEF AccountIsOK
    <3>3. Written(r).home # NoKey =>
             /\ Written(r).pub = seen.pub
             /\ Written(r).whole => Written(r).priv = seen.priv
      <4>1. seen.home # NoKey => seen.pub # NoKey /\ (seen.whole => seen.priv # NoKey)
        BY <3>2 DEF KeysOf, Own, NoKey
      <4> QED BY <1>4, <2>3, <3>2, <4>1 DEF Merged, KeysOf
    <3>4. LET w == Written(r) IN
          w.home # NoKey => /\ w.pub # NoKey /\ w.home = Sealed(w.pub)
                            /\ w.whole => w.priv \in {w.pub, Own}
      BY <1>4, <2>3, <3>1, <3>2, <3>3 DEF KeysOf
    <3>5. ids'[o] <= 1 => Written(r).bill = ids'[o]
      BY <1>4, <2>3, <3>1 DEF AccountIsOK, IdsOf
    <3> QED BY <1>4, <3>1, <3>4, <3>5, WrittenIsOK
  <2>4. CASE o \notin named /\ o # e
    BY <1>6, <1>8, <2>4 DEF AccountIsOK, IdsOf, KeysOf
  <2> QED BY <2>1, <2>2, <2>3, <2>4
<1>13. ASSUME NEW o \in Emails, user[o] # NoUser
       PROVE  /\ user'[o] # NoUser
              /\ user'[o].home = user[o].home /\ user'[o].whole = user[o].whole
              /\ user[o].home # NoKey => user'[o].pub = user[o].pub
  <2>1. CASE o = e
    BY <1>4, <1>6, <1>13, <2>1 DEF KeysOf, Merged
  <2>2. CASE o # e
    BY <1>5, <1>6, <1>13, <2>2
  <2> QED BY <2>1, <2>2
<1>14. ASSUME NEW q \in Requests \ {r}
       PROVE  /\ req[q].pc = "rest" => user'[req[q].email] = user[req[q].email]
              /\ req[q].pc \in Importing => req[q].jti \notin used'
  <2>1. Apart(req[q], req[r]) /\ Grounded(req[q])
    BY DEF IInv
  <2> QED BY <1>1, <1>2, <1>6, <2>1 DEF Apart, At, Grounded, Importing
<1>15. \A o \in Emails : user[o] # NoUser =>
          user'[o] = IF o = e THEN Written(r) ELSE user[o]
  BY <1>5, <1>6
<1> HIDE DEF j
<1>16. IInv'
  BY <1>2, <1>9, <1>10, <1>11, <1>12, <1>13, <1>14, IdleApart, IdleGrounded, OneWrites
<1> QED BY <1>15, <1>16

-----------------------------------------------------------------------------
LEMMA NextIInv == IInv /\ [Next]_vars => IInv'
<1> SUFFICES ASSUME IInv, [Next]_vars PROVE IInv'  OBVIOUS
<1>1. CASE UNCHANGED vars
  BY <1>1 DEF vars, IInv, TypeOK, ImportedOnce, HomeIsReadable, TokensNameTheAccount,
              TokensHaveAccounts, Grounded, Apart, AccountIsOK, KeysOf, IdsOf
<1>2. ASSUME NEW r \in Requests, NewRequest(r) \/ ServerStep(r) \/ Break(r) PROVE IInv'
  <2>1. CASE NewRequest(r)
    BY <2>1, NewRequestStep
  <2>2. CASE Break(r)
    BY <2>2, Answered DEF Break
  <2>3. CASE ServerStep(r)
    BY <2>3, CreateStep, PasswordStep, BackfillStep, IssueStep, CheckStep, RevokeStep, RenewStep,
       ClaimStep, ReadStep, SaveStep, FinishStep DEF ServerStep
  <2> QED BY <1>2, <2>1, <2>2, <2>3
<1> QED BY <1>1, <1>2 DEF Next

LEMMA Invariance == Spec => []IInv
<1>1. QED BY InitIInv, NextIInv, PTL DEF Spec

\* The tables and the requests keep their types (accounts/models.py:30-103,
\* migration/models.py:6-19).
THEOREM TypeCorrect == Spec => []TypeOK
<1>1. IInv => TypeOK
  BY DEF IInv
<1> QED BY <1>1, Invariance, PTL

\* A migration token is used up by the one import committed with it, however
\* many imports with it overlap, fail or break off (migration/services.py:
\* 256-263).
THEOREM NoReplay == Spec => []ImportedOnce
<1>1. IInv => ImportedOnce
  BY DEF IInv
<1> QED BY <1>1, Invariance, PTL

\* The key of a personal workspace stays sealed for the account's public key, and
\* the private key next to it one that its owner has sent, if both came with the
\* registration (accounts/services.py:103-142, 213-244, migration/services.py:
\* 265-281).
THEOREM HomesAreReadable == Spec => []HomeIsReadable
<1>1. IInv => HomeIsReadable
  BY DEF IInv
<1> QED BY <1>1, Invariance, PTL

\* Tokens carry the billing id of the account, but where overlapping requests have
\* given it two and where they go back to a token without one
\* (accounts/services.py:165-170, 264-278).
THEOREM TokensAreTrue == Spec => []TokensNameTheAccount
<1>1. IInv => TokensNameTheAccount
  BY DEF IInv
<1> QED BY <1>1, Invariance, PTL

Columns == {"pub", "priv"}

\* What a step does to an account: it keeps its keys, but for an import and a
\* password change, which save what they found with what was sent.
LEMMA KeysAreSaved ==
    ASSUME IInv, [Next]_vars, NEW e \in Emails, user[e] # NoUser, NEW col \in Columns
    PROVE  \/ user'[e][col] = user[e][col]
           \/ \E r \in Requests : /\ At(r, "rest") /\ req[r].email = e
                                  /\ req[r].seen # NoUser
                                  /\ user'[e][col] = Merged(req[r].seen[col], req[r].bundle[col])
           \/ \E r \in Requests : /\ At(r, "password") /\ req[r].email = e
                                  /\ req[r].seen # NoUser
                                  /\ \/ user'[e][col] = req[r].seen[col]
                                     \/ col = "priv" /\ Rekeyed(e)
<1>1. CASE user' = user
  BY <1>1
<1>2. ASSUME NEW r \in Requests, CreateAccount(r), user' # user PROVE user'[e] = user[e]
  <2>1. user[req[r].email] = NoUser
    BY <1>2 DEF CreateAccount
  <2> QED BY <1>2, <2>1 DEF CreateAccount, IInv, TypeOK
<1>3. ASSUME NEW r \in Requests, Backfill(r) PROVE user'[e][col] = user[e][col]
  <2>1. user[e] \in User /\ req[r] \in Pending /\ Grounded(req[r]) /\ req[r].email \in Emails
    BY <1>3, PendingOrIdle DEF IInv, TypeOK, Grounded, Backfill
  <2>2. user'[e].pub = user[e].pub /\ user'[e].priv = user[e].priv
    BY <1>3, <2>1 DEF Backfill, IInv, TypeOK, User
  <2> QED BY <2>2 DEF Columns
<1>4. ASSUME NEW r \in Requests, FinishImport(r), user'[e] # user[e]
      PROVE  /\ At(r, "rest") /\ req[r].email = e /\ req[r].seen # NoUser
             /\ user'[e][col] = Merged(req[r].seen[col], req[r].bundle[col])
  <2>1. At(r, "rest") /\ req[r].email = e /\ user'[e] = Written(r)
    BY <1>4, FinishStep DEF FinishImport
  <2>2. /\ req[r].seen # NoUser
        /\ user'[e].pub = Merged(req[r].seen.pub, req[r].bundle.pub)
        /\ user'[e].priv = Merged(req[r].seen.priv, req[r].bundle.priv)
    BY <2>1, WrittenKeeps
  <2> QED BY <2>1, <2>2 DEF Columns
<1>5. ASSUME NEW r \in Requests, SavePassword(r), user'[e] # user[e]
      PROVE  /\ At(r, "password") /\ req[r].email = e /\ req[r].seen # NoUser
             /\ \/ user'[e][col] = req[r].seen[col]
                \/ col = "priv" /\ Rekeyed(e)
  <2>1. req[r] \in Pending /\ Grounded(req[r]) /\ req[r].email \in Emails /\ user[e] \in User
    BY <1>5, PendingOrIdle DEF IInv, TypeOK, Grounded, SavePassword, At
  <2>2. At(r, "password") /\ req[r].email = e /\ req[r].seen # NoUser /\ req'[r] = Idle
    BY <1>5, <2>1 DEF SavePassword, Answer, IInv, TypeOK, Grounded, At
  <2>3. /\ user'[e].pub = req[r].seen.pub
        /\ user'[e].priv = IF req[r].keys.priv = NoKey THEN req[r].seen.priv
                           ELSE req[r].keys.priv
    BY <1>5, <2>1, <2>2 DEF SavePassword, IInv, TypeOK, User
  <2> QED BY <2>2, <2>3 DEF Columns, Rekeyed
<1>6. ASSUME user' # user
      PROVE  \E r \in Requests : \/ CreateAccount(r) \/ Backfill(r)
                                \/ FinishImport(r) \/ SavePassword(r)
  BY <1>6 DEF Next, vars, NewRequest, ServerStep, Break, BeginRegister, BeginLogin, BeginMe,
         BeginRefresh, BeginPassword, BeginImport, Start, Issue, CheckToken, Revoke, Renew,
         ClaimNonce, ReadAccount, SaveAccount
<1> QED BY <1>1, <1>2, <1>3, <1>4, <1>5, <1>6

Saving == {"password", "save", "rest"}

\* A request that is saving has found the account before, or finds it now.
LEMMA SeenBefore ==
    ASSUME IInv, [Next]_vars, NEW r \in Requests, req'[r].pc \in Saving,
           req'[r].seen # NoUser
    PROVE  \/ req'[r].seen = user[req'[r].email] /\ user' = user
           \/ /\ req[r].pc \in Saving /\ req[r].email = req'[r].email
              /\ req[r].seen = req'[r].seen
<1>1. CASE UNCHANGED vars
  BY <1>1 DEF vars
<1>2. ASSUME NEW q \in Requests, NewRequest(q) \/ ServerStep(q) \/ Break(q), q # r
      PROVE  req'[r] = req[r]
  BY <1>2 DEF NewRequest, ServerStep, Break, BeginRegister, BeginLogin, BeginMe,
         BeginRefresh, BeginPassword, BeginImport, Start, CreateAccount, SavePassword, Backfill,
         Issue, CheckToken, Revoke, Renew, ClaimNonce, ReadAccount, SaveAccount, FinishImport, Go, Answer, IInv, TypeOK
<1>3. ASSUME ReadAccount(r) \/ SaveAccount(r)
      PROVE  \/ req'[r].seen = user[req'[r].email] /\ user' = user
             \/ /\ req[r].pc \in Saving /\ req[r].email = req'[r].email
                /\ req[r].seen = req'[r].seen
  <2>1. req[r] \in Pending /\ UNCHANGED user
    BY <1>3, PendingOrIdle DEF IInv, ReadAccount, SaveAccount, At
  <2> QED BY <1>3, <2>1 DEF ReadAccount, SaveAccount, At, Go, IInv, TypeOK, Pending,
                           Saving
<1>5. ASSUME NEW e \in Emails, NEW k \in {NoKey, Own}, BeginPassword(r, e, k)
      PROVE  req'[r].seen = user[req'[r].email] /\ user' = user
  BY <1>5 DEF BeginPassword, Start, IInv, TypeOK, Idle
<1>4. ASSUME ServerStep(r) \/ NewRequest(r) \/ Break(r), ~ReadAccount(r), ~SaveAccount(r),
             \A e \in Emails, k \in {NoKey, Own} : ~BeginPassword(r, e, k)
      PROVE  req'[r].pc \notin Saving
  <2>1. req \in [Requests -> Pending \cup {Idle}]
    BY DEF IInv, TypeOK
  <2>2. Break(r) \/ CreateAccount(r) \/ SavePassword(r) \/ FinishImport(r)
        \/ (\E t \in Tokens : Issue(r, t) \/ Renew(r, t))
        => req'[r].pc = "idle"
    BY <2>1 DEF Break, CreateAccount, SavePassword, FinishImport, Issue, Renew, Answer, Idle
  <2>3. Backfill(r) \/ CheckToken(r) \/ Revoke(r) \/ ClaimNonce(r)
        => req'[r].pc \in {"idle", "issue", "revoke", "renew", "account"}
    BY <2>1, PendingOrIdle DEF Backfill, CheckToken, Revoke, ClaimNonce, Answer, Go, Idle, IInv,
         Pending, At
  <2>4. NewRequest(r)
        => req'[r].pc \in {"create", "backfill", "issue", "backfill_me", "check", "account", "nonce"}
    <3>2. \A e \in Emails, k \in Sendable :
            BeginRegister(r, e, k) => req'[r].pc = "create"
      BY <2>1 DEF BeginRegister, Start, Idle
    <3>3. \A e \in Emails : BeginLogin(r, e) => req'[r].pc \in {"backfill", "issue"}
      BY <2>1 DEF BeginLogin, Start, Idle
    <3>4. \A e \in Emails : BeginMe(r, e) => req'[r].pc = "backfill_me"
      BY <2>1 DEF BeginMe, Start, Idle
    <3>5. \A t \in Tokens : BeginRefresh(r, t) => req'[r].pc = "check"
      BY <2>1 DEF BeginRefresh, Start, Idle
    <3>6. \A b \in Bundles, j \in Jtis \cup {NoJti} :
            BeginImport(r, b, j) => req'[r].pc \in {"account", "nonce"}
      BY <2>1 DEF BeginImport, Start, Idle
    <3> QED BY <1>4, <3>2, <3>3, <3>4, <3>5, <3>6 DEF NewRequest
  <2> QED BY <1>4, <2>2, <2>3, <2>4 DEF ServerStep, Saving
<1> QED BY <1>1, <1>2, <1>3, <1>4, <1>5 DEF Next

\* Once a key of an account is settled, imports leave it alone, and password
\* changes too but for a private key that one carries (accounts/services.py:
\* 226-228, 243-244, migration/services.py:276-281).
THEOREM KeysSettle == Spec => KeysAreFinal
<1> DEFINE Keeps(e, col) == user'[e][col] = user[e][col] /\ Settled(e, col)'
<1>1. ASSUME IInv, [Next]_vars, NEW e \in Emails, NEW col \in Columns, Settled(e, col),
             ~(col = "priv" /\ Rekeyed(e))
      PROVE  Keeps(e, col)
  <2>1. user[e] # NoUser /\ user[e][col] # NoKey
    <3>1. user[e][col] # NoKey
      BY <1>1 DEF Settled
    <3>2. NoUser.pub = NoKey /\ NoUser.priv = NoKey
      BY DEF NoUser
    <3> QED BY <3>1, <3>2 DEF Columns
  <2>2. ASSUME NEW r \in Requests, req[r].pc \in Saving, req[r].email = e, req[r].seen # NoUser
        PROVE  req[r].seen[col] = user[e][col]
    BY <1>1, <2>2 DEF Settled, Saving
  <2>3. user'[e][col] = user[e][col]
    BY <1>1, <2>1, <2>2, KeysAreSaved DEF Merged, At, Saving
  <2>4. ASSUME NEW r \in Requests, req'[r].pc \in Saving, req'[r].email = e,
               req'[r].seen # NoUser
        PROVE  req'[r].seen[col] = user'[e][col]
    BY <1>1, <2>2, <2>3, <2>4, SeenBefore
  <2> QED BY <2>1, <2>3, <2>4 DEF Settled, Saving
<1>2. IInv /\ [Next]_vars =>
        [\A e \in Emails : \A col \in {"pub", "priv"} :
           Settled(e, col) =>
              \/ user'[e][col] = user[e][col] /\ Settled(e, col)'
              \/ col = "priv" /\ Rekeyed(e)]_vars
  BY <1>1 DEF Columns
<1> QED BY <1>2, Invariance, PTL DEF Spec, KeysAreFinal

\* A refresh token that was exchanged before a refresh began gets no second
\* successor from it (accounts/services.py:255-292).
THEOREM NoSecondSuccessor == Spec => RenewedOnce
<1>1. ASSUME IInv, [Next]_vars, NEW r \in Requests, NEW t \in Tokens,
             token'[t] # token[t], At(r, "renew"), req'[r] = Idle
      PROVE  ~req[r].late
  <2>1. Grounded(req[r])
    BY <1>1 DEF IInv
  <2> QED BY <1>1, <2>1 DEF Grounded, At
<1>2. IInv /\ [Next]_vars =>
        [\A r \in Requests, t \in Tokens :
           token'[t] # token[t] /\ At(r, "renew") /\ req'[r] = Idle => ~req[r].late]_vars
  BY <1>1
<1> QED BY <1>2, Invariance, PTL DEF Spec, RenewedOnce
=============================================================================
