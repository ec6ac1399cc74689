---------------------------- MODULE MCAccounts ----------------------------
(* Finite instances of Accounts. *)
EXTENDS Accounts, TLC

CONSTANTS elder, fresh, k1, k2

\* No keys, a pair, a public key alone, and a pair of which the public key has a
\* wrong form.
SomeKeys ==
    {[pub |-> NoKey, priv |-> NoKey], [pub |-> k1, priv |-> k1],
     [pub |-> k1, priv |-> NoKey], [pub |-> k2, priv |-> k2]}

\* A bundle of the new account with another pair, and two of the old one: one
\* with a public key alone that names the new one as well, and one with a pair.
SomeBundles ==
    {[email |-> fresh, pub |-> k2, priv |-> k2, others |-> {}],
     [email |-> elder, pub |-> k1, priv |-> NoKey, others |-> {fresh}],
     [email |-> elder, pub |-> k2, priv |-> k2, others |-> {}]}

HasKeys(e) == user[e].pub # NoKey \/ user[e].priv # NoKey

\* Bounds: new tokens while nothing is being imported and the old account has no
\* keys, the second one while no password is changed either; and keys of the old
\* account while the new one is as an import has left it.
Bounded ==
    /\ Cardinality(Unissued) < 2 =>
          ~HasKeys(elder) /\ \A r \in Requests : req[r].bundle = NoBundle
    /\ Cardinality(Unissued) = 0 => \A r \in Requests : req[r].pc # "password"
    /\ HasKeys(elder) => user[fresh] \in {NoUser, Placeholder}

Symmetry == Permutations(Tokens \ OldTokens) \cup Permutations(Requests)
=============================================================================
