----------------------------- MODULE Credentials -----------------------------
(***************************************************************************)
(* What the agent token API promises to those who hold tokens and those    *)
(* who cut them off: a token is valid from its issue until it is retired   *)
(* and never again, a use of it is accepted at a moment at which it is     *)
(* valid, and once a request to cut tokens off was accepted and is         *)
(* finished none of them is valid.  Agents.tla implements it.              *)
(***************************************************************************)
CONSTANTS Tokens, Requests

VARIABLES stage,   \* stage[t]: "unissued", "valid" or "dead"
          claim    \* claim[r]: what request r asks for, and whether it may

vars == <<stage, claim>>

NoClaim == [to |-> "nothing", tokens |-> {}, accepted |-> FALSE]
Claims  == [to : {"use", "cut"}, tokens : SUBSET Tokens, accepted : BOOLEAN]

Init ==
    /\ stage = [t \in Tokens |-> "unissued"]
    /\ claim = [r \in Requests |-> NoClaim]

Valid == {t \in Tokens : stage[t] = "valid"}

Retired(gone) == [t \in Tokens |-> IF t \in gone THEN "dead" ELSE stage[t]]

\* A used token has to be valid, one that is cut off at least issued.
Acceptable(c) ==
    IF c.to = "use" THEN c.tokens \subseteq Valid
    ELSE \A t \in c.tokens : stage[t] # "unissued"

Issue(t) ==
    /\ stage[t] = "unissued"
    /\ stage' = [stage EXCEPT ![t] = "valid"]
    /\ UNCHANGED claim

\* Tokens expire, are revoked, or go with what they hang from.
Retire ==
    /\ UNCHANGED claim
    /\ \E gone \in SUBSET Valid : stage' = Retired(gone)

\* A request is made known with what it asks for.
Ask(r) ==
    /\ UNCHANGED stage
    /\ claim[r] = NoClaim /\ claim'[r] \in Claims
    /\ claim'[r].accepted => Acceptable(claim'[r])
    /\ claim' = [claim EXCEPT ![r] = claim'[r]]

Accept(r) ==
    /\ UNCHANGED stage
    /\ claim[r] # NoClaim /\ Acceptable(claim[r])
    /\ claim' = [claim EXCEPT ![r].accepted = TRUE]

Refuse(r) ==
    /\ UNCHANGED stage
    /\ claim[r] # NoClaim /\ ~claim[r].accepted
    /\ claim' = [claim EXCEPT ![r] = NoClaim]

\* A cut may take along tokens that were issued while it was under way.
Finish(r) ==
    /\ claim[r].accepted
    /\ claim' = [claim EXCEPT ![r] = NoClaim]
    /\ \/ claim[r].to = "use" /\ UNCHANGED stage
       \/ \E gone \in SUBSET Valid :
             claim[r].tokens \cap Valid \subseteq gone /\ stage' = Retired(gone)

Next ==
    \/ Retire \/ \E t \in Tokens : Issue(t)
    \/ \E r \in Requests : Ask(r) \/ Accept(r) \/ Refuse(r) \/ Finish(r)

Spec == Init /\ [][Next]_vars
=============================================================================
