----------------------------- MODULE MCAllowlist -----------------------------
(* A finite instance of Allowlist and one of Telemetry.  They share no state, *)
(* so one of them rests while the other moves.                                *)
EXTENDS AllowlistHistory, Telemetry, TLC

CONSTANTS ann, d1, d2, r1, r2, r3, u1, u2, c1, c2

\* Two days in one batch, and a timestamp that shows the next day already.
Sent == {<<[day |-> 1, at |-> 1, calls |-> 1], [day |-> 2, at |-> 2, calls |-> 2]>>,
         <<[day |-> 2, at |-> 1, calls |-> 3]>>}

BothInit == HistoryInit /\ UsageInit

BothNext ==
    \/ UsageInit /\ HistoryNext /\ UNCHANGED usage
    \/ HistoryInit /\ UsageNext /\ UNCHANGED <<vars, crossed>>

BothSpec == BothInit /\ [][BothNext]_<<vars, crossed, usage>>

Symmetry == Permutations(Domains) \cup Permutations(Uploads) \cup Permutations(Runs)
=============================================================================
