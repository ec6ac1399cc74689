-------------------------- MODULE AllowlistHistory --------------------------
(***************************************************************************)
(* Allowlist with a history variable: which removals have overlapped.  It  *)
(* follows the handlers and never holds one up.                            *)
(***************************************************************************)
EXTENDS Allowlist

\* crossed: the domains that two requests were about to delete at one time.
VARIABLE crossed

Deleting(d) == {r \in Requests : req[r].pc = "delete" /\ req[r].domain = d}
Crossing(d) == \E q, r \in Deleting(d) : q # r

HistoryInit == Init /\ crossed = {}

HistoryNext ==
    /\ Next
    /\ crossed' = crossed \cup {d \in Domains : Crossing(d)'}

HistorySpec == HistoryInit /\ [][HistoryNext]_<<vars, crossed>>

\* Unless two removals of a domain overlap, its log is the history of its
\* entry: additions and removals take turns, and the last word says whether it
\* is listed now (services.py:379-398, 422-437).  The second of two removals
\* that do overlap deletes nothing and is logged all the same, after an
\* addition in between even of a domain that is listed.
LogIsTheHistory ==
    \A d \in Domains \ crossed :
        /\ row[d] # 0 <=> log[d] # << >> /\ Last(log[d]) = "added"
        /\ \A i \in DOMAIN log[d] : log[d][i] = IF i % 2 = 1 THEN "added" ELSE "removed"

-----------------------------------------------------------------------------
\* What makes it inductive: crossings are recorded, and the only request that
\* is about to delete an entry has found the one that is there.
CrossingsAreKnown == \A d \in Domains : Crossing(d) => d \in crossed

FoundIsThere ==
    \A d \in Domains \ crossed : \A r \in Deleting(d) :
        req[r].id = row[d] /\ row[d] # 0

HistoryInv == CrossingsAreKnown /\ FoundIsThere /\ LogIsTheHistory
=============================================================================
