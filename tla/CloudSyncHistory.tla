-------------------------- MODULE CloudSyncHistory --------------------------
(***************************************************************************)
(* CloudSync with two history variables: whether anything was written that *)
(* the watermark does not show, and which first uploads have overlapped.   *)
(* They follow the server and never hold it up.                            *)
(***************************************************************************)
EXTENDS CloudSync

\* blind: since the poll that sent the resolver its copy began, something was
\* written that did not raise the watermark, or that this poll overlapped.
\* crossed: the resolver names that two uploads were about to insert at one
\* time.
VARIABLES blind, crossed

history == <<blind, crossed>>

Inserting(n) == {w \in Writers : writer[w].pc = "insert" /\ writer[w].name = n}
Crossing(n)  == \E v, w \in Inserting(n) : v # w

HistoryInit == Init /\ blind = FALSE /\ crossed = {}

HistoryNext ==
    /\ Next
    /\ blind' = IF data' # data THEN blind \/ Current'.version <= Current.version
                ELSE IF copy' # copy THEN poll.touched # {}
                ELSE blind
    /\ crossed' = crossed \cup {n \in Resolvers : Crossing(n)'}

HistorySpec == HistoryInit /\ [][HistoryNext]_<<vars, history>>

\* "Cheap short-circuit: if the caller already has this version, tell it": when
\* all that was written since the last full payload raised the watermark,
\* "unchanged" is the truth, also for a poll that writes overlap
\* (views.py:754-756, selectors.py:764-766).
UnchangedIsTrue == poll.pc = "answer" /\ Unchanged /\ ~blind => poll.got = copy

\* A name has a second row only after its first two uploads have overlapped:
\* an upload after a revocation, or beside one, finds the row that there is
\* (services.py:773-782).  With a second row every later upload fails.
OneRowUnlessCrossed ==
    \A i, j \in Delegations :
        deleg[i].name = deleg[j].name /\ deleg[i] # NoDeleg
        => i = j \/ deleg[i].name \in crossed

-----------------------------------------------------------------------------
\* What makes OneRowUnlessCrossed inductive.
OneRow(n) ==
    /\ ~Crossing(n)
    /\ Inserting(n) # {} => Named(n) = {}
    /\ \A i, j \in Named(n) : i = j

SavesKnowTheirRow ==
    \A w \in Writers : writer[w].pc = "save" =>
        writer[w].row \in Delegations /\ deleg[writer[w].row].name = writer[w].name

RowsInv == SavesKnowTheirRow /\ \A n \in Resolvers \ crossed : OneRow(n)

\* What makes UnchangedIsTrue inductive: as long as every write has raised the
\* watermark, what is stored and what a poll has read of it so far is the
\* resolver's copy or shows a stamp newer than the copy's version.
KeyShows(key)   == key = copy.key \/ key > copy.version
RowsShow(rows)  == rows = copy.secrets \/ \E k \in Keys : rows[k].at > copy.version

ChangesShow ==
    ~blind =>
        /\ allow = copy.allow /\ KeyShows(ActiveKey) /\ RowsShow(secret)
        /\ poll.pc \in {"allowlist", "secrets", "answer"} => KeyShows(poll.got.key)
        /\ poll.pc \in {"secrets", "answer"} => poll.got.allow = copy.allow
        /\ poll.pc = "answer" => RowsShow(poll.got.secrets)

VersionsAreWatermarks ==
    /\ copy.version = Watermark(copy.secrets, copy.key)
    /\ poll.pc = "answer" =>
           poll.got.version = Watermark(poll.got.secrets, poll.got.key)

ShownInv == ChangesShow /\ VersionsAreWatermarks
=============================================================================
