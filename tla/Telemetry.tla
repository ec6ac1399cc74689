------------------------------ MODULE Telemetry ------------------------------
(***************************************************************************)
(* Usage counts on their way from the CLI to the public metrics:           *)
(* TelemetryService.process_sync_payload stores one snapshot per sender    *)
(* and day, and the scheduled calculate_metrics sums them up to each day   *)
(* of a window.                                                            *)
(*                                                                         *)
(* A snapshot is one number here, calls, of the forty that are stored and  *)
(* summed alike.  Days are those of UTC, in which the database stores and  *)
(* compares timestamps; a timestamp that is sent with an offset shows      *)
(* another day for some hours.  Every await is an action, and uploads and  *)
(* recomputations overlap freely.  MCAllowlist and AuditLogProofs extend   *)
(* this module beside others, hence the names UsageInit, UsageNext and     *)
(* UsageSpec.                                                              *)
(***************************************************************************)
EXTENDS Integers, Sequences, FiniteSetsExt

CONSTANTS
    Senders,      \* a user, or a machine whose user is not known
    LastDay,      \* bound: the last day there is
    Window,       \* days that a recomputation covers
    Batches,      \* what the CLI sends: sequences of entries
    Uploads,      \* uploads in progress at the same time
    Runs,         \* recomputations in progress at the same time
    MaxSnapshots, \* bound: uploads begin while there are fewer snapshots
    MaxFailures   \* bound: recomputations that break off

Days == 1..LastDay

\* The date of the timestamp as it was sent, its date in UTC, and the count.
Entry == [day : Days, at : Days, calls : Nat]

ASSUME DaysAssumption == LastDay \in Nat \ {0} /\ Window \in Nat \ {0}
ASSUME BatchesAssumption ==
    /\ Batches \subseteq Seq(Entry) \ {<<>>}
    /\ \A b \in Batches : \A i \in DOMAIN b : b[i].day \in (b[i].at - 1)..(b[i].at + 1)
ASSUME BoundsAssumption == MaxSnapshots \in Nat /\ MaxFailures \in Nat

VARIABLES
    today,       \* the date
    stored,      \* the snapshots in the order in which they were inserted
    total,       \* total[d]: the aggregate of day d, or None
    upload,      \* upload[u]: what upload u has read and has still to store
    run,         \* run[c]: the days that recomputation c has still to do
    failures,    \* recomputations that have broken off
    known,       \* history, known[s]: dates of the entries of s that were saved
    settled      \* history: days recomputed in calm and not touched since

usage == <<today, stored, total, upload, run, failures, known, settled>>

-----------------------------------------------------------------------------
None == 0 - 1

Snapshot == [who : Senders, day : Days, calls : Nat]

\* found is the snapshot to overwrite, 0 for none; had, as history, what was
\* known of the sender when the upload began.
NoUpload == [pc |-> "idle", who |-> "none", todo |-> <<>>, found |-> 0, had |-> {}]
Sending  == [pc : {"idle", "find", "save"}, who : Senders \cup {"none"},
             todo : Seq(Entry), found : Nat, had : SUBSET (Days \X Days)]

\* calm, as history: nothing was stored since the recomputation began, and every
\* other one that it overlaps with began after the last storing too.
NoRun == [pc |-> "idle", days |-> {}, sum |-> 0, calm |-> TRUE]
Running == [pc : {"idle", "sum", "write"}, days : SUBSET Days, sum : Nat, calm : BOOLEAN]

UsageTypeOK ==
    /\ today \in Days
    /\ stored \in Seq(Snapshot)
    /\ total \in [Days -> Nat \cup {None}]
    /\ upload \in [Uploads -> Sending]
    /\ \A u \in Uploads :
          /\ upload[u].pc # "idle" => upload[u].who \in Senders /\ upload[u].todo # <<>>
          /\ upload[u].found <= Len(stored)
    /\ run \in [Runs -> Running]
    /\ failures \in 0..MaxFailures
    /\ known \in [Senders -> SUBSET (Days \X Days)]
    /\ settled \subseteq Days

UsageInit ==
    /\ today = 1
    /\ stored = <<>>
    /\ total = [d \in Days |-> None]
    /\ upload = [u \in Uploads |-> NoUpload]
    /\ run = [c \in Runs |-> NoRun]
    /\ failures = 0
    /\ known = [who \in Senders |-> {}]
    /\ settled = {}

-----------------------------------------------------------------------------
(* process_sync_payload *)

\* Slip: only a snapshot of today is ever looked for.
IsOfToday(n, who, day) == stored[n].who = who /\ stored[n].day = day /\ day = today

\* A user's snapshot is known by the day; without a user the CLI's version, the
\* operating system and the environment stand in, here part of the sender.
IsOf(n, who, day) == stored[n].who = who /\ stored[n].day = day

BeginUpload(u, who, batch) ==
    /\ upload[u].pc = "idle" /\ Len(stored) < MaxSnapshots
    /\ upload' = [upload EXCEPT ![u] = [pc |-> "find", who |-> who, todo |-> batch,
                                       found |-> 0, had |-> known[who]]]
    /\ UNCHANGED <<today, stored, total, run, failures, known, settled>>

\* The newest one of the day that the timestamp shows, if the sender has several.
FindSnapshot(u) ==
    LET same == {n \in DOMAIN stored : IsOf(n, upload[u].who, Head(upload[u].todo).day)} IN
    /\ upload[u].pc = "find"
    /\ upload' = [upload EXCEPT ![u].pc = "save", ![u].found = Max(same \cup {0})]
    /\ UNCHANGED <<today, stored, total, run, failures, known, settled>>

\* Every count of the snapshot is overwritten, its timestamp is not; or a new one
\* is inserted, of the day in UTC.
SaveSnapshot(u) ==
    LET next == Head(upload[u].todo)
        rest == Tail(upload[u].todo)
        who  == upload[u].who
        n    == upload[u].found
        day  == IF n = 0 THEN next.at ELSE stored[n].day
    IN
    /\ upload[u].pc = "save"
    /\ stored' = IF n = 0
                 THEN Append(stored, [who |-> who, day |-> day, calls |-> next.calls])
                 ELSE [stored EXCEPT ![n].calls = next.calls]
    /\ upload' = [upload EXCEPT ![u] = IF rest = <<>> THEN NoUpload
                                       ELSE [@ EXCEPT !.pc = "find", !.todo = rest]]
    /\ known' = [known EXCEPT ![who] = @ \cup {<<next.day, next.at>>}]
    /\ settled' = {d \in settled : d < day}
    /\ run' = [c \in Runs |-> IF run[c].pc = "idle" THEN run[c]
                              ELSE [run[c] EXCEPT !.calm = FALSE]]
    /\ UNCHANGED <<today, total, failures>>

-----------------------------------------------------------------------------
(* calculate_metrics *)

CallsUpTo(rows, d) ==
    MapThenSumSet(LAMBDA n : rows[n].calls, {n \in DOMAIN rows : rows[n].day <= d})

SumUpTo(d) == CallsUpTo(stored, d)

Covered == {d \in Days : today - Window < d /\ d <= today}

Start(c, days) ==
    /\ run[c].pc = "idle"
    /\ run' = [run EXCEPT ![c] = [pc |-> "sum", days |-> days, sum |-> 0,
                                 calm |-> \A o \in Runs : run[o].calm]]
    /\ UNCHANGED <<today, stored, total, upload, failures, known, settled>>

\* The schedule, or a call of the endpoint.
BeginRun(c) == Start(c, Covered)

\* calculate_metrics --date, for a day that has been.
BeginRunFor(c, d) == d <= today /\ Start(c, {d})

\* Oldest day first.  The sum is one query.
SumDay(c) ==
    /\ run[c].pc = "sum"
    /\ run' = [run EXCEPT ![c].pc = "write", ![c].sum = SumUpTo(Min(run[c].days))]
    /\ UNCHANGED <<today, stored, total, upload, failures, known, settled>>

Finish(c, d) ==
    LET left == run[c].days \ {d} IN
    /\ run' = [run EXCEPT ![c] = IF left = {} THEN NoRun
                                 ELSE [@ EXCEPT !.pc = "sum", !.days = left]]
    /\ settled' = IF run[c].calm THEN settled \cup {d} ELSE settled
    /\ UNCHANGED <<today, stored, upload, failures, known>>

\* Slip: get_or_create.
WriteNewDay(c) ==
    LET d == Min(run[c].days) IN
    /\ run[c].pc = "write"
    /\ total' = [total EXCEPT ![d] = IF @ = None THEN run[c].sum ELSE @]
    /\ Finish(c, d)

\* update_or_create, after the queries for the other figures.
WriteDay(c) ==
    LET d == Min(run[c].days) IN
    /\ run[c].pc = "write"
    /\ total' = [total EXCEPT ![d] = run[c].sum]
    /\ Finish(c, d)

\* An error or the end of the process; the days already done stay done.
BreakOff(c) ==
    /\ run[c].pc # "idle" /\ failures < MaxFailures
    /\ run' = [run EXCEPT ![c] = NoRun]
    /\ failures' = failures + 1
    /\ UNCHANGED <<today, stored, total, upload, known, settled>>

-----------------------------------------------------------------------------
Midnight ==
    /\ today < LastDay
    /\ today' = today + 1
    /\ UNCHANGED <<stored, total, upload, run, failures, known, settled>>

UsageNext ==
    \/ \E u \in Uploads :
          \/ \E who \in Senders, batch \in Batches : BeginUpload(u, who, batch)
          \/ FindSnapshot(u) \/ SaveSnapshot(u)
    \/ \E c \in Runs :
          \/ BeginRun(c) \/ \E d \in Days : BeginRunFor(c, d)
          \/ SumDay(c) \/ WriteDay(c) \/ BreakOff(c)
    \/ Midnight

UsageSpec == UsageInit /\ [][UsageNext]_usage

-----------------------------------------------------------------------------
(* Properties *)

\* "ingestion, deduplication" (services.py:29): an entry that was stored before
\* the upload began and is sent again adds no second snapshot, however uploads
\* overlap, if its timestamp shows the day in UTC, as the dates do that the CLI
\* sends.  With an offset it may show another one, under which the snapshot is
\* looked for and never found (services.py:122-129, 195-229).
ResendAddsNothing ==
    [][\A u \in Uploads :
          LET next == Head(upload[u].todo) IN
          /\ upload[u].pc = "save" /\ upload'[u] # upload[u]
          /\ <<next.day, next.at>> \in upload[u].had /\ next.day = next.at
          => Len(stored') = Len(stored)]_usage

\* What makes it hold: what was known has a snapshot, of the day that was looked
\* for or of the day in UTC, and snapshots stay.
HasSnapshot(who, pair) ==
    \E n \in DOMAIN stored : stored[n].who = who /\ stored[n].day \in {pair[1], pair[2]}

HadIsStored ==
    /\ \A who \in Senders : \A pair \in known[who] : HasSnapshot(who, pair)
    /\ \A u \in Uploads : upload[u].pc # "idle" => upload[u].had \subseteq known[upload[u].who]

HadIsFound ==
    \A u \in Uploads :
        LET next == Head(upload[u].todo) IN
        upload[u].pc = "save" /\ <<next.day, next.at>> \in upload[u].had
          /\ next.day = next.at
        => upload[u].found # 0

\* What an upload has found is a snapshot of its sender and that day.
FoundIsOf ==
    \A u \in Uploads : upload[u].pc = "save" /\ upload[u].found # 0
        => IsOf(upload[u].found, upload[u].who, Head(upload[u].todo).day)

\* The aggregate of a day that was recomputed in calm is the sum of what is
\* stored up to that day, until a snapshot of such a day is stored or changed: no
\* recomputation that overlaps, breaks off, comes later or is of another window
\* puts an older sum back (calculate_metrics.py:42-58, 189-235, 318-320).  A run
\* that has summed before an upload and writes after it is not a calm one.
SettledTotalsAreRight == \A d \in settled : total[d] = SumUpTo(d)

\* What makes it hold: the sums under way.
SumsInHand ==
    \A c \in Runs :
        run[c].pc = "write" /\ (run[c].calm \/ Min(run[c].days) \in settled)
        => run[c].sum = SumUpTo(Min(run[c].days))

\* Recomputations that overlap are all calm or none of them is.
CalmTogether ==
    \A c, o \in Runs : run[c].pc # "idle" /\ run[o].pc # "idle"
                       => run[c].calm = run[o].calm

RunsHaveDays ==
    \A c \in Runs : (run[c].pc = "idle" => run[c].calm)
                    /\ (run[c].pc # "idle" => run[c].days # {})

UsageInv ==
    /\ UsageTypeOK /\ HadIsStored /\ HadIsFound /\ FoundIsOf
    /\ SettledTotalsAreRight /\ SumsInHand /\ CalmTogether /\ RunsHaveDays
=============================================================================
