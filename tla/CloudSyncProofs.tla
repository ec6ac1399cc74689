--------------------------- MODULE CloudSyncProofs ---------------------------
(***************************************************************************)
(* Proofs about CloudSync, for any keys, domains, delegations and writers: *)
(* a revoked key is not served by a poll that begins later, a poll reports *)
(* everything that was committed before it began, "unchanged" is true      *)
(* unless a write left the watermark alone, and a name keeps to one row    *)
(* unless its first uploads overlap.                                       *)
(***************************************************************************)
EXTENDS CloudSyncHistory, Integers, WellFoundedInduction, TLAPS

\* Every set of natural numbers with an element has a smallest one.
LEMMA Least ==
    ASSUME NEW S \in SUBSET Nat, S # {}
    PROVE  \E x \in S : \A y \in S : x <= y
<1> DEFINE R == OpToRel(<, Nat)
<1>1. IsWellFoundedOn(R, Nat)
  BY NatLessThanWellFounded
<1>2. PICK x \in S : \A y \in S : ~(<<y, x>> \in R)
  <2> HIDE DEF R
  <2> QED BY <1>1, WFMin
<1>3. ASSUME NEW y \in S PROVE x <= y
  <2>1. ~(<<y, x>> \in R)
    BY <1>2
  <2>2. ~(y < x)
    BY <2>1 DEF OpToRel
  <2> QED BY <2>2
<1> QED BY <1>3

\* Every bounded set of natural numbers with an element has a greatest one.
LEMMA Greatest ==
    ASSUME NEW N \in Nat, NEW S \in SUBSET (0..N), S # {}
    PROVE  Max(S) \in S /\ \A y \in S : Max(S) >= y
<1> DEFINE T == {n \in Nat : \E x \in S : n = N - x}
<1>1. \A x \in S : x \in Nat /\ N - x \in T
  OBVIOUS
<1>2. T \in SUBSET Nat /\ T # {}
  BY <1>1
<1>3. PICK m \in T : \A y \in T : m <= y
  <2> HIDE DEF T
  <2> QED BY <1>2, Least
<1>4. PICK x \in S : m = N - x
  BY <1>3
<1>5. \A y \in S : x >= y
  BY <1>1, <1>3, <1>4
<1> QED BY <1>5 DEF Max

\* The key a query finds is that of an active row, or there is none.
LEMMA ActiveKeyFound ==
    ASSUME TypeOK
    PROVE  /\ ActiveKey \in Stamp
           /\ \/ ActiveRows = {} /\ ActiveKey = 0
              \/ \E i \in Delegations : deleg[i].active /\ ActiveKey = deleg[i].at
<1>1. CASE ActiveRows = {}
  BY <1>1, ClockAssumption DEF ActiveKey, Stamp
<1>2. CASE ActiveRows # {}
  <2>1. ActiveRows \in SUBSET Nat
    BY DelegationsAssumption DEF ActiveRows
  <2>2. Min(ActiveRows) \in ActiveRows
    BY <1>2, <2>1, Least DEF Min
  <2>3. PICK i \in Delegations : i = Min(ActiveRows) /\ deleg[i].active
    BY <2>2 DEF ActiveRows
  <2>4. ActiveKey = deleg[i].at
    BY <1>2, <2>3 DEF ActiveKey
  <2>5. deleg[i] \in Deleg \cup {NoDeleg}
    BY DEF TypeOK
  <2>6. deleg[i].at \in Stamp
    BY <2>5, ClockAssumption DEF Deleg, NoDeleg, Time, Stamp
  <2> QED BY <2>3, <2>4, <2>6
<1> QED BY <1>1, <1>2

LEMMA WatermarkType ==
    ASSUME NEW rows \in [Keys -> Secret \cup {NoSecret}], NEW key \in Stamp
    PROVE  /\ Watermark(rows, key) \in Stamp
           /\ key <= Watermark(rows, key)
           /\ \A k \in Keys : rows[k].at <= Watermark(rows, key)
           /\ \/ Watermark(rows, key) = key
              \/ \E k \in Keys : Watermark(rows, key) = rows[k].at
<1> DEFINE S == {key} \cup {rows[k].at : k \in Keys}
<1>1. \A k \in Keys : rows[k].at \in 0..MaxClock
  BY ClockAssumption DEF Secret, NoSecret, Time
<1>2. S \in SUBSET (0..MaxClock) /\ S # {}
  BY <1>1 DEF Stamp
<1>3. Max(S) \in S /\ \A y \in S : Max(S) >= y
  <2> HIDE DEF S
  <2> QED BY <1>2, Greatest, ClockAssumption
<1>4. Watermark(rows, key) = Max(S)
  BY DEF Watermark
<1>5. key \in S /\ \A k \in Keys : rows[k].at \in S
  OBVIOUS
<1>6. \A y \in S : y = key \/ \E k \in Keys : y = rows[k].at
  OBVIOUS
<1>7. \A y \in S : y \in 0..MaxClock
  BY <1>2
<1> HIDE DEF S
<1> QED BY <1>3, <1>4, <1>5, <1>6, <1>7, ClockAssumption DEF Stamp

-----------------------------------------------------------------------------
\* Touching adds to what the poll remembers and changes nothing else in it.
LEMMA TouchAdds ==
    ASSUME TypeOK, NEW x \in Touchable, Touch(x)
    PROVE  /\ poll' \in Polls \cup {NoPoll}
           /\ poll'.pc = poll.pc /\ poll'.got = poll.got
           /\ poll'.begun = poll.begun /\ poll'.barred = poll.barred
           /\ poll.pc # "idle" => poll'.touched = poll.touched \cup {x}
<1>1. CASE poll.pc = "idle"
  BY <1>1 DEF Touch, TypeOK
<1>2. CASE poll.pc # "idle"
  <2>1. poll \in Polls
    BY <1>2 DEF TypeOK, NoPoll
  <2>2. poll' = [poll EXCEPT !.touched = @ \cup {x}]
    BY <1>2 DEF Touch
  <2> QED BY <1>2, <2>1, <2>2 DEF Polls
<1> QED BY <1>1, <1>2

\* What a step may do to the requests that upload a key without disturbing the
\* invariants about keys: begin none.
NoneBegins ==
    /\ writer' \in [Writers -> Write \cup Save \cup {IdleWriter}]
    /\ \A w \in Uploading' : w \in Uploading /\ writer'[w] = writer[w]
    /\ clock' \in Stamp /\ clock <= clock'

\* The invariants about keys survive a step that neither uploads one nor
\* changes a delegation.
LEMMA KeysQuiet ==
    ASSUME TypeOK, KeysAreOnce, BarredIsUnused, RevokedKeyNotServed,
           NoneBegins, deleg' = deleg,
           poll'.barred = poll.barred, poll'.got.key = poll.got.key,
           poll.barred \subseteq Nat
    PROVE  KeysAreOnce' /\ BarredIsUnused' /\ RevokedKeyNotServed'
<1>1. clock \in Nat /\ clock' \in Nat /\ clock <= clock'
  BY ClockAssumption DEF TypeOK, NoneBegins, Stamp
<1>2. \A i \in Delegations : deleg[i].at \in Nat
  BY ClockAssumption DEF TypeOK, Deleg, NoDeleg, Time
<1>3. \A w \in Uploading : writer[w].at \in Nat
  BY ClockAssumption DEF TypeOK, Uploading, Write, Save, IdleWriter, Time
<1>4. KeysAreOnce'
  <2>1. \A i \in Delegations : deleg'[i].at <= clock'
    BY <1>1, <1>2 DEF KeysAreOnce
  <2>2. \A i, j \in Delegations : deleg'[i].at = deleg'[j].at /\ i # j => deleg'[i].at = 0
    BY DEF KeysAreOnce
  <2>3. ASSUME NEW w \in Uploading'
        PROVE  /\ writer'[w].at <= clock'
               /\ \A i \in Delegations : deleg'[i].at # writer'[w].at
               /\ \A v \in Uploading' \ {w} : writer'[v].at # writer'[w].at
    <3>1. w \in Uploading /\ writer'[w] = writer[w]
      BY <2>3 DEF NoneBegins
    <3>2. \A v \in Uploading' \ {w} : v \in Uploading \ {w} /\ writer'[v] = writer[v]
      BY DEF NoneBegins
    <3> QED BY <1>1, <1>3, <3>1, <3>2 DEF KeysAreOnce
  <2> QED BY <2>1, <2>2, <2>3 DEF KeysAreOnce
<1>5. BarredIsUnused'
  BY <1>1 DEF BarredIsUnused, NoneBegins
<1>6. RevokedKeyNotServed'
  BY DEF RevokedKeyNotServed
<1> QED BY <1>4, <1>5, <1>6

LEMMA PollTypes ==
    ASSUME TypeOK
    PROVE  /\ poll.got \in Payload
           /\ poll.barred \subseteq Nat
           /\ poll.pc # "idle" => poll \in Polls
           /\ poll.pc = "idle" => poll = NoPoll
<1>1. Empty \in Payload
  BY ClockAssumption DEF Empty, Payload, Stamp
<1> QED BY <1>1, ClockAssumption DEF TypeOK, Polls, NoPoll, Time

-----------------------------------------------------------------------------
LEMMA InitIInv == Init => IInv
<1> SUFFICES ASSUME Init PROVE IInv
  OBVIOUS
<1>1. 0 \in Stamp /\ Empty \in Payload
  BY ClockAssumption DEF Stamp, Empty, Payload
<1>2. TypeOK
  BY <1>1 DEF Init, TypeOK
<1>3. KeysAreOnce
  BY DEF Init, KeysAreOnce, Uploading, IdleWriter, NoDeleg
<1>4. BarredIsUnused /\ RevokedKeyNotServed
  BY DEF Init, BarredIsUnused, RevokedKeyNotServed, Uploading, IdleWriter, NoPoll, NoDeleg
<1>5. UntouchedIsCurrent
  BY DEF Init, UntouchedIsCurrent, NoPoll
<1> QED BY <1>2, <1>3, <1>4, <1>5 DEF IInv

\* Steps that change no stored data: stamps, and commits that miss.
LEMMA QuietStep ==
    ASSUME IInv, NoneBegins, data' = data, poll' = poll, copy' = copy
    PROVE  IInv'
<1>1. TypeOK'
  BY DEF IInv, TypeOK, NoneBegins, data
<1>2. KeysAreOnce' /\ BarredIsUnused' /\ RevokedKeyNotServed'
  BY KeysQuiet, PollTypes DEF IInv, data
<1>3. UntouchedIsCurrent'
  BY DEF IInv, UntouchedIsCurrent, data, ActiveKey, ActiveRows
<1> QED BY <1>1, <1>2, <1>3 DEF IInv

\* Steps that write one secret.
LEMMA SecretStep ==
    ASSUME IInv, NoneBegins, NEW k \in Keys, Touch(k),
           NEW row \in Secret \cup {NoSecret},
           secret' = [secret EXCEPT ![k] = row],
           deleg' = deleg, allow' = allow, copy' = copy
    PROVE  IInv'
<1>1. /\ poll' \in Polls \cup {NoPoll}
      /\ poll'.pc = poll.pc /\ poll'.got = poll.got
      /\ poll'.begun = poll.begun /\ poll'.barred = poll.barred
      /\ poll.pc # "idle" => poll'.touched = poll.touched \cup {k}
  BY TouchAdds DEF IInv, Touchable
<1>2. TypeOK'
  BY <1>1 DEF IInv, TypeOK, NoneBegins
<1>3. KeysAreOnce' /\ BarredIsUnused' /\ RevokedKeyNotServed'
  BY <1>1, KeysQuiet, PollTypes DEF IInv
<1>4. UntouchedIsCurrent'
  <2>1. ActiveKey' = ActiveKey
    BY DEF ActiveKey, ActiveRows
  <2>2. \A j \in Keys \ {k} : secret'[j] = secret[j]
    BY DEF IInv, TypeOK
  <2> QED BY <1>1, <2>1, <2>2 DEF IInv, UntouchedIsCurrent
<1> QED BY <1>2, <1>3, <1>4 DEF IInv

\* Steps that change one domain of the allowlist.
LEMMA AllowStep ==
    ASSUME IInv, NEW d \in Domains, Touch(d),
           \A e \in Domains \ {d} : e \in allow' <=> e \in allow,
           allow' \subseteq Domains,
           UNCHANGED <<secret, deleg, clock, writer, copy>>
    PROVE  IInv'
<1>1. /\ poll' \in Polls \cup {NoPoll}
      /\ poll'.pc = poll.pc /\ poll'.got = poll.got
      /\ poll'.begun = poll.begun /\ poll'.barred = poll.barred
      /\ poll.pc # "idle" => poll'.touched = poll.touched \cup {d}
  BY TouchAdds DEF IInv, Touchable
<1>2. TypeOK'
  BY <1>1 DEF IInv, TypeOK
<1>3. NoneBegins
  BY ClockAssumption DEF IInv, TypeOK, NoneBegins, Uploading, Stamp
<1>4. KeysAreOnce' /\ BarredIsUnused' /\ RevokedKeyNotServed'
  BY <1>1, <1>3, KeysQuiet, PollTypes DEF IInv
<1>5. UntouchedIsCurrent'
  <2>1. ActiveKey' = ActiveKey
    BY DEF ActiveKey, ActiveRows
  <2> QED BY <1>1, <2>1 DEF IInv, UntouchedIsCurrent
<1> QED BY <1>2, <1>4, <1>5 DEF IInv

-----------------------------------------------------------------------------
\* A key that is about to be uploaded is new: no row, no other request and no
\* poll knows it.
LEMMA StampDelegationKeeps ==
    ASSUME IInv, NEW w \in Writers, NEW n \in Resolvers, StampDelegation(w, n)
    PROVE  IInv'
<1>1. /\ clock \in Nat /\ clock' = clock + 1 /\ clock' \in Time /\ clock' \in Stamp
      /\ data' = data /\ poll' = poll /\ copy' = copy
  BY ClockAssumption DEF IInv, TypeOK, StampDelegation, Tick, Stamp, Time
<1>2. PICK row \in Delegations \cup {0}, pc \in {"insert", "save"} :
          writer' = [writer EXCEPT ![w] = [pc |-> pc, key |-> "none", row |-> row,
                                           name |-> n, at |-> clock']]
  <2>1. CASE Named(n) = {}
    BY <2>1 DEF StampDelegation
  <2>2. CASE Named(n) # {}
    <3>1. Named(n) \in SUBSET Nat
      BY DelegationsAssumption DEF Named
    <3>2. Min(Named(n)) \in Delegations
      BY <2>2, <3>1, Least DEF Min, Named
    <3> QED BY <2>2, <3>2 DEF StampDelegation
  <2> QED BY <2>1, <2>2
<1>3. [pc |-> pc, key |-> "none", row |-> row, name |-> n, at |-> clock'] \in Save
  BY <1>1, <1>2 DEF Save
<1>4. /\ writer' \in [Writers -> Write \cup Save \cup {IdleWriter}]
      /\ writer'[w].at = clock'
      /\ \A v \in Writers \ {w} : writer'[v] = writer[v]
  BY <1>2, <1>3 DEF IInv, TypeOK
<1>5. TypeOK'
  BY <1>1, <1>4 DEF IInv, TypeOK, data
<1>6. \A v \in Uploading' : v = w \/ (v \in Uploading /\ writer'[v] = writer[v])
  BY <1>4 DEF Uploading
<1>7. /\ \A i \in Delegations : deleg[i].at \in Nat /\ deleg[i].at <= clock
      /\ \A v \in Uploading : writer[v].at \in Nat /\ writer[v].at <= clock
      /\ \A t \in poll.barred : t \in Nat /\ t <= clock
  BY ClockAssumption, PollTypes
     DEF IInv, TypeOK, KeysAreOnce, BarredIsUnused, Uploading, Deleg, NoDeleg,
         Write, Save, IdleWriter, Time
<1>8. KeysAreOnce'
  <2>1. \A i \in Delegations : deleg'[i].at <= clock'
    BY <1>1, <1>7 DEF data
  <2>2. \A i, j \in Delegations : deleg'[i].at = deleg'[j].at /\ i # j => deleg'[i].at = 0
    BY <1>1 DEF data, IInv, KeysAreOnce
  <2>3. ASSUME NEW v \in Uploading'
        PROVE  /\ writer'[v].at <= clock'
               /\ \A i \in Delegations : deleg'[i].at # writer'[v].at
               /\ \A u \in Uploading' \ {v} : writer'[u].at # writer'[v].at
    <3>1. CASE v = w
      BY <1>1, <1>4, <1>6, <1>7, <3>1 DEF data
    <3>2. CASE v # w
      BY <1>1, <1>4, <1>6, <1>7, <3>2 DEF data, IInv, KeysAreOnce
    <3> QED BY <3>1, <3>2
  <2> QED BY <2>1, <2>2, <2>3 DEF KeysAreOnce
<1>9. BarredIsUnused'
  BY <1>1, <1>4, <1>6, <1>7 DEF data, IInv, BarredIsUnused
<1>10. RevokedKeyNotServed' /\ UntouchedIsCurrent'
  BY <1>1 DEF IInv, RevokedKeyNotServed, UntouchedIsCurrent, data, ActiveKey, ActiveRows
<1> QED BY <1>5, <1>8, <1>9, <1>10 DEF IInv

\* What poll invariants are left to show when the delegations change.
LEMMA DelegationTouched ==
    ASSUME IInv, Touch("delegation"), UNCHANGED <<secret, allow>>
    PROVE  /\ poll' \in Polls \cup {NoPoll}
           /\ poll'.got = poll.got /\ poll'.barred = poll.barred
           /\ UntouchedIsCurrent' /\ RevokedKeyNotServed'
<1>1. /\ poll' \in Polls \cup {NoPoll}
      /\ poll'.pc = poll.pc /\ poll'.got = poll.got
      /\ poll'.begun = poll.begun /\ poll'.barred = poll.barred
      /\ poll.pc # "idle" => poll'.touched = poll.touched \cup {"delegation"}
  BY TouchAdds DEF IInv, Touchable
<1>2. UntouchedIsCurrent'
  BY <1>1 DEF IInv, UntouchedIsCurrent
<1> QED BY <1>1, <1>2 DEF IInv, RevokedKeyNotServed

LEMMA CommitDelegationKeeps ==
    ASSUME IInv, NEW w \in Writers, NEW i \in Delegations, CommitDelegation(w, i)
    PROVE  IInv'
<1>1. /\ UNCHANGED <<secret, allow, clock, copy>> /\ Touch("delegation")
      /\ w \in Uploading
      /\ writer' = [writer EXCEPT ![w] = IdleWriter]
      /\ deleg' = [deleg EXCEPT ![i] = [name |-> writer[w].name, active |-> TRUE,
                                        at |-> writer[w].at]]
  BY DEF CommitDelegation, Finish, Uploading
<1>2. writer[w] \in Save
  BY <1>1 DEF IInv, TypeOK, Uploading, Write, IdleWriter
<1>3. [name |-> writer[w].name, active |-> TRUE, at |-> writer[w].at] \in Deleg
  BY <1>2 DEF Save, Deleg
<1>4. /\ \A j \in Delegations \ {i} : deleg'[j] = deleg[j]
      /\ deleg'[i].at = writer[w].at
      /\ \A v \in Uploading' : v \in Uploading \ {w} /\ writer'[v] = writer[v]
      /\ writer' \in [Writers -> Write \cup Save \cup {IdleWriter}]
  BY <1>1 DEF IInv, TypeOK, Uploading, IdleWriter
<1>5. TypeOK'
  BY <1>1, <1>3, <1>4, DelegationTouched DEF IInv, TypeOK
<1>6. KeysAreOnce'
  <2>1. \A j \in Delegations : deleg'[j].at <= clock'
    BY <1>1, <1>4 DEF IInv, KeysAreOnce
  <2>2. \A j, k \in Delegations : deleg'[j].at = deleg'[k].at /\ j # k => deleg'[j].at = 0
    BY <1>1, <1>4 DEF IInv, KeysAreOnce
  <2>3. ASSUME NEW v \in Uploading'
        PROVE  /\ writer'[v].at <= clock'
               /\ \A j \in Delegations : deleg'[j].at # writer'[v].at
               /\ \A u \in Uploading' \ {v} : writer'[u].at # writer'[v].at
    BY <1>1, <1>4, <2>3 DEF IInv, KeysAreOnce
  <2> QED BY <2>1, <2>2, <2>3 DEF KeysAreOnce
<1>7. BarredIsUnused'
  BY <1>1, <1>4, DelegationTouched DEF IInv, BarredIsUnused
<1> QED BY <1>1, <1>5, <1>6, <1>7, DelegationTouched DEF IInv

LEMMA RevokeKeeps ==
    ASSUME IInv, Revoke
    PROVE  IInv'
<1>1. /\ UNCHANGED <<secret, allow, clock, writer, copy>> /\ Touch("delegation")
      /\ deleg' = [i \in Delegations |-> IF i \in ActiveRows
                                        THEN [deleg[i] EXCEPT !.active = FALSE]
                                        ELSE deleg[i]]
  BY DEF Revoke
<1>2. ASSUME NEW i \in Delegations
      PROVE  /\ deleg'[i] \in Deleg \cup {NoDeleg}
             /\ deleg'[i].at = deleg[i].at /\ ~deleg'[i].active
  <2>1. deleg[i] \in Deleg \cup {NoDeleg}
    BY DEF IInv, TypeOK
  <2>2. CASE i \in ActiveRows
    <3>1. deleg'[i] = [deleg[i] EXCEPT !.active = FALSE] /\ deleg[i] \in Deleg
      BY <1>1, <2>1, <2>2 DEF ActiveRows, NoDeleg
    <3> QED BY <3>1 DEF Deleg
  <2>3. CASE i \notin ActiveRows
    <3>1. deleg'[i] = deleg[i] /\ ~deleg[i].active
      BY <1>1, <2>3 DEF ActiveRows
    <3> QED BY <2>1, <3>1
  <2> QED BY <2>2, <2>3
<1>3. deleg' \in [Delegations -> Deleg \cup {NoDeleg}]
  BY <1>1, <1>2
<1>4. TypeOK'
  BY <1>1, <1>3, DelegationTouched DEF IInv, TypeOK
<1>5. Uploading' = Uploading
  BY <1>1 DEF Uploading
<1>6. KeysAreOnce'
  BY <1>1, <1>2, <1>5 DEF IInv, KeysAreOnce
<1>7. BarredIsUnused'
  BY <1>1, <1>2, <1>5, DelegationTouched DEF IInv, BarredIsUnused
<1> QED BY <1>1, <1>4, <1>6, <1>7, DelegationTouched DEF IInv

-----------------------------------------------------------------------------
\* The poll bars the keys of revoked delegations when it begins, and reads
\* only the key of an active one.
LEMMA PollKeeps ==
    ASSUME IInv, PollStep
    PROVE  IInv'
<1>1. UNCHANGED <<data, clock, writer>>
  BY DEF PollStep, BeginPoll, ReadDelegation, ReadAllowlist, ReadSecrets, AnswerPoll
<1>2. /\ Uploading' = Uploading /\ ActiveRows' = ActiveRows /\ ActiveKey' = ActiveKey
      /\ KeysAreOnce'
  BY <1>1 DEF data, IInv, KeysAreOnce, Uploading, ActiveRows, ActiveKey
<1>3. ActiveKey \in Stamp /\ Empty \in Payload /\ 0 \in Stamp
  BY ActiveKeyFound, ClockAssumption DEF IInv, Empty, Payload, Stamp
<1>4. CASE BeginPoll
  <2> DEFINE bar == {deleg[i].at : i \in {j \in Delegations : ~deleg[j].active}} \ {0}
  <2>1. poll' = [NoPoll EXCEPT !.pc = "delegation", !.begun = Current, !.barred = bar]
    BY <1>4 DEF BeginPoll
  <2>2. Current \in Payload
    <3>1. Watermark(secret, ActiveKey) \in Stamp
      BY <1>3, WatermarkType DEF IInv, TypeOK
    <3> QED BY <1>3, <3>1 DEF Current, Payload, IInv, TypeOK
  <2>3. \A t \in bar : t \in Time /\ t <= clock
    BY DEF IInv, TypeOK, KeysAreOnce, Deleg, NoDeleg
  <2>4. /\ poll'.pc = "delegation" /\ poll'.begun = Current /\ poll'.barred = bar
        /\ poll'.got = Empty /\ poll'.touched = {}
        /\ poll' = [pc |-> "delegation", got |-> Empty, barred |-> bar,
                    touched |-> {}, begun |-> Current]
    BY <2>1 DEF NoPoll
  <2>5. poll' \in Polls
    BY <1>3, <2>2, <2>3, <2>4 DEF Polls
  <2>6. TypeOK'
    BY <1>1, <1>4, <2>5 DEF BeginPoll, data, IInv, TypeOK
  <2>7. BarredIsUnused'
    <3>1. \A i \in Delegations : deleg[i].active => deleg[i].at \notin bar
      <4> TAKE i \in Delegations
      <4> HAVE deleg[i].active
      <4>1. \A j \in Delegations : ~deleg[j].active => j # i
        OBVIOUS
      <4> QED BY <4>1 DEF IInv, KeysAreOnce
    <3>2. \A w \in Uploading : writer[w].at \notin bar
      BY DEF IInv, KeysAreOnce
    <3> QED BY <1>1, <1>2, <2>3, <2>4, <3>1, <3>2 DEF data, BarredIsUnused
  <2>8. RevokedKeyNotServed'
    BY <2>4 DEF RevokedKeyNotServed, Empty
  <2>9. UntouchedIsCurrent'
    BY <1>1, <1>2, <2>4 DEF data, UntouchedIsCurrent, Current
  <2> QED BY <1>2, <2>6, <2>7, <2>8, <2>9 DEF IInv
<1>5. CASE ReadDelegation
  <2>1. poll \in Polls /\ poll.pc = "delegation"
        /\ poll' = [poll EXCEPT !.pc = "allowlist", !.got.key = ActiveKey]
    BY <1>5, PollTypes DEF ReadDelegation, IInv
  <2>2. /\ poll' \in Polls /\ poll'.pc = "allowlist" /\ poll'.got.key = ActiveKey
        /\ poll'.begun = poll.begun /\ poll'.touched = poll.touched
        /\ poll'.barred = poll.barred
    BY <1>3, <2>1 DEF Polls, Payload
  <2>3. TypeOK'
    BY <1>1, <1>5, <2>2 DEF ReadDelegation, data, IInv, TypeOK
  <2>4. BarredIsUnused'
    BY <1>1, <1>2, <2>2 DEF data, IInv, BarredIsUnused
  <2>5. RevokedKeyNotServed'
    <3>1. CASE ActiveKey = 0
      BY <2>1, <2>2, <3>1 DEF RevokedKeyNotServed, Polls, Time
    <3>2. CASE \E i \in Delegations : deleg[i].active /\ ActiveKey = deleg[i].at
      BY <2>2, <3>2 DEF RevokedKeyNotServed, IInv, BarredIsUnused
    <3> QED BY <3>1, <3>2, ActiveKeyFound DEF IInv
  <2>6. UntouchedIsCurrent'
    BY <1>1, <1>2, <2>1, <2>2 DEF data, IInv, UntouchedIsCurrent
  <2> QED BY <1>2, <2>3, <2>4, <2>5, <2>6 DEF IInv
<1>6. CASE ReadAllowlist
  <2>1. poll \in Polls /\ poll.pc = "allowlist"
        /\ poll' = [poll EXCEPT !.pc = "secrets", !.got.allow = allow]
    BY <1>6, PollTypes DEF ReadAllowlist, IInv
  <2>2. /\ poll' \in Polls /\ poll'.pc = "secrets" /\ poll'.got.allow = allow
        /\ poll'.got.key = poll.got.key
        /\ poll'.begun = poll.begun /\ poll'.touched = poll.touched
        /\ poll'.barred = poll.barred
    BY <2>1 DEF Polls, Payload, IInv, TypeOK
  <2>3. TypeOK'
    BY <1>1, <1>6, <2>2 DEF ReadAllowlist, data, IInv, TypeOK
  <2>4. BarredIsUnused' /\ RevokedKeyNotServed'
    BY <1>1, <1>2, <2>2 DEF data, IInv, BarredIsUnused, RevokedKeyNotServed
  <2>5. UntouchedIsCurrent'
    BY <1>1, <1>2, <2>1, <2>2 DEF data, IInv, UntouchedIsCurrent
  <2> QED BY <1>2, <2>3, <2>4, <2>5 DEF IInv
<1>7. CASE ReadSecrets
  <2>1. poll \in Polls /\ poll.pc = "secrets"
        /\ poll' = [poll EXCEPT !.pc = "answer", !.got.secrets = secret,
                                !.got.version = Watermark(secret, poll.got.key)]
    BY <1>7, PollTypes DEF ReadSecrets, IInv
  <2>2. poll.got.key \in Stamp
    BY <2>1 DEF Polls, Payload
  <2>3. Watermark(secret, poll.got.key) \in Stamp
    BY <2>2, WatermarkType DEF IInv, TypeOK
  <2>4. secret \in [Keys -> Secret \cup {NoSecret}]
    BY DEF IInv, TypeOK
  <2>5. /\ poll' \in Polls /\ poll'.pc = "answer" /\ poll'.got.secrets = secret
        /\ poll'.got.key = poll.got.key /\ poll'.got.allow = poll.got.allow
        /\ poll'.begun = poll.begun /\ poll'.touched = poll.touched
        /\ poll'.barred = poll.barred
    BY <2>1, <2>3, <2>4 DEF Polls, Payload
  <2>6. TypeOK'
    BY <1>1, <1>7, <2>5 DEF ReadSecrets, data, IInv, TypeOK
  <2>7. BarredIsUnused' /\ RevokedKeyNotServed'
    BY <1>1, <1>2, <2>5 DEF data, IInv, BarredIsUnused, RevokedKeyNotServed
  <2>8. UntouchedIsCurrent'
    BY <1>1, <1>2, <2>1, <2>5 DEF data, IInv, UntouchedIsCurrent
  <2> QED BY <1>2, <2>6, <2>7, <2>8 DEF IInv
<1>8. CASE AnswerPoll
  <2>1. poll' = NoPoll /\ copy' = (IF Unchanged THEN copy ELSE poll.got)
    BY <1>8 DEF AnswerPoll
  <2>2. copy' \in Payload
    BY <2>1, PollTypes DEF IInv, TypeOK
  <2>3. TypeOK'
    BY <1>1, <2>1, <2>2 DEF data, IInv, TypeOK
  <2>4. BarredIsUnused' /\ RevokedKeyNotServed' /\ UntouchedIsCurrent'
    BY <2>1 DEF BarredIsUnused, RevokedKeyNotServed, UntouchedIsCurrent, NoPoll
  <2> QED BY <1>2, <2>3, <2>4 DEF IInv
<1> QED BY <1>4, <1>5, <1>6, <1>7, <1>8 DEF PollStep

-----------------------------------------------------------------------------
\* A request that ends or stamps a secret begins no upload.
LEMMA WriterChange ==
    ASSUME IInv, NEW w \in Writers, NEW rec \in Write \cup {IdleWriter},
           writer' = [writer EXCEPT ![w] = rec],
           clock' = clock \/ Tick
    PROVE  NoneBegins
<1>1. /\ rec.pc \notin {"insert", "save"}
      /\ writer' \in [Writers -> Write \cup Save \cup {IdleWriter}]
      /\ \A v \in Writers : writer'[v] = writer[v] \/ writer'[v] = rec
  BY DEF IInv, TypeOK, Write, IdleWriter
<1>2. clock' \in Stamp /\ clock <= clock'
  BY ClockAssumption DEF IInv, TypeOK, Tick, Stamp
<1> QED BY <1>1, <1>2 DEF NoneBegins, Uploading

LEMMA ClientWriteKeeps ==
    ASSUME IInv, ClientWrite
    PROVE  IInv'
<1>1. ASSUME NEW w \in Writers, NEW k \in Keys, StampSecret(w, k) PROVE IInv'
  <2>1. clock' \in Time
    BY <1>1, ClockAssumption DEF StampSecret, Tick, IInv, TypeOK, Stamp, Time
  <2>2. secret[k].id \in Stamp
    BY ClockAssumption DEF IInv, TypeOK, Secret, NoSecret, Time, Stamp
  <2>3. [pc |-> IF secret[k] = NoSecret THEN "create" ELSE "update", key |-> k,
         row |-> secret[k].id, name |-> "none", at |-> clock'] \in Write
    BY <2>1, <2>2 DEF Write
  <2>4. NoneBegins
    BY <1>1, <2>3, WriterChange DEF StampSecret
  <2> QED BY <1>1, <2>4, QuietStep DEF StampSecret
<1>2. ASSUME NEW k \in Keys, BulkUpdate(k) PROVE IInv'
  <2>1. clock' \in Time /\ clock' \in Stamp /\ clock <= clock'
    BY <1>2, ClockAssumption DEF BulkUpdate, Tick, IInv, TypeOK, Stamp, Time
  <2>2. NoneBegins
    BY <1>2, <2>1 DEF BulkUpdate, NoneBegins, IInv, TypeOK, Uploading
  <2>3. [secret[k] EXCEPT !.val = clock'] \in Secret
    BY <1>2, <2>1 DEF BulkUpdate, IInv, TypeOK, Secret
  <2>4. secret' = [secret EXCEPT ![k] = [secret[k] EXCEPT !.val = clock']]
    BY <1>2 DEF BulkUpdate
  <2>5. Touch(k) /\ deleg' = deleg /\ allow' = allow /\ copy' = copy
    BY <1>2 DEF BulkUpdate
  <2> QED BY <2>2, <2>3, <2>4, <2>5, SecretStep
<1>3. ASSUME NEW k \in Keys, DropSecret(k) PROVE IInv'
  <2>1. NoneBegins
    BY <1>3, ClockAssumption DEF DropSecret, NoneBegins, IInv, TypeOK, Uploading, Stamp
  <2> QED BY <1>3, <2>1, SecretStep DEF DropSecret
<1>4. ASSUME NEW k \in Keys, NEW at \in 1..clock, MoveIn(k, at) PROVE IInv'
  <2>1. clock' \in Time /\ clock' \in Stamp /\ clock <= clock' /\ at \in Time
    BY <1>4, ClockAssumption DEF MoveIn, Tick, IInv, TypeOK, Stamp, Time
  <2>2. NoneBegins
    BY <1>4, <2>1 DEF MoveIn, NoneBegins, IInv, TypeOK, Uploading
  <2>3. [id |-> clock', val |-> clock', at |-> at] \in Secret
    BY <2>1 DEF Secret
  <2> QED BY <1>4, <2>2, <2>3, SecretStep DEF MoveIn
<1>5. ASSUME NEW d \in Domains, Allow(d) \/ Disallow(d) PROVE IInv'
  <2>1. /\ \A e \in Domains \ {d} : e \in allow' <=> e \in allow
        /\ allow' \subseteq Domains /\ Touch(d)
        /\ UNCHANGED <<secret, deleg, clock, writer, copy>>
    BY <1>5 DEF Allow, Disallow, IInv, TypeOK
  <2> QED BY <2>1, AllowStep
<1> QED BY <1>1, <1>2, <1>3, <1>4, <1>5, StampDelegationKeeps, RevokeKeeps DEF ClientWrite

LEMMA CommitKeeps ==
    ASSUME IInv, NEW w \in Writers, Commit(w)
    PROVE  IInv'
<1>1. CASE CommitSecret(w)
  <2> DEFINE k == writer[w].key
             row == [id |-> IF secret[k] = NoSecret THEN writer[w].at ELSE secret[k].id,
                     val |-> writer[w].at, at |-> writer[w].at]
  <2>1. writer[w] \in Write
    BY <1>1 DEF CommitSecret, IInv, TypeOK, Save, IdleWriter
  <2>2. k \in Keys /\ row \in Secret
    BY <2>1 DEF Write, Secret, IInv, TypeOK
  <2>3. NoneBegins /\ UNCHANGED <<deleg, allow, clock, copy>>
    BY <1>1, WriterChange DEF CommitSecret, Finish
  <2>4. CASE secret[k].id = writer[w].row
    <3>1. secret' = [secret EXCEPT ![k] = row] /\ Touch(k)
      BY <1>1, <2>4 DEF CommitSecret
    <3> HIDE DEF row, k
    <3> QED BY <2>2, <2>3, <3>1, SecretStep
  <2>5. CASE secret[k].id # writer[w].row
    BY <1>1, <2>3, <2>5, QuietStep DEF CommitSecret, data
  <2> QED BY <2>4, <2>5
<1> QED BY <1>1, CommitDelegationKeeps DEF Commit

LEMMA StepIInv == IInv /\ [Next]_vars => IInv'
<1> SUFFICES ASSUME IInv, [Next]_vars PROVE IInv'
  OBVIOUS
<1>1. CASE UNCHANGED vars
  <2>1. NoneBegins /\ data' = data /\ poll' = poll /\ copy' = copy
    BY <1>1, ClockAssumption DEF vars, data, NoneBegins, Uploading, IInv, TypeOK, Stamp
  <2> QED BY <2>1, QuietStep
<1>2. CASE Next
  BY <1>2, PollKeeps, ClientWriteKeeps, CommitKeeps DEF Next
<1> QED BY <1>1, <1>2

\* The inductive invariant holds in every reachable state.
THEOREM Invariance == Spec => []IInv
<1>1. Init => IInv
  BY InitIInv
<1>2. IInv /\ [Next]_vars => IInv'
  BY StepIInv
<1> QED BY <1>1, <1>2, PTL DEF Spec

\* A poll that begins after a revocation does not hand out the revoked key
\* (build_sync_payload against save_delegation and revoke_delegation).
THEOREM RevocationIsHeeded == Spec => []RevokedKeyNotServed
<1>1. IInv => RevokedKeyNotServed
  BY DEF IInv
<1> QED BY <1>1, Invariance, PTL

\* A poll reports everything that was committed before it began and that
\* nobody has changed since (build_sync_payload).
THEOREM PollsAreFresh == Spec => []PollIsFresh
<1>1. IInv => PollIsFresh
  BY DEF IInv, PollIsFresh, UntouchedIsCurrent
<1> QED BY <1>1, Invariance, PTL

-----------------------------------------------------------------------------
(* The rows of a resolver name, with the history of overlapping uploads. *)

\* Which requests a step can set out to upload a key.
LEMMA UploadsBegin ==
    ASSUME TypeOK, Next
    PROVE  \/ \A w \in Uploading' : w \in Uploading /\ writer'[w] = writer[w]
           \/ \E w \in Writers, n \in Resolvers : StampDelegation(w, n)
<1> DEFINE None == \A w \in Uploading' : w \in Uploading /\ writer'[w] = writer[w]
<1>1. ASSUME NEW w \in Writers, NEW rec, rec.pc \notin {"insert", "save"},
             writer' = [writer EXCEPT ![w] = rec]
      PROVE  None
  BY <1>1 DEF TypeOK, Uploading
<1>2. writer' = writer => None
  BY DEF Uploading
<1> HIDE DEF None
<1>3. PollStep => None
  BY <1>2 DEF PollStep, BeginPoll, ReadDelegation, ReadAllowlist, ReadSecrets, AnswerPoll
<1>4. ASSUME NEW w \in Writers, NEW k \in Keys, StampSecret(w, k) PROVE None
  <2> DEFINE rec == [pc |-> IF secret[k] = NoSecret THEN "create" ELSE "update",
                     key |-> k, row |-> secret[k].id, name |-> "none", at |-> clock']
  <2>1. rec.pc \notin {"insert", "save"} /\ writer' = [writer EXCEPT ![w] = rec]
    BY <1>4 DEF StampSecret
  <2> HIDE DEF rec
  <2> QED BY <1>1, <2>1
<1>5. ASSUME NEW w \in Writers, Commit(w) PROVE None
  <2>1. IdleWriter.pc \notin {"insert", "save"} /\ writer' = [writer EXCEPT ![w] = IdleWriter]
    BY <1>5 DEF Commit, CommitSecret, CommitDelegation, Finish, IdleWriter
  <2> QED BY <1>1, <2>1
<1>6. (\E k \in Keys : BulkUpdate(k) \/ DropSecret(k)) => None
  BY <1>2 DEF BulkUpdate, DropSecret
<1>7. (\E k \in Keys, at \in 1..clock : MoveIn(k, at)) => None
  BY <1>2 DEF MoveIn
<1>8. Revoke \/ (\E d \in Domains : Allow(d) \/ Disallow(d)) => None
  BY <1>2 DEF Revoke, Allow, Disallow
<1> QED BY <1>3, <1>4, <1>5, <1>6, <1>7, <1>8 DEF Next, ClientWrite, None

\* Only the commit of an upload gives a row a name; a revocation keeps it.
LEMMA NamesChange ==
    ASSUME TypeOK, Next
    PROVE  \/ \A i \in Delegations : deleg'[i].name = deleg[i].name
           \/ \E w \in Writers, i \in Delegations : CommitDelegation(w, i)
<1>1. ASSUME Revoke, NEW i \in Delegations PROVE deleg'[i].name = deleg[i].name
  <2>1. deleg[i] \in Deleg \cup {NoDeleg}
    BY DEF TypeOK
  <2>2. deleg'[i] = deleg[i] \/ deleg'[i] = [deleg[i] EXCEPT !.active = FALSE]
    BY <1>1 DEF Revoke
  <2> QED BY <2>1, <2>2 DEF Deleg, NoDeleg
<1>2. \/ deleg' = deleg
      \/ Revoke
      \/ \E w \in Writers, i \in Delegations : CommitDelegation(w, i)
  BY DEF Next, PollStep, BeginPoll, ReadDelegation, ReadAllowlist, ReadSecrets,
         AnswerPoll, ClientWrite, StampSecret, StampDelegation, BulkUpdate, DropSecret,
         MoveIn, Allow, Disallow, Commit, CommitSecret, data
<1> QED BY <1>1, <1>2

\* The commit of an upload, in terms of names.
LEMMA CommitNames ==
    ASSUME TypeOK, SavesKnowTheirRow, NEW w \in Writers, NEW i \in Delegations,
           CommitDelegation(w, i)
    PROVE  /\ writer[w] \in Save /\ w \in Uploading
           /\ writer'[w] = IdleWriter
           /\ deleg'[i].name = writer[w].name
           /\ \A j \in Delegations \ {i} : deleg'[j] = deleg[j]
           /\ \/ writer[w].pc = "insert" /\ deleg[i] = NoDeleg
              \/ writer[w].pc = "save" /\ deleg[i].name = writer[w].name
<1>1. writer[w].pc \in {"insert", "save"}
  BY DEF CommitDelegation
<1>2. writer[w] \in Save /\ w \in Uploading
  BY <1>1 DEF TypeOK, Write, IdleWriter, Uploading
<1> QED BY <1>2 DEF CommitDelegation, Finish, TypeOK, SavesKnowTheirRow

LEMMA SavesStep ==
    ASSUME TypeOK, SavesKnowTheirRow, Next
    PROVE  SavesKnowTheirRow'
<1> SUFFICES ASSUME NEW v \in Writers, writer'[v].pc = "save"
             PROVE  /\ writer'[v].row \in Delegations
                    /\ deleg'[writer'[v].row].name = writer'[v].name
  BY DEF SavesKnowTheirRow
<1>1. ASSUME v \in Uploading, writer'[v] = writer[v]
      PROVE  /\ writer'[v].row \in Delegations
             /\ deleg'[writer'[v].row].name = writer'[v].name
  <2>1. writer[v].row \in Delegations /\ deleg[writer[v].row].name = writer[v].name
    BY <1>1 DEF SavesKnowTheirRow
  <2>2. CASE \A i \in Delegations : deleg'[i].name = deleg[i].name
    BY <1>1, <2>1, <2>2
  <2>3. ASSUME NEW w \in Writers, NEW i \in Delegations, CommitDelegation(w, i)
        PROVE  deleg'[writer[v].row].name = writer[v].name
    <3>1. writer[v] \in Save
      BY <1>1 DEF TypeOK, Uploading, Write, IdleWriter
    <3>2. writer[v].name # "none"
      BY <3>1, ResolversAssumption DEF Save
    <3>3. CASE writer[v].row # i
      BY <2>1, <2>3, <3>3, CommitNames
    <3>4. CASE writer[v].row = i
      BY <2>1, <2>3, <3>2, <3>4, CommitNames DEF NoDeleg
    <3> QED BY <3>3, <3>4
  <2> QED BY <1>1, <2>1, <2>2, <2>3, NamesChange
<1>2. ASSUME NEW w \in Writers, NEW n \in Resolvers, StampDelegation(w, n)
      PROVE  /\ writer'[v].row \in Delegations
             /\ deleg'[writer'[v].row].name = writer'[v].name
  <2>1. deleg' = deleg
    BY <1>2 DEF StampDelegation, data
  <2>2. CASE v # w
    <3>1. writer'[v] = writer[v]
      BY <1>2, <2>2 DEF StampDelegation, TypeOK
    <3> QED BY <1>1, <3>1 DEF Uploading
  <2>3. CASE v = w
    <3>1. /\ Named(n) # {} /\ writer'[v].row = Min(Named(n)) /\ writer'[v].name = n
      BY <1>2, <2>3 DEF StampDelegation, TypeOK
    <3>2. Named(n) \in SUBSET Nat
      BY DelegationsAssumption DEF Named
    <3>3. Min(Named(n)) \in Named(n)
      BY <3>1, <3>2, Least DEF Min
    <3> QED BY <2>1, <3>1, <3>3 DEF Named
  <2> QED BY <2>2, <2>3
<1>3. v \in Uploading'
  BY DEF Uploading
<1> QED BY <1>1, <1>2, <1>3, UploadsBegin

\* A name whose first uploads have not overlapped keeps to one row.
LEMMA OneRowStep ==
    ASSUME TypeOK, SavesKnowTheirRow, Next, NEW n \in Resolvers, OneRow(n), ~Crossing(n)'
    PROVE  OneRow(n)'
<1>1. n # "none"
  BY ResolversAssumption
<1>2. CASE /\ \A i \in Delegations : deleg'[i].name = deleg[i].name
           /\ \A w \in Uploading' : w \in Uploading /\ writer'[w] = writer[w]
  <2>1. Inserting(n)' \subseteq Inserting(n)
    BY <1>2 DEF Inserting, Uploading
  <2>2. Named(n)' = Named(n)
    BY <1>2 DEF Named
  <2> QED BY <2>1, <2>2 DEF OneRow
<1>3. ASSUME NEW w \in Writers, NEW m \in Resolvers, StampDelegation(w, m)
      PROVE  OneRow(n)'
  <2>1. deleg' = deleg /\ \A v \in Writers \ {w} : writer'[v] = writer[v]
    BY <1>3 DEF StampDelegation, data, TypeOK
  <2>2. Named(n)' = Named(n)
    BY <2>1 DEF Named
  <2>3. w \in Inserting(n)' => Named(n) = {}
    BY <1>3 DEF StampDelegation, Inserting, TypeOK
  <2>4. Inserting(n)' \subseteq Inserting(n) \cup {w}
    BY <2>1 DEF Inserting
  <2> QED BY <2>2, <2>3, <2>4 DEF OneRow
<1>4. ASSUME NEW w \in Writers, NEW i \in Delegations, CommitDelegation(w, i)
      PROVE  OneRow(n)'
  <2>1. /\ writer[w] \in Save /\ w \in Uploading
        /\ writer'[w] = IdleWriter
        /\ deleg'[i].name = writer[w].name
        /\ \A j \in Delegations \ {i} : deleg'[j] = deleg[j]
        /\ \/ writer[w].pc = "insert" /\ deleg[i] = NoDeleg
           \/ writer[w].pc = "save" /\ deleg[i].name = writer[w].name
    BY <1>4, CommitNames
  <2>2. Inserting(n)' \subseteq Inserting(n) \ {w}
    BY <1>4, <2>1 DEF CommitDelegation, Finish, Inserting, IdleWriter, TypeOK
  <2>3. CASE writer[w].name # n \/ writer[w].pc = "save"
    <3>1. Named(n)' = Named(n)
      BY <1>1, <2>1, <2>3 DEF Named, NoDeleg
    <3> QED BY <2>2, <3>1 DEF OneRow
  <2>4. CASE writer[w].name = n /\ writer[w].pc = "insert"
    <3>1. w \in Inserting(n)
      BY <2>4 DEF Inserting
    <3>2. Inserting(n)' = {} /\ Named(n) = {}
      BY <2>2, <3>1 DEF OneRow, Crossing
    <3>3. Named(n)' \subseteq {i}
      BY <2>1, <3>2 DEF Named
    <3> QED BY <3>2, <3>3 DEF OneRow
  <2> QED BY <2>1, <2>3, <2>4
<1>5. ASSUME NEW w \in Writers, NEW m \in Resolvers, StampDelegation(w, m)
      PROVE  \A i \in Delegations : deleg'[i].name = deleg[i].name
  BY <1>5 DEF StampDelegation, data
<1> QED BY <1>2, <1>3, <1>4, UploadsBegin, NamesChange

LEMMA RowsStep ==
    ASSUME TypeOK, RowsInv, HistoryNext
    PROVE  RowsInv'
<1>1. crossed \subseteq crossed' /\ \A n \in Resolvers : Crossing(n)' => n \in crossed'
  BY DEF HistoryNext
<1>2. SavesKnowTheirRow'
  BY SavesStep DEF RowsInv, HistoryNext
<1>3. ASSUME NEW n \in Resolvers \ crossed' PROVE OneRow(n)'
  BY <1>1, OneRowStep DEF RowsInv, HistoryNext
<1>4. (SavesKnowTheirRow /\ \A n \in Resolvers \ crossed : OneRow(n))'
  BY <1>2, <1>3
<1> QED BY <1>4 DEF RowsInv

-----------------------------------------------------------------------------
(* The short circuit, with the history of writes it cannot see. *)

\* A step of the clients or a commit leaves the copy alone, and what the poll
\* has read.
LEMMA StillPoll ==
    ASSUME TypeOK, Next, ~PollStep
    PROVE  copy' = copy /\ poll'.pc = poll.pc /\ poll'.got = poll.got
<1> DEFINE Apart == copy' = copy /\ poll'.pc = poll.pc /\ poll'.got = poll.got
<1>1. ASSUME NEW x, Touch(x), copy' = copy PROVE Apart
  <2>1. CASE poll.pc = "idle"
    BY <1>1, <2>1 DEF Touch
  <2>2. CASE poll.pc # "idle"
    <3>1. poll \in Polls /\ poll' = [poll EXCEPT !.touched = @ \cup {x}]
      BY <1>1, <2>2, PollTypes DEF Touch
    <3> QED BY <1>1, <3>1 DEF Polls
  <2> QED BY <2>1, <2>2
<1>2. UNCHANGED <<poll, copy>> => Apart
  OBVIOUS
<1> HIDE DEF Apart
<1>3. ClientWrite => Apart
  BY <1>1, <1>2 DEF ClientWrite, StampSecret, StampDelegation, BulkUpdate, DropSecret, MoveIn,
                    Revoke, Allow, Disallow
<1>4. (\E w \in Writers : Commit(w)) => Apart
  BY <1>1, <1>2 DEF Commit, CommitSecret, CommitDelegation
<1> QED BY <1>3, <1>4 DEF Next, Apart

\* A step changes at most one of the three things a poll reads.
LEMMA OneWrite ==
    ASSUME Next
    PROVE  \/ UNCHANGED <<secret, deleg>>
           \/ UNCHANGED <<secret, allow>>
           \/ UNCHANGED <<deleg, allow>>
<1>1. PollStep => UNCHANGED <<secret, deleg>>
  BY DEF PollStep, BeginPoll, ReadDelegation, ReadAllowlist, ReadSecrets, AnswerPoll, data
<1>2. ClientWrite => \/ UNCHANGED <<secret, deleg>>
                     \/ UNCHANGED <<secret, allow>>
                     \/ UNCHANGED <<deleg, allow>>
  BY DEF ClientWrite, StampSecret, StampDelegation, BulkUpdate, DropSecret, MoveIn, Revoke,
         Allow, Disallow, data
<1>3. (\E w \in Writers : Commit(w)) => \/ UNCHANGED <<secret, allow>>
                                        \/ UNCHANGED <<deleg, allow>>
  BY DEF Commit, CommitSecret, CommitDelegation
<1> QED BY <1>1, <1>2, <1>3 DEF Next

\* Nothing is stored that is older than the copy, unless a write was blind.
LEMMA NotOlder ==
    ASSUME TypeOK, ShownInv, ~blind
    PROVE  copy.version <= Current.version /\ Current.version \in Stamp
<1>1. /\ secret \in [Keys -> Secret \cup {NoSecret}] /\ ActiveKey \in Stamp
      /\ copy.version \in Stamp
  BY ActiveKeyFound DEF TypeOK, Payload
<1>2. \A k \in Keys : secret[k].at \in Stamp
  BY <1>1, ClockAssumption DEF Secret, NoSecret, Time, Stamp
<1>3. /\ Current.version \in Stamp /\ ActiveKey <= Current.version
      /\ \A k \in Keys : secret[k].at <= Current.version
  BY <1>1, WatermarkType DEF Current
<1>4. CASE ActiveKey = copy.key /\ secret = copy.secrets
  BY <1>3, <1>4, ClockAssumption DEF ShownInv, VersionsAreWatermarks, Current, Stamp
<1>5. CASE ActiveKey > copy.version
  BY <1>1, <1>3, <1>5, ClockAssumption DEF Stamp
<1>6. CASE \E k \in Keys : secret[k].at > copy.version
  BY <1>1, <1>2, <1>3, <1>6, ClockAssumption DEF Stamp
<1> QED BY <1>3, <1>4, <1>5, <1>6 DEF ShownInv, ChangesShow, KeyShows, RowsShow

\* A write that raises the watermark shows what it changes.
LEMMA ShownWrite ==
    ASSUME TypeOK, TypeOK', ShownInv, Next, data' # data,
           blind' = (blind \/ Current'.version <= Current.version)
    PROVE  ShownInv'
<1>1. copy' = copy /\ poll'.pc = poll.pc /\ poll'.got = poll.got
  <2>1. ~PollStep
    BY DEF PollStep, BeginPoll, ReadDelegation, ReadAllowlist, ReadSecrets, AnswerPoll, data
  <2> QED BY <2>1, StillPoll
<1>2. VersionsAreWatermarks'
  BY <1>1 DEF ShownInv, VersionsAreWatermarks, Watermark
<1>3. ASSUME ~blind' PROVE allow' = copy.allow /\ KeyShows(ActiveKey') /\ RowsShow(secret')
  <2>1. ~blind /\ ~(Current'.version <= Current.version)
    BY <1>3
  <2>2. copy.version <= Current.version /\ Current.version \in Stamp /\ copy.version \in Stamp
    BY <2>1, NotOlder DEF TypeOK, Payload
  <2>3. /\ ActiveKey' \in Stamp /\ secret' \in [Keys -> Secret \cup {NoSecret}]
        /\ ActiveKey \in Stamp /\ secret \in [Keys -> Secret \cup {NoSecret}]
    <3>1. (ActiveKey \in Stamp)'
      BY ActiveKeyFound, PTL
    <3> QED BY <3>1, ActiveKeyFound DEF TypeOK, Stamp
  <2>4. /\ ActiveKey <= Current.version
        /\ \A k \in Keys : secret[k].at <= Current.version
    BY <2>3, WatermarkType DEF Current
  <2>5. /\ Current'.version \in Stamp
        /\ \/ Current'.version = ActiveKey'
           \/ \E k \in Keys : Current'.version = secret'[k].at
    <3>1. Current'.version = Watermark(secret', ActiveKey')
      BY DEF Current, Watermark
    <3> QED BY <2>3, <3>1, WatermarkType
  <2>6. /\ allow = copy.allow /\ KeyShows(ActiveKey) /\ RowsShow(secret)
    BY <2>1 DEF ShownInv, ChangesShow
  <2>7. CASE UNCHANGED <<secret, deleg>>
    BY <2>1, <2>2, <2>7, ClockAssumption
       DEF Current, ActiveKey, ActiveRows, Watermark, Stamp
  <2>8. CASE UNCHANGED <<secret, allow>>
    <3>1. ActiveKey' > Current.version
      BY <2>1, <2>2, <2>4, <2>5, <2>8, ClockAssumption DEF Stamp
    <3>2. ActiveKey' > copy.version
      BY <2>2, <2>3, <3>1, ClockAssumption DEF Stamp
    <3> QED BY <2>6, <2>8, <3>2 DEF KeyShows, RowsShow
  <2>9. CASE UNCHANGED <<deleg, allow>>
    <3>1. ActiveKey' = ActiveKey
      BY <2>9 DEF ActiveKey, ActiveRows
    <3>2. PICK k \in Keys : secret'[k].at = Current'.version
      BY <2>1, <2>2, <2>3, <2>4, <2>5, <3>1, ClockAssumption DEF Stamp
    <3>3. secret'[k].at > copy.version
      BY <2>1, <2>2, <2>5, <3>2, ClockAssumption DEF Stamp
    <3> QED BY <2>6, <2>9, <3>1, <3>3 DEF KeyShows, RowsShow
  <2> QED BY <2>7, <2>8, <2>9, OneWrite
<1>4. ChangesShow'
  BY <1>1, <1>3 DEF ShownInv, ChangesShow, KeyShows, RowsShow
<1> QED BY <1>2, <1>4 DEF ShownInv

\* A poll reads what is stored, and an undisturbed one leaves the resolver with
\* what is stored.
LEMMA ShownPoll ==
    ASSUME IInv, ShownInv, PollStep,
           blind' = IF copy' # copy THEN poll.touched # {} ELSE blind
    PROVE  ShownInv'
<1> USE DEF IInv
<1>1. UNCHANGED data /\ ActiveKey' = ActiveKey
  BY DEF PollStep, BeginPoll, ReadDelegation, ReadAllowlist, ReadSecrets, AnswerPoll,
         data, ActiveKey, ActiveRows
<1>2. CASE BeginPoll
  <2>1. poll'.pc = "delegation" /\ copy' = copy
    BY <1>2 DEF BeginPoll, NoPoll
  <2> QED BY <1>1, <2>1
          DEF data, ShownInv, ChangesShow, VersionsAreWatermarks, KeyShows, RowsShow, Watermark
<1>3. CASE ReadDelegation
  <2>1. poll'.pc = "allowlist" /\ poll'.got.key = ActiveKey /\ copy' = copy
    BY <1>3, PollTypes DEF ReadDelegation, Polls, Payload
  <2> QED BY <1>1, <2>1
          DEF data, ShownInv, ChangesShow, VersionsAreWatermarks, KeyShows, RowsShow, Watermark
<1>4. CASE ReadAllowlist
  <2>1. /\ poll.pc = "allowlist" /\ poll'.pc = "secrets" /\ poll'.got.allow = allow
        /\ poll'.got.key = poll.got.key /\ copy' = copy
    BY <1>4, PollTypes DEF ReadAllowlist, Polls, Payload
  <2> QED BY <1>1, <2>1
          DEF data, ShownInv, ChangesShow, VersionsAreWatermarks, KeyShows, RowsShow, Watermark
<1>5. CASE ReadSecrets
  <2>1. /\ poll.pc = "secrets" /\ poll'.pc = "answer" /\ poll'.got.secrets = secret
        /\ poll'.got.key = poll.got.key /\ poll'.got.allow = poll.got.allow
        /\ poll'.got.version = Watermark(secret, poll.got.key) /\ copy' = copy
    BY <1>5, PollTypes DEF ReadSecrets, Polls, Payload
  <2> QED BY <1>1, <2>1
          DEF data, ShownInv, ChangesShow, VersionsAreWatermarks, KeyShows, RowsShow, Watermark
<1>6. CASE AnswerPoll
  <2>1. poll.pc = "answer" /\ poll'.pc = "idle" /\ copy' \in {copy, poll.got}
    BY <1>6 DEF AnswerPoll, NoPoll
  <2>2. CASE copy' = copy
    BY <1>1, <2>1, <2>2
       DEF data, ShownInv, ChangesShow, VersionsAreWatermarks, KeyShows, RowsShow, Watermark
  <2>3. CASE copy' # copy
    <3>1. copy' = poll.got
      BY <2>1, <2>3
    <3>2. VersionsAreWatermarks'
      BY <2>1, <3>1 DEF ShownInv, VersionsAreWatermarks, Watermark
    <3>3. ASSUME ~blind'
          PROVE  allow' = copy'.allow /\ ActiveKey' = copy'.key /\ secret' = copy'.secrets
      <4>1. poll.touched = {}
        BY <2>3, <3>3
      <4>2. /\ ActiveKey = poll.got.key
            /\ \A d \in Domains : d \in allow <=> d \in poll.got.allow
            /\ \A k \in Keys : secret[k] = poll.got.secrets[k]
        BY <2>1, <4>1 DEF UntouchedIsCurrent
      <4>3. /\ allow \subseteq Domains /\ poll.got.allow \subseteq Domains
            /\ secret \in [Keys -> Secret \cup {NoSecret}]
            /\ poll.got.secrets \in [Keys -> Secret \cup {NoSecret}]
        BY PollTypes DEF TypeOK, Payload
      <4>4. allow = poll.got.allow /\ secret = poll.got.secrets
        BY <4>2, <4>3
      <4> QED BY <1>1, <3>1, <4>2, <4>4 DEF data
    <3>4. ChangesShow'
      BY <2>1, <3>3 DEF ChangesShow, KeyShows, RowsShow
    <3> QED BY <3>2, <3>4 DEF ShownInv
  <2> QED BY <2>2, <2>3
<1> QED BY <1>2, <1>3, <1>4, <1>5, <1>6 DEF PollStep

LEMMA ShownStep ==
    ASSUME IInv, IInv', ShownInv, HistoryNext
    PROVE  ShownInv'
<1>1. CASE data' # data
  BY <1>1, ShownWrite DEF HistoryNext, IInv
<1>2. CASE data' = data /\ PollStep
  BY <1>2, ShownPoll DEF HistoryNext
<1>3. CASE data' = data /\ ~PollStep
  <2>1. copy' = copy /\ poll'.pc = poll.pc /\ poll'.got = poll.got
    BY <1>3, StillPoll DEF HistoryNext, IInv
  <2>2. blind' = blind /\ ActiveKey' = ActiveKey
    BY <1>3, <2>1 DEF HistoryNext, data, ActiveKey, ActiveRows
  <2> QED BY <1>3, <2>1, <2>2
          DEF data, ShownInv, ChangesShow, VersionsAreWatermarks, KeyShows, RowsShow, Watermark
<1> QED BY <1>1, <1>2, <1>3

LEMMA ShownInit == HistoryInit => ShownInv
<1> SUFFICES ASSUME HistoryInit PROVE ShownInv
  OBVIOUS
<1>1. ActiveKey = 0
  BY DEF HistoryInit, Init, ActiveKey, ActiveRows, NoDeleg
<1>2. Watermark([k \in Keys |-> NoSecret], 0) = 0
  <2>1. [k \in Keys |-> NoSecret] \in [Keys -> Secret \cup {NoSecret}] /\ 0 \in Stamp
    BY ClockAssumption DEF Stamp
  <2>2. \A k \in Keys : [j \in Keys |-> NoSecret][k].at = 0
    BY DEF NoSecret
  <2> QED BY <2>1, <2>2, WatermarkType
<1> QED BY <1>1, <1>2
        DEF HistoryInit, Init, ShownInv, ChangesShow, VersionsAreWatermarks, KeyShows,
            RowsShow, Empty, NoPoll

\* The history follows the specification.
LEMMA HistoryFollows == HistorySpec => Spec
<1>1. HistoryInit => Init
  BY DEF HistoryInit
<1>2. [HistoryNext]_<<vars, history>> => [Next]_vars
  BY DEF HistoryNext
<1> QED BY <1>1, <1>2, PTL DEF HistorySpec, Spec

\* As long as uploads of a name do not overlap before it has a row it never
\* gets a second one (save_delegation).
THEOREM NamesStayUnique == HistorySpec => []OneRowUnlessCrossed
<1>1. HistoryInit => RowsInv
  <2> SUFFICES ASSUME HistoryInit PROVE RowsInv
    OBVIOUS
  <2>1. \A w \in Writers : writer[w].pc = "idle"
    BY DEF HistoryInit, Init, IdleWriter
  <2>2. ASSUME NEW n \in Resolvers PROVE Inserting(n) = {} /\ Named(n) = {}
    <3>1. n # "none"
      BY <2>2, ResolversAssumption
    <3>2. \A i \in Delegations : deleg[i].name = "none"
      BY DEF HistoryInit, Init, NoDeleg
    <3> QED BY <2>1, <3>1, <3>2 DEF Inserting, Named
  <2>3. \A n \in Resolvers : OneRow(n)
    BY <2>2 DEF OneRow, Crossing
  <2> QED BY <2>1, <2>3 DEF RowsInv, SavesKnowTheirRow
<1>2. IInv /\ RowsInv /\ [HistoryNext]_<<vars, history>> => RowsInv'
  <2>1. IInv /\ RowsInv /\ HistoryNext => RowsInv'
    BY RowsStep DEF IInv
  <2>2. RowsInv /\ UNCHANGED <<vars, history>> => RowsInv'
    BY DEF vars, history, RowsInv, SavesKnowTheirRow, OneRow, Crossing, Inserting, Named
  <2> QED BY <2>1, <2>2
<1>3. IInv /\ RowsInv => OneRowUnlessCrossed
  <2> SUFFICES ASSUME IInv, RowsInv, NEW i \in Delegations, NEW j \in Delegations,
                      deleg[i].name = deleg[j].name, deleg[i] # NoDeleg,
                      deleg[i].name \notin crossed
               PROVE  i = j
    BY DEF OneRowUnlessCrossed
  <2>1. deleg[i].name \in Resolvers
    BY DEF IInv, TypeOK, Deleg
  <2> QED BY <2>1 DEF RowsInv, OneRow, Named
<1> QED BY <1>1, <1>2, <1>3, HistoryFollows, Invariance, PTL DEF HistorySpec

\* When every write since the last full payload has raised the watermark the
\* short circuit of sync_workspace is right (views.py:754-756).
THEOREM ShortCircuitIsRight == HistorySpec => []UnchangedIsTrue
<1>1. IInv /\ IInv' /\ ShownInv /\ [HistoryNext]_<<vars, history>> => ShownInv'
  <2>1. IInv /\ IInv' /\ ShownInv /\ HistoryNext => ShownInv'
    BY ShownStep
  <2>2. ShownInv /\ UNCHANGED <<vars, history>> => ShownInv'
    BY DEF vars, history, ShownInv, ChangesShow, VersionsAreWatermarks, KeyShows, RowsShow,
           Watermark, ActiveKey, ActiveRows
  <2> QED BY <2>1, <2>2
<1>2. IInv /\ ShownInv => UnchangedIsTrue
  <2> SUFFICES ASSUME IInv, ShownInv, poll.pc = "answer", Unchanged, ~blind
               PROVE  poll.got = copy
    BY DEF UnchangedIsTrue
  <2>1. poll.got \in Payload /\ copy \in Payload
    BY PollTypes DEF IInv, TypeOK
  <2>2. /\ poll.got.version = copy.version /\ poll.got.allow = copy.allow
        /\ KeyShows(poll.got.key) /\ RowsShow(poll.got.secrets)
        /\ poll.got.version = Watermark(poll.got.secrets, poll.got.key)
    BY DEF Unchanged, ShownInv, ChangesShow, VersionsAreWatermarks
  <2>3. /\ poll.got.version \in Stamp /\ poll.got.key \in Stamp
        /\ poll.got.secrets \in [Keys -> Secret \cup {NoSecret}]
        /\ \A k \in Keys : poll.got.secrets[k].at \in Stamp
    BY <2>1, ClockAssumption DEF Payload, Secret, NoSecret, Time, Stamp
  <2>4. /\ poll.got.key <= poll.got.version
        /\ \A k \in Keys : poll.got.secrets[k].at <= poll.got.version
    BY <2>2, <2>3, WatermarkType
  <2>5. poll.got.key = copy.key
    BY <2>2, <2>3, <2>4, ClockAssumption DEF KeyShows, Stamp
  <2>6. poll.got.secrets = copy.secrets
    BY <2>2, <2>3, <2>4, ClockAssumption DEF RowsShow, Stamp
  <2>7. poll.got.version = copy.version /\ poll.got.allow = copy.allow
    BY <2>2
  <2>8. ASSUME NEW p \in Payload
        PROVE  p = [version |-> p.version, key |-> p.key,
                    allow |-> p.allow, secrets |-> p.secrets]
    BY <2>8 DEF Payload
  <2> QED BY <2>1, <2>5, <2>6, <2>7, <2>8
<1> QED BY <1>1, <1>2, ShownInit, HistoryFollows, Invariance, PTL DEF HistorySpec
=============================================================================
