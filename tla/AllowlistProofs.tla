--------------------------- MODULE AllowlistProofs ---------------------------
(* Proofs about Allowlist, for any domains and any number of requests. *)
EXTENDS AllowlistHistory, TLAPS

\* Appending to a sequence makes the appended value its last and leaves the
\* pairs of neighbours before it alone.
LEMMA AppendLast ==
    ASSUME NEW S, NEW s \in Seq(S), NEW x \in S
    PROVE  /\ Append(s, x) \in Seq(S)
           /\ Len(Append(s, x)) = Len(s) + 1
           /\ Append(s, x) # << >>
           /\ Last(Append(s, x)) = x
           /\ \A i \in 1..Len(s) : Append(s, x)[i] = s[i]
<1>1. Append(s, x) \in Seq(S) /\ Len(Append(s, x)) = Len(s) + 1
  OBVIOUS
<1>2. \A i \in 1..Len(s) : Append(s, x)[i] = s[i]
  OBVIOUS
<1>3. Append(s, x)[Len(s) + 1] = x
  OBVIOUS
<1>4. Len(s) \in Nat /\ Len(<< >>) = 0
  OBVIOUS
<1>5. Append(s, x) # << >>
  BY <1>1, <1>4
<1> QED BY <1>1, <1>2, <1>3, <1>5 DEF Last

\* The log of one domain stays free of double additions when what is appended
\* is a removal, or when its last word was one.
LEMMA NoDoubleStep ==
    ASSUME NEW s \in Seq(Actions), NEW x \in Actions,
           \A i \in 1..(Len(s) - 1) : ~(s[i] = "added" /\ s[i + 1] = "added"),
           x = "removed" \/ s = << >> \/ Last(s) = "removed",
           NEW i \in 1..(Len(Append(s, x)) - 1)
    PROVE  ~(Append(s, x)[i] = "added" /\ Append(s, x)[i + 1] = "added")
<1> DEFINE t == Append(s, x)
<1>1. /\ Len(t) = Len(s) + 1 /\ Last(t) = x /\ Len(s) \in Nat
      /\ \A j \in 1..Len(s) : t[j] = s[j]
      /\ t[Len(s) + 1] = x
  BY AppendLast DEF Last
<1>2. CASE i < Len(s)
  <2>1. i \in 1..(Len(s) - 1) /\ i \in 1..Len(s) /\ i + 1 \in 1..Len(s)
    BY <1>1, <1>2
  <2> QED BY <2>1, <1>1
<1>3. CASE i = Len(s)
  <2>1. i \in 1..Len(s) /\ s # << >> /\ t[i] = s[i] /\ t[i + 1] = x
    BY <1>1, <1>3
  <2>2. s[i] = Last(s)
    BY <1>3 DEF Last
  <2> QED BY <2>1, <2>2
<1> QED BY <1>1, <1>2, <1>3

LEMMA InitIInv == Init => IInv
BY DEF Init, IInv, TypeOK, AbsentIsLogged, NoDoubleAdd, Idle

\* Only Insert and Delete write to the tables.
LEMMA StepIInv == IInv /\ [Next]_vars => IInv'
<1> SUFFICES ASSUME IInv, [Next]_vars PROVE IInv'
  OBVIOUS
<1> USE DEF IInv
<1>1. CASE UNCHANGED vars
  BY <1>1 DEF vars, TypeOK, AbsentIsLogged, NoDoubleAdd
<1>2. CASE Next
  <2>1. PICK r \in Requests :
            \/ \E batch \in SUBSET Domains : AskAdd(r, batch)
            \/ \E d \in Domains : AskRemove(r, d)
            \/ ReadExisting(r) \/ Insert(r) \/ Find(r) \/ Delete(r)
    BY <1>2 DEF Next
  <2>2. req[r] \in Adding \cup Removing \cup {Idle}
    BY DEF TypeOK
  <2>3. ASSUME UNCHANGED <<row, log, nextId>>,
               req' \in [Requests -> Adding \cup Removing \cup {Idle}]
        PROVE  IInv'
    BY <2>3 DEF TypeOK, AbsentIsLogged, NoDoubleAdd
  <2>4. ASSUME NEW batch \in SUBSET Domains, AskAdd(r, batch) PROVE IInv'
    <3>1. [Idle EXCEPT !.pc = "read", !.batch = batch] \in Adding
      BY DEF Idle, Adding
    <3>2. req' \in [Requests -> Adding \cup Removing \cup {Idle}]
      BY <2>4, <3>1 DEF AskAdd, Ask, Step, TypeOK
    <3> QED BY <2>3, <2>4, <3>2 DEF AskAdd, Ask
  <2>5. ASSUME NEW d \in Domains, AskRemove(r, d) PROVE IInv'
    <3>1. [Idle EXCEPT !.pc = "find", !.domain = d] \in Removing
      BY DEF Idle, Removing
    <3>2. req' \in [Requests -> Adding \cup Removing \cup {Idle}]
      BY <2>5, <3>1 DEF AskRemove, Ask, Step, TypeOK
    <3> QED BY <2>3, <2>5, <3>2 DEF AskRemove, Ask
  <2>6. CASE ReadExisting(r)
    <3> DEFINE new == {d \in req[r].batch : row[d] = 0}
    <3>1. req[r].batch \subseteq Domains
      BY <2>2, <2>6 DEF ReadExisting, Adding, Removing, Idle
    <3>2. [Idle EXCEPT !.pc = "insert", !.batch = new] \in Adding
      BY <3>1 DEF Idle, Adding
    <3>3. req' \in [Requests -> Adding \cup Removing \cup {Idle}]
      BY <2>6, <3>2 DEF ReadExisting, Step, TypeOK
    <3> QED BY <2>3, <2>6, <3>3 DEF ReadExisting
  <2>7. CASE Find(r)
    <3>1. req[r] \in Removing
      BY <2>2, <2>7 DEF Find, Adding, Removing, Idle
    <3>2. row[req[r].domain] \in Nat
      BY <3>1 DEF Removing, TypeOK
    <3>3. [req[r] EXCEPT !.pc = "delete", !.id = row[req[r].domain]] \in Removing
      BY <3>1, <3>2 DEF Removing
    <3>4. req' \in [Requests -> Adding \cup Removing \cup {Idle}]
      BY <2>7, <3>3 DEF Find, Step, TypeOK
    <3> QED BY <2>3, <2>7, <3>4 DEF Find
  <2>8. CASE Insert(r)
    <3> DEFINE new == req[r].batch
    <3>1. req' \in [Requests -> Adding \cup Removing \cup {Idle}]
      BY <2>8 DEF Insert, Step, TypeOK
    <3>2. CASE \E d \in new : row[d] # 0
      BY <2>3, <2>8, <3>1, <3>2 DEF Insert
    <3>3. CASE \A d \in new : row[d] = 0
      <4>1. /\ row' = [d \in Domains |-> IF d \in new THEN nextId ELSE row[d]]
            /\ log' = [d \in Domains |-> IF d \in new THEN Append(log[d], "added")
                                         ELSE log[d]]
            /\ nextId' = nextId + 1
        BY <2>8, <3>3 DEF Insert
      <4>2. ASSUME NEW d \in Domains
            PROVE  /\ log'[d] \in Seq(Actions)
                   /\ row'[d] = 0 /\ log'[d] # << >> => Last(log'[d]) = "removed"
                   /\ \A i \in 1..(Len(log'[d]) - 1) :
                          ~(log'[d][i] = "added" /\ log'[d][i + 1] = "added")
        <5>1. CASE d \notin new
          <6>1. row'[d] = row[d] /\ log'[d] = log[d]
            BY <4>1, <5>1
          <6> QED BY <6>1 DEF TypeOK, AbsentIsLogged, NoDoubleAdd
        <5>2. CASE d \in new
          <6>1. row[d] = 0 /\ row'[d] = nextId /\ log'[d] = Append(log[d], "added")
            BY <3>3, <4>1, <5>2
          <6>2. log[d] = << >> \/ Last(log[d]) = "removed"
            BY <6>1 DEF AbsentIsLogged
          <6>3. nextId # 0 /\ log[d] \in Seq(Actions) /\ "added" \in Actions
            BY DEF TypeOK, Actions
          <6>4. \A i \in 1..(Len(log[d]) - 1) :
                    ~(log[d][i] = "added" /\ log[d][i + 1] = "added")
            BY DEF NoDoubleAdd
          <6>5. log'[d] \in Seq(Actions)
            BY <6>1, <6>3, AppendLast
          <6>6. \A i \in 1..(Len(log'[d]) - 1) :
                    ~(log'[d][i] = "added" /\ log'[d][i + 1] = "added")
            BY <6>1, <6>2, <6>3, <6>4, NoDoubleStep
          <6> QED BY <6>1, <6>3, <6>5, <6>6
        <5> QED BY <5>1, <5>2
      <4>3. TypeOK'
        BY <3>1, <4>1, <4>2 DEF TypeOK
      <4> QED BY <4>2, <4>3 DEF AbsentIsLogged, NoDoubleAdd
    <3> QED BY <3>2, <3>3
  <2>9. CASE Delete(r)
    <3> DEFINE d == req[r].domain
    <3>1. d \in Domains
      BY <2>2, <2>9 DEF Delete, Adding, Removing, Idle
    <3>2. /\ row' = IF row[d] = req[r].id THEN [row EXCEPT ![d] = 0] ELSE row
          /\ log' = [log EXCEPT ![d] = Append(log[d], "removed")]
          /\ nextId' = nextId
      BY <2>9 DEF Delete
    <3>3. log[d] \in Seq(Actions) /\ "removed" \in Actions
      BY <3>1 DEF TypeOK, Actions
    <3>4. /\ log'[d] = Append(log[d], "removed")
          /\ \A e \in Domains \ {d} : log'[e] = log[e] /\ row'[e] = row[e]
      BY <3>1, <3>2 DEF TypeOK
    <3>5. log'[d] \in Seq(Actions) /\ Last(log'[d]) = "removed"
      BY <3>3, <3>4, AppendLast
    <3>6. \A i \in 1..(Len(log[d]) - 1) :
              ~(log[d][i] = "added" /\ log[d][i + 1] = "added")
      BY <3>1 DEF NoDoubleAdd
    <3>7. \A i \in 1..(Len(log'[d]) - 1) :
              ~(log'[d][i] = "added" /\ log'[d][i + 1] = "added")
      BY <3>3, <3>4, <3>6, NoDoubleStep
    <3>8. req' \in [Requests -> Adding \cup Removing \cup {Idle}]
      BY <2>9 DEF Delete, Step, TypeOK
    <3>9. TypeOK'
      <4>1. row' \in [Domains -> Nat]
        BY <3>1, <3>2 DEF TypeOK
      <4>2. log' \in [Domains -> Seq(Actions)]
        BY <3>1, <3>2, <3>4, <3>5 DEF TypeOK
      <4> QED BY <3>2, <3>8, <4>1, <4>2 DEF TypeOK
    <3>10. AbsentIsLogged'
      BY <3>4, <3>5 DEF AbsentIsLogged
    <3>11. NoDoubleAdd'
      BY <3>4, <3>7 DEF NoDoubleAdd
    <3> QED BY <3>9, <3>10, <3>11
  <2> QED BY <2>1, <2>4, <2>5, <2>6, <2>7, <2>8, <2>9
<1> QED BY <1>1, <1>2

\* The inductive invariant holds in every reachable state.
THEOREM Invariance == Spec => []IInv
<1>1. Init => IInv
  BY InitIInv
<1>2. IInv /\ [Next]_vars => IInv'
  BY StepIInv
<1> QED BY <1>1, <1>2, PTL DEF Spec

\* A domain that is not on the list has its removal as the last word of its
\* log, however many requests overlap (AllowlistService).
THEOREM RemovalsAreLogged == Spec => []AbsentIsLogged
<1>1. IInv => AbsentIsLogged
  BY DEF IInv
<1> QED BY <1>1, Invariance, PTL

\* Two additions of a domain have a removal between them in the log
\* (AllowlistService).
THEOREM AdditionsAlternate == Spec => []NoDoubleAdd
<1>1. IInv => NoDoubleAdd
  BY DEF IInv
<1> QED BY <1>1, Invariance, PTL

-----------------------------------------------------------------------------
(* The log as the history of the entry, with the history of crossings. *)

Turns(s) == \A i \in DOMAIN s : s[i] = IF i % 2 = 1 THEN "added" ELSE "removed"

\* Taking turns goes on when what is appended is not what came last, and an
\* addition is the first word.
LEMMA TurnsAppend ==
    ASSUME NEW s \in Seq(Actions), Turns(s), NEW x \in Actions,
           \/ x = "added" /\ (s = << >> \/ Last(s) = "removed")
           \/ x = "removed" /\ s # << >> /\ Last(s) = "added"
    PROVE  Turns(Append(s, x))
<1> DEFINE t == Append(s, x)
<1>1. /\ Len(s) \in Nat /\ DOMAIN s = 1..Len(s) /\ DOMAIN t = 1..(Len(s) + 1)
      /\ t[Len(s) + 1] = x
      /\ \A i \in 1..Len(s) : t[i] = s[i]
  OBVIOUS
<1>2. x = IF (Len(s) + 1) % 2 = 1 THEN "added" ELSE "removed"
  <2>1. CASE s = << >>
    BY <2>1
  <2>2. CASE s # << >>
    <3>1. Len(s) \in DOMAIN s
      BY <1>1, <2>2
    <3>2. Last(s) = IF Len(s) % 2 = 1 THEN "added" ELSE "removed"
      BY <3>1 DEF Turns, Last
    <3>3. (Len(s) + 1) % 2 = 1 <=> ~(Len(s) % 2 = 1)
      BY <1>1
    <3> QED BY <2>2, <3>2, <3>3
  <2> QED BY <2>1, <2>2
<1>3. ASSUME NEW i \in 1..(Len(s) + 1)
      PROVE  t[i] = IF i % 2 = 1 THEN "added" ELSE "removed"
  <2>1. CASE i = Len(s) + 1
    BY <1>1, <1>2, <2>1
  <2>2. CASE i # Len(s) + 1
    <3>1. i \in DOMAIN s /\ t[i] = s[i]
      BY <1>1, <2>2
    <3> QED BY <3>1 DEF Turns
  <2> QED BY <2>1, <2>2
<1> QED BY <1>1, <1>3 DEF Turns

\* The log of d tells its history, and a removal under way knows the entry.
Told(d) ==
    /\ \A r \in Deleting(d) : req[r].id = row[d] /\ row[d] # 0
    /\ row[d] # 0 <=> log[d] # << >> /\ Last(log[d]) = "added"
    /\ Turns(log[d])

LEMMA HistoryInvTold ==
    HistoryInv <=> CrossingsAreKnown /\ \A d \in Domains \ crossed : Told(d)
BY DEF HistoryInv, FoundIsThere, LogIsTheHistory, Told, Turns

\* Of a domain whose removals have not crossed the log stays the history.
LEMMA ToldStep ==
    ASSUME IInv, Next, NEW d \in Domains, Told(d), ~Crossing(d)
    PROVE  Told(d)'
<1> USE DEF IInv
<1>1. PICK r \in Requests :
          \/ \E batch \in SUBSET Domains : AskAdd(r, batch)
          \/ \E e \in Domains : AskRemove(r, e)
          \/ ReadExisting(r) \/ Insert(r) \/ Find(r) \/ Delete(r)
  BY DEF Next
<1>2. req[r] \in Adding \cup Removing \cup {Idle}
  BY DEF TypeOK
<1>3. ASSUME NEW rec, Step(r, rec)
      PROVE  /\ req'[r] = rec
             /\ \A q \in Deleting(d)' : q = r \/ (q \in Deleting(d) /\ req'[q] = req[q])
  BY <1>3 DEF Step, Deleting, TypeOK
\* A step that leaves d alone and does not come to its removal.
<1>4. ASSUME NEW rec, Step(r, rec), row'[d] = row[d], log'[d] = log[d],
             rec.pc # "delete"
      PROVE  Told(d)'
  BY <1>3, <1>4 DEF Told, Deleting
<1>5. ASSUME NEW batch \in SUBSET Domains, AskAdd(r, batch) PROVE Told(d)'
  BY <1>4, <1>5 DEF AskAdd, Ask, Idle
<1>6. ASSUME NEW e \in Domains, AskRemove(r, e) PROVE Told(d)'
  BY <1>4, <1>6 DEF AskRemove, Ask, Idle
<1>7. CASE ReadExisting(r)
  BY <1>4, <1>7 DEF ReadExisting, Idle
<1>8. CASE Find(r)
  <2>1. UNCHANGED <<row, log>>
    BY <1>8 DEF Find
  <2>2. CASE row[req[r].domain] = 0
    BY <1>4, <1>8, <2>1, <2>2 DEF Find, Idle
  <2>3. CASE row[req[r].domain] # 0
    <3> DEFINE rec == [req[r] EXCEPT !.pc = "delete", !.id = row[req[r].domain]]
    <3>1. req[r] \in Removing
      BY <1>2, <1>8 DEF Find, Adding, Removing, Idle
    <3>2. rec.domain = req[r].domain /\ rec.id = row[req[r].domain]
      BY <3>1 DEF Removing
    <3>3. Step(r, rec)
      BY <1>8, <2>3 DEF Find
    <3> HIDE DEF rec
    <3>4. /\ req'[r] = rec
          /\ \A q \in Deleting(d)' : q = r \/ (q \in Deleting(d) /\ req'[q] = req[q])
      BY <1>3, <3>3
    <3>5. r \in Deleting(d)' => req[r].domain = d
      BY <3>2, <3>4 DEF Deleting
    <3> QED BY <2>1, <2>3, <3>2, <3>4, <3>5 DEF Told
  <2> QED BY <2>2, <2>3
<1>9. CASE Insert(r)
  <2>1. Step(r, Idle) /\ Idle.pc # "delete"
    BY <1>9 DEF Insert, Idle
  <2>2. CASE row'[d] = row[d] /\ log'[d] = log[d]
    BY <1>4, <2>1, <2>2
  <2>3. CASE ~(row'[d] = row[d] /\ log'[d] = log[d])
    <3>1. row[d] = 0 /\ row'[d] = nextId /\ log'[d] = Append(log[d], "added")
      BY <1>9, <2>3 DEF Insert, TypeOK
    <3>2. nextId # 0 /\ log[d] \in Seq(Actions) /\ "added" \in Actions
      BY DEF TypeOK, Actions
    <3>3. log'[d] # << >> /\ Last(log'[d]) = "added"
      BY <3>1, <3>2, AppendLast
    <3>4. Turns(log'[d])
      BY <3>1, <3>2, TurnsAppend DEF Told, AbsentIsLogged
    <3>5. Deleting(d)' = {}
      BY <1>3, <2>1, <3>1 DEF Told, Deleting
    <3> QED BY <3>1, <3>2, <3>3, <3>4, <3>5 DEF Told
  <2> QED BY <2>2, <2>3
<1>10. CASE Delete(r)
  <2>1. Step(r, Idle) /\ Idle.pc # "delete"
    BY <1>10 DEF Delete, Idle
  <2>2. CASE req[r].domain # d
    BY <1>4, <1>10, <2>1, <2>2 DEF Delete, TypeOK
  <2>3. CASE req[r].domain = d
    <3>1. r \in Deleting(d)
      BY <1>10, <2>3 DEF Delete, Deleting
    <3>2. row[d] # 0 /\ row'[d] = 0 /\ log'[d] = Append(log[d], "removed")
      BY <1>10, <2>3, <3>1 DEF Delete, Told, TypeOK
    <3>3. log[d] \in Seq(Actions) /\ "removed" \in Actions
      BY DEF TypeOK, Actions
    <3>4. Last(log'[d]) = "removed"
      BY <3>2, <3>3, AppendLast
    <3>5. Turns(log'[d])
      BY <3>2, <3>3, TurnsAppend DEF Told
    <3>6. Deleting(d)' = {}
      BY <1>3, <2>1, <3>1 DEF Crossing, Deleting
    <3> QED BY <3>2, <3>4, <3>5, <3>6 DEF Told
  <2> QED BY <2>2, <2>3
<1> QED BY <1>1, <1>5, <1>6, <1>7, <1>8, <1>9, <1>10

LEMMA HistoryStep ==
    ASSUME IInv, HistoryInv, HistoryNext
    PROVE  HistoryInv'
<1>1. crossed \subseteq crossed' /\ CrossingsAreKnown'
  BY DEF HistoryNext, CrossingsAreKnown
<1>2. ASSUME NEW d \in Domains \ crossed' PROVE Told(d)'
  BY <1>1, <1>2, HistoryInvTold, ToldStep DEF HistoryNext, CrossingsAreKnown
<1>3. (CrossingsAreKnown /\ \A d \in Domains \ crossed : Told(d))'
  BY <1>1, <1>2
<1> QED BY <1>3, HistoryInvTold, PTL

\* The history follows the specification.
LEMMA HistoryFollows == HistorySpec => Spec
<1>1. HistoryInit => Init
  BY DEF HistoryInit
<1>2. [HistoryNext]_<<vars, crossed>> => [Next]_vars
  BY DEF HistoryNext
<1> QED BY <1>1, <1>2, PTL DEF HistorySpec, Spec

\* As long as no two removals of a domain have overlapped its log is the
\* history of its entry, however many additions overlap with one another and
\* with a removal (AllowlistService).
THEOREM LogTellsTheHistory == HistorySpec => []LogIsTheHistory
<1>1. HistoryInit => HistoryInv
  BY DEF HistoryInit, Init, Idle, HistoryInv, CrossingsAreKnown, Crossing, Deleting,
         FoundIsThere, LogIsTheHistory
<1>2. IInv /\ HistoryInv /\ [HistoryNext]_<<vars, crossed>> => HistoryInv'
  BY HistoryStep
     DEF vars, HistoryInv, CrossingsAreKnown, Crossing, Deleting, FoundIsThere,
         LogIsTheHistory
<1>3. HistoryInv => LogIsTheHistory
  BY DEF HistoryInv
<1> QED BY <1>1, <1>2, <1>3, HistoryFollows, Invariance, PTL DEF HistorySpec
=============================================================================
