--------------------------- MODULE AuditLogProofs ---------------------------
(* Proofs about what resolvers and command lines send: about AuditLog, for    *)
(* any entries, parents, requests and page sizes, and about Telemetry, for    *)
(* any senders, batches, uploads and recomputations.                          *)
EXTENDS AuditLog, Telemetry, Integers, Sequences, TLAPS, FiniteSetTheorems, WellFoundedInduction

\* The least of three numbers, as NextPage takes it.
LEMMA MinOfThree ==
    ASSUME NEW a \in Nat, NEW b \in Nat, NEW c \in Nat
    PROVE  /\ Min({a, b, c}) \in {a, b, c}
           /\ Min({a, b, c}) <= a /\ Min({a, b, c}) <= b /\ Min({a, b, c}) <= c
<1>1. \E x \in {a, b, c} : \A y \in {a, b, c} : x <= y
  <2>1. CASE a <= b /\ a <= c  BY <2>1
  <2>2. CASE b <= a /\ b <= c  BY <2>2
  <2>3. CASE c <= a /\ c <= b  BY <2>3
  <2>q. QED  BY <2>1, <2>2, <2>3
<1>2. /\ Min({a, b, c}) \in {a, b, c}
      /\ \A y \in {a, b, c} : Min({a, b, c}) <= y
  BY <1>1, Zenon DEF Min
<1>q. QED  BY <1>2

\* The order of the export is a strict linear order of the entries.
LEMMA NewerIsLinear ==
    ASSUME NEW a \in Entries, NEW b \in Entries, NEW c \in Entries
    PROVE  /\ ~Newer(a, a)
           /\ Newer(a, b) => ~Newer(b, a)
           /\ Newer(a, b) /\ Newer(b, c) => Newer(a, c)
           /\ a = b \/ Newer(a, b) \/ Newer(b, a)
<1>1. /\ a \in Nat /\ b \in Nat /\ c \in Nat
      /\ Time[a] \in Nat /\ Time[b] \in Nat /\ Time[c] \in Nat
  BY EntriesAssumption
<1>q. QED  BY <1>1 DEF Newer

\* Initially nothing is stored and nobody has asked for anything.
LEMMA InitIInv == Init => IInv
<1> SUFFICES ASSUME Init PROVE IInv  OBVIOUS
<1>1. TypeOK  BY DEF Init, TypeOK, NoExport, Exports, Idle, Pending
<1>2. ReferencesExist /\ AckedIsKept  BY DEF Init, ReferencesExist, AckedIsKept
<1>3. FoundIsNamed  BY DEF Init, FoundIsNamed, Idle
<1>4. CursorSeparates  BY PagesAssumption DEF Init, CursorSeparates, NoExport
<1>5. ExportedOnce /\ ExportIsComplete
  BY FS_EmptySet DEF Init, ExportedOnce, ExportIsComplete, NoExport
<1>q. QED  BY <1>1, <1>2, <1>3, <1>4, <1>5 DEF IInv

-----------------------------------------------------------------------------
(* One lemma for each part of the state an action may disturb. *)

\* While nothing is written to or read from the log its parts of the
\* invariant stay.
LEMMA LogUntouched ==
    ASSUME IInv, UNCHANGED <<live, table, acked, export>>
    PROVE  /\ ReferencesExist' /\ AckedIsKept'
           /\ CursorSeparates' /\ ExportedOnce' /\ ExportIsComplete'
BY DEF IInv, ReferencesExist, AckedIsKept, Bereft, CursorSeparates, Behind,
       Visible, ExportedOnce, ExportIsComplete

\* While no request moves, what the requests have looked up stays.
LEMMA RequestsUntouched ==
    ASSUME IInv, UNCHANGED req
    PROVE  FoundIsNamed'
BY DEF IInv, FoundIsNamed, Named

\* Receive: a request begins without having looked anything up.
LEMMA ReceiveStep ==
    ASSUME IInv, NEW r \in Requests, NEW c \in Callers,
           NEW batch \in SUBSET Entries, Receive(r, c, batch)
    PROVE  IInv'
<1>1. TypeOK'
  BY DEF IInv, TypeOK, Receive, Advance, Rest, Idle, Pending
<1>2. FoundIsNamed'
  BY DEF IInv, TypeOK, FoundIsNamed, Named, Receive, Advance, Idle
<1>3. UNCHANGED <<live, table, acked, export>>  BY DEF Receive, Rest
<1>q. QED  BY <1>1, <1>2, <1>3, LogUntouched DEF IInv

\* ReadScope: only what the caller may write to stays in the batch.
LEMMA ReadScopeStep ==
    ASSUME IInv, NEW r \in Requests, ReadScope(r)
    PROVE  IInv'
<1> DEFINE scope == Scope(req[r].caller)
           kept == {e \in req[r].batch : Of[e] \in scope}
<1>0. req[r] \in Pending
  BY DEF IInv, TypeOK, ReadScope, At, Idle
<1>1. scope \in SUBSET Workspaces
  BY <1>0, ParentsAssumption DEF IInv, TypeOK, Scope, Pending
<1>2. req' = [req EXCEPT ![r] = [req[r] EXCEPT !.pc = "workspaces",
                                   !.granted = scope, !.batch = kept]]
  BY DEF ReadScope, Advance
<1>3. req[r].found = {}
  BY DEF IInv, FoundIsNamed, ReadScope, At, Named
<1>4. TypeOK'
  BY <1>0, <1>1, <1>2 DEF IInv, TypeOK, ReadScope, Rest, Pending
<1>5. FoundIsNamed'
  BY <1>0, <1>2, <1>3 DEF IInv, TypeOK, FoundIsNamed, Named, Pending
<1>6. UNCHANGED <<live, table, acked, export>>  BY DEF ReadScope, Rest
<1>q. QED  BY <1>4, <1>5, <1>6, LogUntouched DEF IInv

\* The three lookups: what is found is named by the batch and exists.
LEMMA LookUpStep ==
    ASSUME IInv, NEW r \in Requests,
           ReadWorkspaces(r) \/ ReadProjects(r) \/ ReadTokens(r)
    PROVE  IInv'
<1>1. PICK kind \in SUBSET Parents, next \in {"projects", "tokens", "insert"} :
        /\ req[r].pc \in {"workspaces", "projects", "tokens"}
        /\ req' = [req EXCEPT ![r] = [req[r] EXCEPT !.pc = next,
                       !.found = @ \cup (Named(r) \cap kind \cap live)]]
        /\ UNCHANGED <<Rest, table, acked>>
  BY DEF ReadWorkspaces, ReadProjects, ReadTokens, LookUp, At, Advance, Parents
<1>2. req[r] \in Pending
  BY <1>1 DEF IInv, TypeOK, Idle
<1>3. TypeOK'
  <2>1. req[r].found \cup (Named(r) \cap kind \cap live) \in SUBSET Parents
    BY <1>1, <1>2 DEF Pending
  <2>2. [req[r] EXCEPT !.pc = next,
              !.found = @ \cup (Named(r) \cap kind \cap live)] \in Pending
    BY <1>1, <1>2, <2>1 DEF Pending
  <2>q. QED  BY <1>1, <2>2 DEF IInv, TypeOK, Rest
<1>4. FoundIsNamed'
  BY <1>1, <1>2 DEF IInv, TypeOK, FoundIsNamed, Named, Pending
<1>5. UNCHANGED <<live, table, acked, export>>  BY <1>1 DEF Rest
<1>q. QED  BY <1>3, <1>4, <1>5, LogUntouched DEF IInv

\* Insert: every row that is new refers to what exists, and whatever the
\* answer confirms has a row.
LEMMA InsertStep ==
    ASSUME IInv, NEW r \in Requests, Insert(r)
    PROVE  IInv'
<1>0. /\ At(r, "insert") /\ req' = [req EXCEPT ![r] = Idle]
      /\ UNCHANGED Rest
  BY DEF Insert, Advance
<1>1. req[r] \in Pending
  BY <1>0 DEF IInv, TypeOK, Idle, At
<1>2. FoundIsNamed'
  BY <1>0 DEF IInv, TypeOK, FoundIsNamed, Named, Idle
<1>3. CASE UNCHANGED <<table, acked>>
  <2>1. TypeOK'
    BY <1>0, <1>3 DEF IInv, TypeOK, Rest
  <2>q. QED  BY <1>0, <1>2, <1>3, <2>1, LogUntouched DEF IInv, Rest
<1>4. CASE /\ Commits(r)
           /\ table' = [e \in Entries |-> IF e \in Fresh(r) THEN NewRow(r, e)
                                          ELSE table[e]]
           /\ acked' = acked \cup Stored(r)
  <2>1. /\ table \in [Entries -> SUBSET Parents]
        /\ req[r].batch \subseteq Entries
        /\ live \subseteq Parents
    BY <1>1 DEF IInv, TypeOK, Pending
  <2>2. \A e \in Fresh(r) : /\ e \in Entries /\ table[e] = {}
                            /\ NewRow(r, e) \subseteq live \cap ({Of[e]} \cup Names[e])
                            /\ Of[e] \in NewRow(r, e)
    BY <1>4, <2>1 DEF Commits, Fresh, Stored, NewRow
  <2>3. \A e \in Entries : /\ table'[e] = IF e \in Fresh(r) THEN NewRow(r, e)
                                          ELSE table[e]
                           /\ table[e] \subseteq table'[e]
    BY <1>4, <2>1, <2>2
  <2>4. TypeOK'
    <3>1. table' \in [Entries -> SUBSET Parents]
      BY <1>4, <2>1, <2>2
    <3>2. acked' \subseteq Entries
      BY <1>4, <2>1 DEF Stored, IInv, TypeOK
    <3>q. QED  BY <1>0, <3>1, <3>2 DEF IInv, TypeOK, Rest
  <2>5. ReferencesExist'
    BY <1>0, <2>2, <2>3 DEF IInv, ReferencesExist, Rest
  <2>6. AckedIsKept'
    <3>1. \A e \in Stored(r) : e \in Entries /\ table'[e] # {}
      BY <2>1, <2>2, <2>3 DEF Stored, Fresh
    <3>2. \A e \in acked : table'[e] # {} \/ Bereft(e)
      BY <2>3 DEF IInv, TypeOK, AckedIsKept
    <3>q. QED  BY <1>0, <1>4, <3>1, <3>2 DEF AckedIsKept, Bereft, Rest
  <2>7. \A c \in Entries \cup {0}, w \in Workspaces :
            Behind(c, w) \subseteq Behind(c, w)'
    BY <2>3 DEF Behind, Visible
  <2>8. CursorSeparates' /\ ExportedOnce' /\ ExportIsComplete'
    BY <1>0, <2>7
    DEF IInv, TypeOK, Exports, NoExport, Rest, CursorSeparates, ExportedOnce,
        ExportIsComplete
  <2>q. QED  BY <1>2, <2>4, <2>5, <2>6, <2>8 DEF IInv
<1>q. QED  BY <1>3, <1>4 DEF Insert

\* Drop: what goes with a parent is what referred to it, and everything else
\* keeps its row.
LEMMA DropStep ==
    ASSUME IInv, NEW x \in Parents, Drop(x)
    PROVE  IInv'
<1>0. /\ live' = live \ Parts[x]
      /\ member' = [u \in Users |-> member[u] \ Parts[x]]
      /\ table' = [e \in Entries |-> IF Cascades(e, x) THEN {}
                                     ELSE table[e] \ Parts[x]]
      /\ export' = [export EXCEPT !.kept = {e \in @ : ~Cascades(e, x)}]
      /\ UNCHANGED <<acked, req>>
  BY DEF Drop
<1>1. /\ table \in [Entries -> SUBSET Parents]
      /\ Of \in [Entries -> Workspaces]
      /\ Names \in [Entries -> SUBSET (Projects \cup Tokens)]
  BY EntriesAssumption DEF IInv, TypeOK
<1>2. TypeOK'
  <2>1. table' \in [Entries -> SUBSET Parents]  BY <1>0, <1>1
  <2>2. export' \in Exports \cup {NoExport}
    <3>1. CASE export = NoExport
      BY <1>0, <3>1 DEF NoExport
    <3>2. CASE export \in Exports
      BY <1>0, <3>2 DEF Exports
    <3>q. QED  BY <3>1, <3>2 DEF IInv, TypeOK
  <2>3. member' \in [Users -> SUBSET Workspaces] /\ live' \subseteq Parents
    BY <1>0 DEF IInv, TypeOK
  <2>q. QED  BY <1>0, <2>1, <2>2, <2>3 DEF IInv, TypeOK
<1>3. \A e \in Entries : ~Cascades(e, x) /\ Of[e] \in table[e] => Of[e] \notin Parts[x]
  BY <1>1 DEF Cascades
<1>4. ReferencesExist'
  BY <1>0, <1>1, <1>3 DEF IInv, ReferencesExist
<1>5. AckedIsKept'
  <2> SUFFICES ASSUME NEW e \in acked, table'[e] = {}
               PROVE  Bereft(e)'
    BY <1>0 DEF AckedIsKept
  <2>0. e \in Entries  BY DEF IInv, TypeOK
  <2>1. CASE Bereft(e)
    BY <1>0, <2>1 DEF Bereft
  <2>2. CASE ~Bereft(e)
    <3>1. table[e] # {} /\ Of[e] \in table[e]
          /\ table[e] \subseteq {Of[e]} \cup Names[e]
      BY <2>0, <2>2 DEF IInv, AckedIsKept, ReferencesExist
    <3>2. Cascades(e, x)
      BY <1>0, <1>3, <2>0, <3>1
    <3>3. PICK y \in table[e] \cap Parts[x] :
             y \in Workspaces \/ (e \notin Forensic /\ y \in Projects)
      BY <3>2 DEF Cascades
    <3>4. CASE y \in Workspaces
      BY <1>0, <1>1, <2>0, <3>1, <3>3, <3>4, ParentsAssumption DEF Bereft
    <3>5. CASE e \notin Forensic /\ y \in Projects
      BY <1>0, <1>1, <2>0, <3>1, <3>3, <3>5, ParentsAssumption DEF Bereft
    <3>q. QED  BY <3>3, <3>4, <3>5
  <2>q. QED  BY <2>1, <2>2
<1>6. FoundIsNamed'  BY <1>0, RequestsUntouched
<1>7. /\ export'.pc = export.pc /\ export'.of = export.of
      /\ export'.cursor = export.cursor /\ export'.lines = export.lines
      /\ export'.out = export.out
      /\ export'.kept = {e \in export.kept : ~Cascades(e, x)}
  BY <1>0 DEF IInv, TypeOK, Exports, NoExport
<1>8. CursorSeparates'
  <2>1. ASSUME export.pc = "page", NEW e \in export'.kept \ export'.out
        PROVE  e \in Behind(export.cursor, export.of)'
    <3>1. e \in Behind(export.cursor, export.of) /\ ~Cascades(e, x)
      BY <1>7, <2>1 DEF IInv, CursorSeparates
    <3>2. export.of \in Workspaces
      BY <2>1 DEF IInv, TypeOK, Exports, NoExport
    <3>3. e \in Visible(export.of)'
      BY <1>0, <3>1, <3>2 DEF Behind, Visible, Cascades
    <3>q. QED  BY <1>7, <3>1, <3>3 DEF Behind
  <2>q. QED  BY <1>7, <2>1 DEF IInv, CursorSeparates
<1>9. ExportedOnce' /\ ExportIsComplete'
  BY <1>7 DEF IInv, ExportedOnce, ExportIsComplete
<1>q. QED  BY <1>2, <1>4, <1>5, <1>6, <1>8, <1>9 DEF IInv

\* Join and Leave concern nobody but later ingests.
LEMMA MemberStep ==
    ASSUME IInv, NEW u \in Users, NEW w \in Workspaces, Join(u, w) \/ Leave(u, w)
    PROVE  IInv'
<1>1. TypeOK'  BY DEF IInv, TypeOK, Join, Leave
<1>2. UNCHANGED <<live, table, acked, req, export>>  BY DEF Join, Leave
<1>q. QED  BY <1>1, <1>2, LogUntouched, RequestsUntouched DEF IInv

\* StartExport: everything is ahead of the cursor.
LEMMA StartExportStep ==
    ASSUME IInv, NEW w \in Workspaces, StartExport(w)
    PROVE  IInv'
<1>1. /\ UNCHANGED <<live, member, table, acked, req>>
      /\ export' = [pc |-> "page", of |-> w, cursor |-> 0, lines |-> 0,
                    out |-> {}, kept |-> Visible(w)]
  BY DEF StartExport, NoExport
<1>2. Visible(w) \subseteq Entries  BY DEF Visible
<1>3. TypeOK'  BY <1>1, <1>2 DEF IInv, TypeOK, Exports
<1>4. ReferencesExist' /\ AckedIsKept'
  BY <1>1 DEF IInv, ReferencesExist, AckedIsKept, Bereft
<1>5. CursorSeparates'
  BY <1>1, PagesAssumption DEF CursorSeparates, Behind, Visible
<1>6. ExportedOnce' /\ ExportIsComplete'
  BY <1>1, FS_EmptySet DEF ExportedOnce, ExportIsComplete
<1>q. QED  BY <1>1, <1>3, <1>4, <1>5, <1>6, RequestsUntouched DEF IInv

-----------------------------------------------------------------------------
\* NextPage: what is written lies behind the cursor and so was not written
\* before, and what is left lies behind the last entry written.
LEMMA NextPageStep ==
    ASSUME IInv, NextPage
    PROVE  IInv'
<1> DEFINE rows == Behind(export.cursor, export.of)
           left == MaxRows - export.lines
           size == Min({PageSize, left, Cardinality(rows)})
<1>0. /\ export.pc = "page" /\ UNCHANGED <<live, member, table, acked, req>>
      /\ export \in Exports
  BY DEF IInv, TypeOK, NextPage, NoExport
<1>1. PICK page \in SUBSET rows, last \in rows \cup {0} :
        /\ last \in page \cup {0}
        /\ Cardinality(page) = size
        /\ \A a \in page, b \in rows \ page : Newer(a, b)
        /\ page # {} => last # 0 /\ \A a \in page \ {last} : Newer(a, last)
        /\ page = {} => last = 0
        /\ export' = [export EXCEPT
              !.lines = @ + size,
              !.out = @ \cup page,
              !.cursor = IF last = 0 THEN @ ELSE last,
              !.pc = IF \/ Cardinality(rows) < PageSize
                        \/ export.lines + size >= MaxRows
                     THEN "done" ELSE "page"]
  BY DEF NextPage
<1>2. /\ rows \subseteq Entries /\ IsFiniteSet(rows) /\ IsFiniteSet(page)
      /\ IsFiniteSet(export.out)
      /\ Cardinality(rows) \in Nat /\ Cardinality(page) \in Nat
  <2>1. rows \subseteq Entries /\ export.out \subseteq Entries
    BY <1>0 DEF Behind, Visible, Exports
  <2>q. QED  BY <2>1, EntriesAssumption, FS_Subset, FS_CardinalityType
<1>3. /\ export.lines \in Nat /\ MaxRows \in Nat /\ PageSize \in Nat /\ PageSize > 0
      /\ left \in Nat /\ left > 0
  BY <1>0, PagesAssumption DEF IInv, CursorSeparates, Exports
<1>4. /\ size \in Nat /\ size \in {PageSize, left, Cardinality(rows)}
      /\ size <= PageSize /\ size <= left /\ size <= Cardinality(rows)
  BY <1>2, <1>3, MinOfThree
<1> HIDE DEF rows, left, size
<1>5. /\ export'.of = export.of /\ export'.kept = export.kept
      /\ export'.lines = export.lines + size
      /\ export'.out = export.out \cup page
      /\ export'.cursor = IF last = 0 THEN export.cursor ELSE last
      /\ export'.pc = IF \/ Cardinality(rows) < PageSize
                         \/ export.lines + size >= MaxRows
                      THEN "done" ELSE "page"
  BY <1>0, <1>1 DEF Exports
<1>6. page = {} => Cardinality(rows) < PageSize
  BY <1>1, <1>2, <1>3, <1>4, FS_EmptySet
<1>7. TypeOK'
  <2>1. export' \in Exports
    <3>1. /\ export.lines + size \in Nat
          /\ export.out \cup page \in SUBSET Entries
          /\ last \in Entries \cup {0}
      BY <1>0, <1>2, <1>3, <1>4 DEF Exports
    <3>2. PICK newPc \in {"page", "done"}, newCursor \in Entries \cup {0} :
            export' = [export EXCEPT !.lines = @ + size, !.out = @ \cup page,
                                     !.cursor = newCursor, !.pc = newPc]
      <4>1. CASE last = 0 BY <1>0, <1>1, <4>1 DEF Exports
      <4>2. CASE last # 0 BY <1>0, <1>1, <3>1, <4>2 DEF Exports
      <4>q. QED  BY <4>1, <4>2
    <3>q. QED  BY <1>0, <3>1, <3>2 DEF Exports
  <2>q. QED  BY <1>0, <2>1 DEF IInv, TypeOK
<1>8. ReferencesExist' /\ AckedIsKept'
  BY <1>0 DEF IInv, ReferencesExist, AckedIsKept, Bereft
<1>9. \A e \in rows : /\ e \in Entries /\ e # 0
                      /\ export.cursor = 0 \/ Newer(export.cursor, e)
  BY <1>2, EntriesAssumption DEF rows, Behind
<1>10. export.out \cap page = {}
  BY <1>1, <1>9 DEF IInv, CursorSeparates
<1>11. ExportedOnce'
  <2>1. Cardinality(export.out \cup page) = Cardinality(export.out) + Cardinality(page)
    <3>1. Cardinality(export.out \cap page) = 0
      BY <1>10, FS_EmptySet
    <3>2. Cardinality(export.out) \in Nat  BY <1>2, FS_CardinalityType
    <3>3. Cardinality(export.out \cup page)
            = Cardinality(export.out) + Cardinality(page) - Cardinality(export.out \cap page)
      BY <1>2, FS_Union
    <3>q. QED  BY <1>2, <3>1, <3>2, <3>3
  <2>q. QED  BY <1>1, <1>5, <2>1 DEF IInv, ExportedOnce
<1>12. \A e \in export'.out : export'.cursor # 0 /\ ~Newer(export'.cursor, e)
  <2> SUFFICES ASSUME NEW e \in export.out \cup page
               PROVE  export'.cursor # 0 /\ ~Newer(export'.cursor, e)
    BY <1>5
  <2>0. e \in Entries
    BY <1>0, <1>1, <1>2 DEF Exports
  <2>1. CASE last = 0
    BY <1>1, <1>5, <2>1 DEF IInv, CursorSeparates
  <2>2. CASE last # 0
    <3>1. last \in page /\ last \in rows /\ last \in Entries
          /\ export'.cursor = last
      BY <1>1, <1>5, <1>9, <2>2
    <3>2. CASE e \in page
      BY <1>1, <2>0, <3>1, <3>2, NewerIsLinear
    <3>3. CASE e \in export.out
      <4>1. export.cursor # 0 /\ ~Newer(export.cursor, e)
        BY <3>3 DEF IInv, CursorSeparates
      <4>2. export.cursor \in Entries /\ Newer(export.cursor, last)
        BY <1>0, <1>9, <3>1, <4>1 DEF Exports
      <4>q. QED  BY <2>0, <2>2, <3>1, <4>1, <4>2, NewerIsLinear
    <3>q. QED  BY <3>2, <3>3
  <2>q. QED  BY <2>1, <2>2
<1>13. export'.pc = "page" =>
          \A e \in export'.kept \ export'.out :
              e \in Behind(export.cursor, export.of)'
  <2> SUFFICES ASSUME export'.pc = "page",
                      NEW e \in export.kept \ (export.out \cup page)
               PROVE  e \in Behind(export.cursor, export.of)'
    BY <1>5
  <2>1. e \in rows \ page
    BY <1>0 DEF IInv, CursorSeparates, rows
  <2>2. last \in page /\ last # 0
    BY <1>1, <1>5, <1>6
  <2>3. Newer(last, e)
    BY <1>1, <2>1, <2>2
  <2>4. e \in Visible(export.of)'
    BY <1>0, <1>5, <2>1 DEF rows, Behind, Visible
  <2>q. QED  BY <1>5, <2>2, <2>3, <2>4 DEF Behind
<1>14. CursorSeparates'
  <2>1. /\ export'.lines <= MaxRows
        /\ export'.pc = "page" => export'.lines < MaxRows
    BY <1>3, <1>4, <1>5 DEF left
  <2>2. /\ export'.cursor = 0 => export'.out = {}
        /\ export'.cursor # 0 => \A e \in export'.out : ~Newer(export'.cursor, e)
    BY <1>12
  <2>q. QED  BY <1>13, <2>1, <2>2 DEF CursorSeparates
<1>15. ExportIsComplete'
  <2> SUFFICES ASSUME export'.pc = "done", export'.lines < MaxRows
               PROVE  export.kept \subseteq export.out \cup page
    BY <1>5 DEF ExportIsComplete
  <2>1. Cardinality(rows) < PageSize /\ size < left
    BY <1>3, <1>4, <1>5 DEF left
  <2>2. Cardinality(page) = Cardinality(rows)
    BY <1>1, <1>2, <1>3, <1>4, <2>1
  <2>3. page = rows
    BY <1>1, <1>2, <2>2, FS_Subset
  <2>q. QED  BY <1>0, <2>3 DEF IInv, CursorSeparates, rows
<1>q. QED
  BY <1>0, <1>7, <1>8, <1>11, <1>14, <1>15, RequestsUntouched DEF IInv

-----------------------------------------------------------------------------
\* Every step keeps the invariant.
LEMMA NextIInv == IInv /\ [Next]_vars => IInv'
<1> SUFFICES ASSUME IInv, [Next]_vars PROVE IInv'  OBVIOUS
<1>1. ASSUME NEW r \in Requests, NEW c \in Callers,
             NEW batch \in SUBSET Entries, Receive(r, c, batch)
      PROVE  IInv'
  BY <1>1, ReceiveStep
<1>2. ASSUME NEW r \in Requests, ReadScope(r) PROVE IInv'
  BY <1>2, ReadScopeStep
<1>3. ASSUME NEW r \in Requests, ReadWorkspaces(r) \/ ReadProjects(r) \/ ReadTokens(r)
      PROVE  IInv'
  BY <1>3, LookUpStep
<1>4. ASSUME NEW r \in Requests, Insert(r) PROVE IInv'
  BY <1>4, InsertStep
<1>5. ASSUME NEW x \in Parents, Drop(x) PROVE IInv'
  BY <1>5, DropStep
<1>6. ASSUME NEW u \in Users, NEW w \in Workspaces, Join(u, w) \/ Leave(u, w)
      PROVE  IInv'
  BY <1>6, MemberStep
<1>7. ASSUME NEW w \in Workspaces, StartExport(w) PROVE IInv'
  BY <1>7, StartExportStep
<1>8. CASE NextPage  BY <1>8, NextPageStep
<1>9. CASE UNCHANGED vars
  <2>1. UNCHANGED <<live, table, acked, export>> /\ UNCHANGED req
    BY <1>9 DEF vars
  <2>2. TypeOK'  BY <1>9 DEF vars, IInv, TypeOK
  <2>q. QED  BY <2>1, <2>2, LogUntouched, RequestsUntouched DEF IInv
<1>q. QED
  BY <1>1, <1>2, <1>3, <1>4, <1>5, <1>6, <1>7, <1>8, <1>9 DEF Next, Ingest

\* The inductive invariant holds in every reachable state, for any number of
\* overlapping ingests (services.py:641-755, 901-997; views.py:417-484).
THEOREM InvariantHolds == Spec => []IInv
<1>1. Init => IInv  BY InitIInv
<1>2. IInv /\ [Next]_vars => IInv'  BY NextIInv
<1>q. QED  BY <1>1, <1>2, PTL DEF Spec

\* Every variable keeps to its type.
THEOREM TypeCorrect == Spec => []TypeOK
<1>1. IInv => TypeOK  BY DEF IInv
<1>q. QED  BY <1>1, InvariantHolds, PTL

\* No row outlives what it refers to, and none is bound to a workspace its
\* emitter did not name (models.py:321-334, 527-540).
THEOREM RowsReferToWhatExists == Spec => []ReferencesExist
<1>1. IInv => ReferencesExist  BY DEF IInv
<1>q. QED  BY <1>1, InvariantHolds, PTL

\* What an ingest has confirmed is not lost (services.py:754-755, 994-997).
THEOREM ConfirmedEntriesAreKept == Spec => []AckedIsKept
<1>1. IInv => AckedIsKept  BY DEF IInv
<1>q. QED  BY <1>1, InvariantHolds, PTL

\* The keyset cursor neither repeats an entry nor skips one that was there
\* all the time (views.py:440-480).
THEOREM ExportsAreExact == Spec => []ExportIsExact
<1>1. IInv => ExportIsExact  BY DEF IInv, ExportIsExact
<1>q. QED  BY <1>1, InvariantHolds, PTL

\* A row appears only by an insert whose ingest had the workspace in its scope
\* (views.py:72-93, 642-654).
THEOREM StoredWithinItsScope == Spec => StoredWithinScope
<1> DEFINE Within == \A e \in Entries : table[e] = {} /\ table'[e] # {}
             => \E r \in Requests : /\ At(r, "insert") /\ req'[r] = Idle
                                    /\ Of[e] \in req[r].granted
<1>1. IInv /\ [Next]_vars => [Within]_vars
  <2> SUFFICES ASSUME IInv, [Next]_vars, NEW e \in Entries,
                      table[e] = {}, table'[e] # {}
               PROVE  \E r \in Requests : /\ At(r, "insert") /\ req'[r] = Idle
                                          /\ Of[e] \in req[r].granted
    OBVIOUS
  <2>1. CASE \E r \in Requests : Insert(r)
    <3>1. PICK r \in Requests : Insert(r)  BY <2>1
    <3>2. At(r, "insert") /\ req'[r] = Idle
      BY <3>1 DEF Insert, Advance, IInv, TypeOK
    <3>3. e \in req[r].batch
      BY <3>1 DEF Insert, Fresh, Stored
    <3>4. Of[e] \in req[r].granted
      BY <3>2, <3>3 DEF IInv, FoundIsNamed, At
    <3>q. QED  BY <3>2, <3>4
  <2>2. CASE \E x \in Parents : Drop(x)
    BY <2>2 DEF Drop
  <2>3. CASE UNCHANGED table
    BY <2>3
  <2>q. QED
    BY <2>1, <2>2, <2>3
    DEF Next, Ingest, Receive, ReadScope, ReadWorkspaces, ReadProjects, ReadTokens,
        LookUp, Join, Leave, StartExport, NextPage, vars
<1>q. QED  BY <1>1, InvariantHolds, PTL DEF Spec, StoredWithinScope
-----------------------------------------------------------------------------
(* Sums over finite sets, by induction on their size.                         *)

\* Every set of natural numbers with an element has a smallest one.
LEMMA Least ==
    ASSUME NEW S \in SUBSET Nat, S # {}
    PROVE  \E x \in S : \A y \in S : x <= y
<1> DEFINE R == OpToRel(<, Nat)
<1>1. IsWellFoundedOn(R, Nat)
  BY NatLessThanWellFounded
<1>2. PICK x \in S : \A y \in S : ~(<<y, x>> \in R)
  <2> HIDE DEF R
  <2> QED BY <1>1, WFMin
<1>3. ASSUME NEW y \in S PROVE x <= y
  <2>1. ~(<<y, x>> \in R)
    BY <1>2
  <2>2. ~(y < x)
    BY <2>1 DEF OpToRel
  <2> QED BY <2>2
<1> QED BY <1>3

\* What MapThenSumSet takes out of a set next.
Taken(s) == CHOOSE x \in s : TRUE

\* g adds the calls of rows up over the members of D.
AddsUp(g, rows, D) ==
    g = [s \in D |-> IF s = {} THEN 0 ELSE rows[Taken(s)].calls + g[s \ {Taken(s)}]]

\* The sum over S, as MapThenSumSet gets it.
SumOf(rows, S) == (CHOOSE g : AddsUp(g, rows, SUBSET S))[S]

\* What is left to add up is smaller.
LEMMA SmallerRest ==
    ASSUME NEW S, IsFiniteSet(S), NEW s \in SUBSET S, s # {}
    PROVE  /\ Taken(s) \in s /\ s \ {Taken(s)} \in SUBSET S
           /\ Cardinality(s) \in Nat
           /\ Cardinality(s \ {Taken(s)}) = Cardinality(s) - 1
<1>1. Taken(s) \in s
  BY DEF Taken
<1>2. IsFiniteSet(s)
  BY FS_Subset
<1> QED BY <1>1, <1>2, FS_RemoveElement, FS_CardinalityType

\* The recursion of a sum is well founded.
LEMMA SumsExist ==
    ASSUME NEW S, IsFiniteSet(S), NEW rows
    PROVE  \E g : AddsUp(g, rows, SUBSET S)
<1> DEFINE D(k) == {s \in SUBSET S : Cardinality(s) < k}
           B == {k \in Nat : ~ \E g : AddsUp(g, rows, D(k))}
<1>1. ASSUME B # {} PROVE FALSE
  <2>1. PICK m \in B : \A k \in B : m <= k
    <3> HIDE DEF B
    <3>1. B \in SUBSET Nat BY DEF B
    <3> QED BY <1>1, <3>1, Least
  <2>2. \A s \in SUBSET S : Cardinality(s) \in Nat
    BY FS_Subset, FS_CardinalityType
  <2>3. CASE m = 0
    <3>1. D(0) = {}
      BY <2>2
    <3>2. AddsUp([s \in {} |-> 0], rows, {})
      BY DEF AddsUp
    <3> QED BY <2>1, <2>3, <3>1, <3>2
  <2>4. CASE m # 0
    <3>1. m - 1 \in Nat /\ m \in Nat /\ ~(m - 1 \in B)
      <4> HIDE DEF B
      <4>1. m \in Nat
        BY DEF B
      <4> QED BY <4>1, <2>1, <2>4
    <3>2. PICK g : AddsUp(g, rows, D(m - 1))
      BY <3>1
    <3> DEFINE h == [s \in D(m) |-> IF s = {} THEN 0
                                    ELSE rows[Taken(s)].calls + g[s \ {Taken(s)}]]
    <3>3. ASSUME NEW s \in D(m), s # {}
          PROVE  s \ {Taken(s)} \in D(m - 1) /\ s \ {Taken(s)} \in D(m)
      <4>1. s \in SUBSET S /\ Cardinality(s) < m
        OBVIOUS
      <4>2. /\ s \ {Taken(s)} \in SUBSET S /\ Cardinality(s) \in Nat
            /\ Cardinality(s \ {Taken(s)}) = Cardinality(s) - 1
        BY <3>3, <4>1, SmallerRest
      <4> QED BY <3>1, <4>1, <4>2
    <3>4. ASSUME NEW t \in D(m - 1) PROVE t \in D(m) /\ h[t] = g[t]
      <4>1. t \in D(m)
        BY <2>2, <3>1
      <4> QED BY <4>1, <3>2 DEF AddsUp
    <3> HIDE DEF D, B
    <3>5. \A s \in D(m) : s # {} => h[s \ {Taken(s)}] = g[s \ {Taken(s)}]
      BY <3>3, <3>4
    <3>6. AddsUp(h, rows, D(m))
      BY <3>5 DEF AddsUp
    <3> HIDE DEF h
    <3> QED BY <2>1, <3>6 DEF B
  <2> QED BY <2>3, <2>4
<1>2. Cardinality(S) \in Nat
  BY FS_CardinalityType
<1>3. D(Cardinality(S) + 1) = SUBSET S
  <2>1. ASSUME NEW s \in SUBSET S
        PROVE  Cardinality(s) \in Nat /\ Cardinality(s) <= Cardinality(S)
    BY FS_Subset, FS_CardinalityType
  <2> QED BY <1>2, <2>1
<1>4. Cardinality(S) + 1 \in Nat
  BY <1>2
<1>5. \E g : AddsUp(g, rows, D(Cardinality(S) + 1))
  <2> HIDE DEF D
  <2> QED BY <1>1, <1>4
<1> QED BY <1>3, <1>5

\* Numbers add up to a number, step by step.
LEMMA SumsAreNatural ==
    ASSUME NEW S, IsFiniteSet(S), NEW rows, \A x \in S : rows[x].calls \in Nat,
           NEW g, AddsUp(g, rows, SUBSET S)
    PROVE  g[S] \in Nat
<1> DEFINE B == {k \in Nat : \E s \in SUBSET S : Cardinality(s) = k /\ ~(g[s] \in Nat)}
<1>1. ASSUME B # {} PROVE FALSE
  <2>1. PICK m \in B : \A k \in B : m <= k
    <3> HIDE DEF B
    <3>1. B \in SUBSET Nat BY DEF B
    <3> QED BY <1>1, <3>1, Least
  <2>2. PICK s \in SUBSET S : Cardinality(s) = m /\ ~(g[s] \in Nat)
    BY <2>1
  <2>3. g[s] = IF s = {} THEN 0 ELSE rows[Taken(s)].calls + g[s \ {Taken(s)}]
    BY DEF AddsUp
  <2>4. s # {}
    BY <2>2, <2>3
  <2>5. /\ Taken(s) \in s /\ s \ {Taken(s)} \in SUBSET S
        /\ m \in Nat /\ Cardinality(s \ {Taken(s)}) = m - 1
    BY <2>2, <2>4, SmallerRest
  <2>6. m - 1 \in Nat
    BY <2>5, FS_CardinalityType, FS_Subset
  <2>7. g[s \ {Taken(s)}] \in Nat
    BY <2>1, <2>5, <2>6
  <2>8. rows[Taken(s)].calls \in Nat
    BY <2>5
  <2> QED BY <2>2, <2>3, <2>4, <2>7, <2>8
<1>2. Cardinality(S) \in Nat
  BY FS_CardinalityType
<1> QED BY <1>1, <1>2

\* The sum of numbers is a number.
LEMMA SumIsNatural ==
    ASSUME NEW S, IsFiniteSet(S), NEW rows, \A x \in S : rows[x].calls \in Nat
    PROVE  SumOf(rows, S) \in Nat
<1>1. PICK h : AddsUp(h, rows, SUBSET S)
  BY SumsExist
<1> DEFINE g == CHOOSE g : AddsUp(g, rows, SUBSET S)
<1>2. AddsUp(g, rows, SUBSET S)
  BY <1>1, Zenon
<1> HIDE DEF g
<1>3. g[S] \in Nat
  BY <1>2, SumsAreNatural
<1>4. SumOf(rows, S) = g[S]
  BY DEF SumOf, g
<1> QED BY <1>3, <1>4

\* A sum depends on the calls of its rows only.
LEMMA SameSums ==
    ASSUME NEW S, IsFiniteSet(S), NEW rows, NEW other,
           \A x \in S : rows[x].calls = other[x].calls
    PROVE  SumOf(rows, S) = SumOf(other, S)
<1>1. ASSUME NEW g PROVE AddsUp(g, rows, SUBSET S) <=> AddsUp(g, other, SUBSET S)
  <2>1. \A s \in SUBSET S : s # {} => Taken(s) \in S
    BY DEF Taken
  <2>2. [s \in SUBSET S |-> IF s = {} THEN 0 ELSE rows[Taken(s)].calls + g[s \ {Taken(s)}]]
        = [s \in SUBSET S |-> IF s = {} THEN 0 ELSE other[Taken(s)].calls + g[s \ {Taken(s)}]]
    BY <2>1
  <2> QED BY <2>2 DEF AddsUp
<1> QED BY <1>1 DEF SumOf

-----------------------------------------------------------------------------
(* Telemetry *)

\* The two halves of the inductive invariant.
UploadsOK == UsageTypeOK /\ HadIsStored /\ HadIsFound /\ FoundIsOf
RunsOK == SettledTotalsAreRight /\ SumsInHand /\ CalmTogether /\ RunsHaveDays

\* The day that a recomputation does next.
LEMMA MinIsIn ==
    ASSUME NEW S \in SUBSET Days, S # {}
    PROVE  Min(S) \in S
<1>1. S \in SUBSET Nat
  BY DaysAssumption DEF Days
<1>2. PICK x \in S : \A y \in S : x <= y
  BY <1>1, Least
<1> QED BY <1>2 DEF Min

\* The greatest of a set of numbers up to a bound, as FindSnapshot takes it.
LEMMA MaxUpTo ==
    ASSUME NEW N \in Nat, NEW S \in SUBSET (0..N), S # {}
    PROVE  Max(S) \in S /\ \A y \in S : Max(S) >= y
<1> DEFINE T == {n \in Nat : \E x \in S : n = N - x}
<1>1. \A x \in S : x \in Nat /\ N - x \in T
  OBVIOUS
<1>2. T \in SUBSET Nat /\ T # {}
  BY <1>1
<1>3. PICK m \in T : \A y \in T : m <= y
  <2> HIDE DEF T
  <2> QED BY <1>2, Least
<1>4. PICK x \in S : m = N - x
  BY <1>3
<1>5. \A y \in S : x >= y
  BY <1>1, <1>3, <1>4
<1> QED BY <1>5 DEF Max

\* The sum of the calls up to a day is one over a finite set.
LEMMA RowsAreFinite ==
    ASSUME NEW rows \in Seq(Snapshot), NEW d
    PROVE  LET S == {n \in DOMAIN rows : rows[n].day <= d} IN
           IsFiniteSet(S) /\ CallsUpTo(rows, d) = SumOf(rows, S)
<1> DEFINE S == {n \in DOMAIN rows : rows[n].day <= d}
<1>1. Len(rows) \in Nat /\ DOMAIN rows = 1..Len(rows)
  OBVIOUS
<1>2. IsFiniteSet(1..Len(rows))
  BY <1>1, FS_Interval
<1>3. S \in SUBSET (1..Len(rows))
  BY <1>1
<1>4. CallsUpTo(rows, d) = SumOf(rows, S)
  BY DEF CallsUpTo, MapThenSumSet, MapThenFoldSet, SumOf, AddsUp, Taken
<1>5. IsFiniteSet(S)
  <2> HIDE DEF S
  <2> QED BY <1>2, <1>3, FS_Subset
<1> QED BY <1>4, <1>5

\* A sum over snapshots is a number.
LEMMA SumOfSnapshots ==
    ASSUME NEW rows \in Seq(Snapshot), NEW d
    PROVE  CallsUpTo(rows, d) \in Nat
<1> DEFINE S == {n \in DOMAIN rows : rows[n].day <= d}
<1>1. ASSUME NEW n \in S PROVE rows[n].calls \in Nat
  <2>1. rows[n] \in Snapshot
    OBVIOUS
  <2> QED BY <2>1 DEF Snapshot
<1>2. IsFiniteSet(S) /\ CallsUpTo(rows, d) = SumOf(rows, S)
  BY RowsAreFinite
<1> HIDE DEF S
<1> QED BY <1>1, <1>2, SumIsNatural

\* Snapshots of later days are not in a sum.
LEMMA LaterSnapshots ==
    ASSUME NEW rows \in Seq(Snapshot), NEW more \in Seq(Snapshot), NEW d,
           {n \in DOMAIN more : more[n].day <= d} = {n \in DOMAIN rows : rows[n].day <= d},
           \A n \in {m \in DOMAIN rows : rows[m].day <= d} : more[n].calls = rows[n].calls
    PROVE  CallsUpTo(more, d) = CallsUpTo(rows, d)
<1> DEFINE S == {n \in DOMAIN rows : rows[n].day <= d}
<1>1. IsFiniteSet(S) /\ CallsUpTo(rows, d) = SumOf(rows, S)
  BY RowsAreFinite
<1>2. CallsUpTo(more, d) = SumOf(more, {n \in DOMAIN more : more[n].day <= d})
  BY RowsAreFinite
<1>3. {n \in DOMAIN more : more[n].day <= d} = S /\ \A n \in S : more[n].calls = rows[n].calls
  OBVIOUS
<1>4. CallsUpTo(more, d) = SumOf(more, S)
  BY <1>2, <1>3
<1> HIDE DEF S
<1>5. SumOf(more, S) = SumOf(rows, S)
  BY <1>1, <1>3, SameSums
<1> QED BY <1>1, <1>4, <1>5

\* Initially nothing is stored and nothing under way.
LEMMA UsageBegins == UsageInit => UsageInv
<1> SUFFICES ASSUME UsageInit PROVE UsageInv
  OBVIOUS
<1>1. <<>> \in Seq(Snapshot) /\ <<>> \in Seq(Entry)
  OBVIOUS
<1>2. NoUpload \in Sending /\ NoRun \in Running
  BY <1>1 DEF NoUpload, NoRun, Sending, Running
<1>3. UsageTypeOK
  BY <1>1, <1>2, DaysAssumption, BoundsAssumption DEF UsageInit, UsageTypeOK, Days, NoUpload
<1>4. HadIsStored /\ HadIsFound /\ FoundIsOf
  BY DEF UsageInit, HadIsStored, HadIsFound, FoundIsOf, NoUpload
<1>5. RunsOK
  BY DEF UsageInit, RunsOK, SettledTotalsAreRight, SumsInHand, CalmTogether, RunsHaveDays, NoRun
<1> QED BY <1>3, <1>4, <1>5 DEF UsageInv, UploadsOK, RunsOK

\* What neither stores a snapshot nor moves an upload.
LEMMA UploadsRest ==
    ASSUME UsageInv, UNCHANGED <<stored, upload, known>>, today' \in Days,
           total' \in [Days -> Nat \cup {None}], run' \in [Runs -> Running],
           failures' \in 0..MaxFailures, settled' \in SUBSET Days
    PROVE  UploadsOK'
<1>1. UsageTypeOK'
  BY DEF UsageInv, UsageTypeOK, Days, None, Snapshot, Entry, Sending
<1>2. HadIsStored' /\ HadIsFound' /\ FoundIsOf'
  BY DEF UsageInv, HadIsStored, HadIsFound, FoundIsOf, IsOf, HasSnapshot
<1> QED BY <1>1, <1>2 DEF UploadsOK

\* What neither stores a snapshot nor moves a recomputation.
LEMMA RunsRest ==
    ASSUME UsageInv, UNCHANGED <<stored, total, run, settled>>
    PROVE  RunsOK'
BY DEF UsageInv, RunsOK, SettledTotalsAreRight, SumsInHand, CalmTogether, RunsHaveDays,
       SumUpTo

\* The first of what is left to store.
LEMMA HeadIsIn ==
    ASSUME NEW S, NEW s \in Seq(S), s # <<>>
    PROVE  Head(s) \in S
OBVIOUS

\* An upload begins knowing only what was known.
LEMMA BeginUploadKeeps ==
    ASSUME UsageInv,
           NEW u \in Uploads, NEW who \in Senders, NEW batch \in Batches,
           BeginUpload(u, who, batch)
    PROVE  UsageInv'
<1> DEFINE x == [pc |-> "find", who |-> who, todo |-> batch, found |-> 0, had |-> known[who]]
<1>1. batch \in Seq(Entry) /\ batch # <<>>
  BY BatchesAssumption
<1>2. known[who] \in SUBSET (Days \X Days)
  BY DEF UsageInv, UsageTypeOK
<1>3. /\ x \in Sending /\ x.pc = "find" /\ x.who = who /\ x.todo = batch
      /\ x.found = 0 /\ x.had = known[who]
  BY <1>1, <1>2 DEF Sending
<1>4. /\ upload' = [upload EXCEPT ![u] = x]
      /\ UNCHANGED <<today, stored, total, run, failures, known, settled>>
  BY DEF BeginUpload
<1> HIDE DEF x
<1>5. UsageTypeOK'
  BY <1>1, <1>3, <1>4 DEF UsageInv, UsageTypeOK, Snapshot, None, Days
<1>6. HadIsStored'
  BY <1>3, <1>4 DEF UsageInv, UsageTypeOK, HadIsStored, HasSnapshot
<1>7. HadIsFound' /\ FoundIsOf'
  BY <1>3, <1>4 DEF UsageInv, UsageTypeOK, HadIsFound, FoundIsOf, IsOf
<1> QED BY <1>4, <1>5, <1>6, <1>7, RunsRest DEF UsageInv, UploadsOK, RunsOK

\* A query finds a snapshot of what was known with one day for both.
LEMMA FindSnapshotKeeps ==
    ASSUME UsageInv, NEW u \in Uploads, FindSnapshot(u)
    PROVE  UsageInv'
<1> DEFINE day  == Head(upload[u].todo).day
           same == {n \in DOMAIN stored : IsOf(n, upload[u].who, day)}
           x    == [upload[u] EXCEPT !.pc = "save", !.found = Max(same \cup {0})]
<1>1. Len(stored) \in Nat /\ DOMAIN stored = 1..Len(stored)
  BY DEF UsageInv, UsageTypeOK
<1>12. Max(same \cup {0}) \in same \cup {0}
  <2>1. same \cup {0} \in SUBSET (0..Len(stored)) /\ same \cup {0} # {}
    BY <1>1
  <2> HIDE DEF same
  <2> QED BY <1>1, <2>1, MaxUpTo
<1>2. /\ Max(same \cup {0}) \in 0..Len(stored)
      /\ same # {} => Max(same \cup {0}) # 0
  <2>1. same \subseteq 1..Len(stored)
    BY <1>1
  <2> HIDE DEF same
  <2>2. same \cup {0} \in SUBSET (0..Len(stored)) /\ same \cup {0} # {}
    BY <1>1, <2>1
  <2>3. /\ Max(same \cup {0}) \in 0..Len(stored)
        /\ \A n \in same : Max(same \cup {0}) >= n
    BY <1>1, <2>2, MaxUpTo
  <2>4. ASSUME NEW n \in same PROVE n \in Nat /\ n >= 1
    BY <1>1, <2>1
  <2>5. ASSUME same # {} PROVE Max(same \cup {0}) # 0
    <3>1. PICK n \in same : TRUE
      BY <2>5
    <3>2. Max(same \cup {0}) >= n /\ n >= 1 /\ n \in Nat
      BY <2>3, <2>4, <3>1
    <3> QED BY <3>2
  <2> QED BY <2>3, <2>5
<1>3. <<day, day>> \in upload[u].had => same # {}
  <2> SUFFICES ASSUME <<day, day>> \in upload[u].had PROVE same # {}
    OBVIOUS
  <2>1. upload[u].who \in Senders /\ <<day, day>> \in known[upload[u].who]
    BY DEF UsageInv, UsageTypeOK, HadIsStored, FindSnapshot
  <2>2. HasSnapshot(upload[u].who, <<day, day>>)
    BY <2>1 DEF UsageInv, HadIsStored
  <2> QED BY <2>2 DEF HasSnapshot, IsOf
<1>4. /\ upload' = [upload EXCEPT ![u] = x]
      /\ UNCHANGED <<today, stored, total, run, failures, known, settled>>
  BY DEF FindSnapshot, UsageInv, UsageTypeOK
<1>5. /\ x \in Sending /\ x.pc = "save" /\ x.who = upload[u].who
      /\ x.todo = upload[u].todo /\ x.found \in 0..Len(stored) /\ x.had = upload[u].had
      /\ x.found = Max(same \cup {0})
  <2>1. upload[u] \in Sending
    BY DEF UsageInv, UsageTypeOK
  <2> DEFINE m == Max(same \cup {0})
  <2>2. m \in Nat /\ m \in 0..Len(stored)
    BY <1>1, <1>2
  <2> HIDE DEF same, m
  <2>3. x = [upload[u] EXCEPT !.pc = "save", !.found = m]
    BY DEF m
  <2> HIDE DEF x
  <2>4. x \in Sending /\ x.pc = "save" /\ x.who = upload[u].who
        /\ x.todo = upload[u].todo /\ x.found = m /\ x.had = upload[u].had
    BY <2>1, <2>2, <2>3 DEF Sending
  <2> QED BY <2>2, <2>4 DEF m
<1>6. upload[u].pc # "idle"
  BY DEF FindSnapshot
<1>11. x.found # 0 => IsOf(x.found, upload[u].who, day)
  BY <1>5, <1>12
<1> HIDE DEF x, same
<1>7. UsageTypeOK'
  BY <1>1, <1>4, <1>5, <1>6 DEF UsageInv, UsageTypeOK, Snapshot, None, Days
<1>8. HadIsStored'
  BY <1>4, <1>5, <1>6 DEF UsageInv, UsageTypeOK, HadIsStored, HasSnapshot
<1>9. HadIsFound'
  BY <1>2, <1>3, <1>4, <1>5 DEF UsageInv, UsageTypeOK, HadIsFound
<1>10. FoundIsOf'
  BY <1>4, <1>5, <1>11 DEF UsageInv, UsageTypeOK, FoundIsOf, IsOf
<1> QED BY <1>4, <1>7, <1>8, <1>9, <1>10, RunsRest DEF UsageInv, UploadsOK, RunsOK

\* A snapshot keeps its sender and its day, and none is ever taken away; sums
\* up to an earlier day than the one that is stored stay as they are.
LEMMA SnapshotsStay ==
    ASSUME UsageInv, NEW u \in Uploads, SaveSnapshot(u)
    PROVE  LET next == Head(upload[u].todo)
               n == upload[u].found
               day == IF n = 0 THEN next.at ELSE stored[n].day
           IN
           /\ stored' \in Seq(Snapshot) /\ Len(stored') >= Len(stored)
           /\ \A m \in DOMAIN stored :
                 /\ m \in DOMAIN stored'
                 /\ stored'[m].who = stored[m].who /\ stored'[m].day = stored[m].day
           /\ n # 0 => Len(stored') = Len(stored)
           /\ upload[u].who \in Senders /\ next \in Entry
           /\ \E m \in DOMAIN stored' : /\ stored'[m].who = upload[u].who
                                       /\ stored'[m].day \in {next.day, next.at}
           /\ \A d \in Days : d < day => CallsUpTo(stored', d) = CallsUpTo(stored, d)
<1> DEFINE next == Head(upload[u].todo)
           who == upload[u].who
           n == upload[u].found
           day == IF n = 0 THEN next.at ELSE stored[n].day
           new == [who |-> who, day |-> day, calls |-> next.calls]
<1>1. stored \in Seq(Snapshot) /\ Len(stored) \in Nat /\ DOMAIN stored = 1..Len(stored)
  BY DEF UsageInv, UsageTypeOK
<1>2. upload[u].pc = "save"
  BY DEF SaveSnapshot
<1>3. /\ who \in Senders /\ upload[u].todo # <<>>
      /\ upload[u].todo \in Seq(Entry)
      /\ n \in Nat /\ n <= Len(stored)
  BY <1>2 DEF UsageInv, UsageTypeOK, Sending
<1>4. next \in Entry /\ next.at \in Days /\ next.calls \in Nat
  BY <1>3, HeadIsIn DEF Entry
<1>5. Days \subseteq Nat
  BY DaysAssumption DEF Days
<1>6. ASSUME NEW m \in DOMAIN stored PROVE stored[m] \in Snapshot /\ stored[m].day \in Days
  <2>1. stored[m] \in Snapshot
    BY <1>1
  <2> QED BY <2>1 DEF Snapshot
<1>7. CASE n = 0
  <2>1. stored' = Append(stored, new) /\ day = next.at
    BY <1>7 DEF SaveSnapshot
  <2>2. new \in Snapshot /\ new.who = who /\ new.day = next.at
    BY <1>3, <1>4, <2>1 DEF Snapshot
  <2> HIDE DEF new, next, who
  <2>3. /\ stored' \in Seq(Snapshot) /\ Len(stored') = Len(stored) + 1
        /\ DOMAIN stored' = 1..(Len(stored) + 1)
        /\ \A m \in DOMAIN stored : stored'[m] = stored[m]
        /\ stored'[Len(stored) + 1] = new
    BY <1>1, <2>1, <2>2
  <2>4. \E m \in DOMAIN stored' : stored'[m].who = who /\ stored'[m].day \in {next.day, next.at}
    <3>1. Len(stored) + 1 \in DOMAIN stored'
      BY <1>1, <2>3
    <3> QED BY <2>2, <2>3, <3>1
  <2>5. ASSUME NEW d \in Days, d < day
        PROVE  CallsUpTo(stored', d) = CallsUpTo(stored, d)
    <3>1. ~(stored'[Len(stored) + 1].day <= d)
      <4>1. stored'[Len(stored) + 1].day = day
        BY <2>1, <2>2, <2>3
      <4>2. day \in Nat /\ d \in Nat
        BY <1>4, <1>5, <2>1
      <4> HIDE DEF day
      <4> QED BY <2>5, <4>1, <4>2
    <3>2. DOMAIN stored' = DOMAIN stored \cup {Len(stored) + 1}
      BY <1>1, <2>3
    <3>3. {m \in DOMAIN stored' : stored'[m].day <= d} = {m \in DOMAIN stored : stored[m].day <= d}
      BY <2>3, <3>1, <3>2
    <3>4. \A m \in {o \in DOMAIN stored : stored[o].day <= d} : stored'[m].calls = stored[m].calls
      BY <2>3
    <3> HIDE DEF n, day
    <3> QED BY <1>1, <2>3, <3>3, <3>4, LaterSnapshots
  <2> QED BY <1>1, <1>3, <1>4, <1>7, <2>3, <2>4, <2>5 DEF next, who
<1>8. CASE n # 0
  <2>1. stored' = [stored EXCEPT ![n].calls = next.calls] /\ day = stored[n].day
    BY <1>8 DEF SaveSnapshot
  <2>2. n \in DOMAIN stored /\ stored[n] \in Snapshot
    BY <1>1, <1>3, <1>8
  <2> DEFINE y == [stored[n] EXCEPT !.calls = next.calls]
  <2>3. y \in Snapshot /\ y.who = stored[n].who /\ y.day = stored[n].day
    BY <1>4, <2>2 DEF Snapshot
  <2>4. stored' = [stored EXCEPT ![n] = y]
    BY <2>1
  <2>5. stored[n].who = who /\ stored[n].day = next.day
    BY <1>2, <1>8 DEF UsageInv, FoundIsOf, IsOf
  <2> HIDE DEF y, next, who
  <2>6. /\ stored' \in Seq(Snapshot) /\ Len(stored') = Len(stored)
        /\ DOMAIN stored' = DOMAIN stored
        /\ \A m \in DOMAIN stored : stored'[m] = IF m = n THEN y ELSE stored[m]
    BY <1>1, <2>2, <2>3, <2>4
  <2>7. \E m \in DOMAIN stored' : stored'[m].who = who /\ stored'[m].day \in {next.day, next.at}
    BY <2>2, <2>3, <2>5, <2>6
  <2>8. ASSUME NEW d \in Days, d < day
        PROVE  CallsUpTo(stored', d) = CallsUpTo(stored, d)
    <3>1. {m \in DOMAIN stored' : stored'[m].day <= d} = {m \in DOMAIN stored : stored[m].day <= d}
      BY <2>3, <2>6
    <3>2. ~(stored[n].day <= d)
      BY <1>5, <1>6, <2>1, <2>2, <2>8
    <3>3. \A m \in {o \in DOMAIN stored : stored[o].day <= d} : stored'[m].calls = stored[m].calls
      BY <2>6, <3>2
    <3> HIDE DEF n, day
    <3> QED BY <1>1, <2>6, <3>1, <3>3, LaterSnapshots
  <2> QED BY <1>3, <1>4, <2>3, <2>6, <2>7, <2>8 DEF next, who
<1> QED BY <1>7, <1>8

\* What an upload is left with once a day is stored.
LEMMA SaveSnapshotKeeps ==
    ASSUME UsageInv, NEW u \in Uploads, SaveSnapshot(u)
    PROVE  UsageInv'
<1> DEFINE next == Head(upload[u].todo)
           rest == Tail(upload[u].todo)
           who == upload[u].who
           day == IF upload[u].found = 0 THEN next.at ELSE stored[upload[u].found].day
           pair == <<next.day, next.at>>
           x == IF rest = <<>> THEN NoUpload
                ELSE [upload[u] EXCEPT !.pc = "find", !.todo = rest]
           y == [c \in Runs |-> IF run[c].pc = "idle" THEN run[c]
                                ELSE [run[c] EXCEPT !.calm = FALSE]]
<1>1. /\ upload' = [upload EXCEPT ![u] = x] /\ UNCHANGED <<today, total, failures>>
      /\ known' = [known EXCEPT ![who] = @ \cup {pair}]
      /\ settled' = {d \in settled : d < day} /\ run' = y /\ upload[u].pc = "save"
  BY DEF SaveSnapshot
<1>2. /\ upload[u] \in Sending /\ who \in Senders
      /\ upload[u].todo # <<>> /\ upload[u].found <= Len(stored)
  BY <1>1 DEF UsageInv, UsageTypeOK
<1>3. rest \in Seq(Entry)
  BY <1>2 DEF Sending
<1>4. /\ x \in Sending /\ x.pc # "save" /\ x.found <= Len(stored)
      /\ x.pc # "idle" => /\ x.who = who /\ x.todo # <<>>
                          /\ x.had = upload[u].had
  <2> HIDE DEF rest
  <2>1. CASE rest = <<>>
    <3>1. 0 <= Len(stored)
      BY DEF UsageInv, UsageTypeOK
    <3>2. <<>> \in Seq(Entry)
      OBVIOUS
    <3> QED BY <2>1, <3>1, <3>2 DEF NoUpload, Sending
  <2>2. CASE rest # <<>>
    BY <1>2, <1>3, <2>2 DEF Sending
  <2> QED BY <2>1, <2>2
<1>5. /\ stored' \in Seq(Snapshot) /\ Len(stored') >= Len(stored)
      /\ \A n \in DOMAIN stored :
            /\ n \in DOMAIN stored'
            /\ stored'[n].who = stored[n].who /\ stored'[n].day = stored[n].day
      /\ next \in Entry
      /\ \E n \in DOMAIN stored' : stored'[n].who = who /\ stored'[n].day \in {next.day, next.at}
      /\ \A d \in Days : d < day => CallsUpTo(stored', d) = CallsUpTo(stored, d)
  BY SnapshotsStay
<1>6. Len(stored) \in Nat /\ Len(stored') \in Nat
  BY <1>5 DEF UsageInv, UsageTypeOK
<1>7. /\ run' \in [Runs -> Running]
      /\ \A c \in Runs : /\ run'[c].pc = run[c].pc /\ run'[c].days = run[c].days
                         /\ run'[c].sum = run[c].sum
                         /\ run'[c].calm = IF run[c].pc = "idle" THEN run[c].calm ELSE FALSE
  <2>1. ASSUME NEW c \in Runs
        PROVE  /\ y[c] \in Running /\ y[c].pc = run[c].pc /\ y[c].days = run[c].days
               /\ y[c].sum = run[c].sum
               /\ y[c].calm = IF run[c].pc = "idle" THEN run[c].calm ELSE FALSE
    BY DEF UsageInv, UsageTypeOK, Running
  <2> HIDE DEF y
  <2>2. y \in [Runs -> Running]
    BY <2>1 DEF y
  <2> QED BY <1>1, <2>1, <2>2
<1>8. /\ known' \in [Senders -> SUBSET (Days \X Days)]
      /\ \A s \in Senders : known'[s] = IF s = who THEN known[s] \cup {pair} ELSE known[s]
  <2>1. pair \in Days \X Days
    BY <1>5 DEF Entry
  <2> HIDE DEF pair
  <2> QED BY <1>1, <1>2, <2>1 DEF UsageInv, UsageTypeOK
<1>9. settled' \in SUBSET Days
  BY <1>1 DEF UsageInv, UsageTypeOK
<1> HIDE DEF x, y, rest, pair, who
<1>10. UsageTypeOK'
  <2>1. upload' \in [Uploads -> Sending]
    BY <1>1, <1>4 DEF UsageInv, UsageTypeOK
  <2>2. ASSUME NEW v \in Uploads
        PROVE  /\ upload'[v].pc # "idle"
                     => upload'[v].who \in Senders /\ upload'[v].todo # <<>>
               /\ upload'[v].found <= Len(stored')
    <3>1. upload[v].found \in Nat /\ x.found \in Nat
      BY <1>4 DEF UsageInv, UsageTypeOK, Sending
    <3> QED BY <1>1, <1>2, <1>4, <1>5, <1>6, <3>1 DEF UsageInv, UsageTypeOK, who
  <2> QED BY <1>1, <1>5, <1>7, <1>8, <1>9, <2>1, <2>2
          DEF UsageInv, UsageTypeOK, Days, None, Snapshot, Entry, Sending
<1>11. HadIsStored'
  <2>1. ASSUME NEW s \in Senders, NEW q \in known'[s] PROVE HasSnapshot(s, q)'
    <3>1. CASE q \in known[s]
      BY <1>5, <3>1 DEF UsageInv, HadIsStored, HasSnapshot
    <3>2. CASE q \notin known[s]
      <4>1. s = who /\ q[1] = next.day /\ q[2] = next.at
        BY <1>8, <3>2 DEF pair
      <4> QED BY <1>5, <4>1 DEF HasSnapshot
    <3> QED BY <3>1, <3>2
  <2>2. ASSUME NEW v \in Uploads, upload'[v].pc # "idle"
        PROVE  upload'[v].had \subseteq known'[upload'[v].who]
    <3>1. /\ upload[v].pc # "idle" /\ upload'[v].had = upload[v].had
          /\ upload'[v].who = upload[v].who
      BY <1>1, <1>4, <2>2 DEF UsageInv, UsageTypeOK, who
    <3>2. upload[v].who \in Senders /\ upload[v].had \subseteq known[upload[v].who]
      BY <3>1 DEF UsageInv, UsageTypeOK, HadIsStored
    <3> QED BY <1>8, <3>1, <3>2
  <2> QED BY <2>1, <2>2 DEF HadIsStored
<1>12. HadIsFound' /\ FoundIsOf'
  <2>1. ASSUME NEW v \in Uploads, upload'[v].pc = "save"
        PROVE  v # u /\ upload'[v] = upload[v]
    BY <1>1, <1>4, <2>1 DEF UsageInv, UsageTypeOK
  <2>2. HadIsFound'
    BY <2>1 DEF UsageInv, HadIsFound
  <2>3. ASSUME NEW v \in Uploads, upload'[v].pc = "save", upload'[v].found # 0
        PROVE  IsOf(upload[v].found, upload[v].who, Head(upload[v].todo).day)'
    <3>1. upload'[v] = upload[v] /\ upload[v].found \in DOMAIN stored
      BY <2>1, <2>3 DEF UsageInv, UsageTypeOK, Sending
    <3> QED BY <1>5, <2>3, <3>1 DEF UsageInv, FoundIsOf, IsOf
  <2> QED BY <2>2, <2>3 DEF FoundIsOf
<1>13. RunsOK'
  <2>1. \A d \in settled' : /\ d \in settled
                           /\ CallsUpTo(stored', d) = CallsUpTo(stored, d)
    BY <1>1, <1>5, <1>9
  <2>2. SettledTotalsAreRight'
    BY <1>1, <2>1 DEF UsageInv, SettledTotalsAreRight, SumUpTo
  <2>3. SumsInHand'
    BY <1>7, <2>1 DEF UsageInv, SumsInHand, SumUpTo
  <2>4. \A c \in Runs :
           /\ run[c].pc # "idle" => run'[c].calm = FALSE
           /\ run[c].pc = "idle" => run'[c].calm = run[c].calm
    BY <1>7
  <2>5. CalmTogether'
    BY <1>7, <2>4 DEF CalmTogether
  <2>6. RunsHaveDays'
    BY <1>7, <2>4 DEF UsageInv, RunsHaveDays
  <2> QED BY <2>2, <2>3, <2>5, <2>6 DEF RunsOK
<1> QED BY <1>10, <1>11, <1>12, <1>13 DEF UsageInv, UploadsOK, RunsOK

\* A recomputation begins, in calm if all others are.
LEMMA StartKeeps ==
    ASSUME UsageInv, NEW c \in Runs, NEW days \in SUBSET Days, days # {}, Start(c, days)
    PROVE  UsageInv'
<1> DEFINE calm == \A o \in Runs : run[o].calm
           x == [pc |-> "sum", days |-> days, sum |-> 0, calm |-> calm]
<1>1. /\ run' = [run EXCEPT ![c] = x] /\ run[c].pc = "idle"
      /\ UNCHANGED <<today, stored, total, upload, failures, known, settled>>
  BY DEF Start
<1>2. x \in Running /\ x.pc = "sum" /\ x.days = days /\ x.calm = calm /\ calm \in BOOLEAN
  BY DEF Running
<1> HIDE DEF x, calm
<1>3. run' \in [Runs -> Running] /\ \A o \in Runs : run'[o] = IF o = c THEN x ELSE run[o]
  BY <1>1, <1>2 DEF UsageInv, UsageTypeOK
<1>4. UploadsOK'
  BY <1>1, <1>3, UploadsRest DEF UsageInv, UsageTypeOK
<1>6. SettledTotalsAreRight'
  BY <1>1 DEF UsageInv, SettledTotalsAreRight, SumUpTo
<1>7. SumsInHand'
  BY <1>1, <1>2, <1>3 DEF UsageInv, SumsInHand, SumUpTo
<1>8. RunsHaveDays'
  BY <1>2, <1>3 DEF UsageInv, RunsHaveDays
<1>9. CalmTogether'
  <2>1. \A o \in Runs : run[o].calm \in BOOLEAN
    BY DEF UsageInv, UsageTypeOK, Running
  <2>2. ASSUME NEW o \in Runs, run[o].pc # "idle" PROVE run[o].calm = calm
    BY <2>1, <2>2 DEF UsageInv, CalmTogether, RunsHaveDays, calm
  <2> QED BY <1>2, <1>3, <2>2 DEF UsageInv, CalmTogether
<1> QED BY <1>4, <1>6, <1>7, <1>8, <1>9 DEF UsageInv, UploadsOK, RunsOK

\* A day is summed up.
LEMMA SumDayKeeps ==
    ASSUME UsageInv, NEW c \in Runs, SumDay(c)
    PROVE  UsageInv'
<1> DEFINE sum == SumUpTo(Min(run[c].days))
           x == [run[c] EXCEPT !.pc = "write", !.sum = sum]
<1>1. /\ run' = [run EXCEPT ![c] = x] /\ run[c].pc = "sum"
      /\ UNCHANGED <<today, stored, total, upload, failures, known, settled>>
  BY DEF SumDay
<1>2. sum \in Nat
  BY SumOfSnapshots DEF UsageInv, UsageTypeOK, SumUpTo
<1> HIDE DEF sum
<1>3. x \in Running /\ x.pc = "write" /\ x.days = run[c].days /\ x.sum = sum
      /\ x.calm = run[c].calm
  BY <1>2 DEF UsageInv, UsageTypeOK, Running
<1> HIDE DEF x
<1>4. run' \in [Runs -> Running] /\ \A o \in Runs : run'[o] = IF o = c THEN x ELSE run[o]
  BY <1>1, <1>3 DEF UsageInv, UsageTypeOK
<1>5. UploadsOK'
  BY <1>1, <1>4, UploadsRest DEF UsageInv, UsageTypeOK
<1>6. SettledTotalsAreRight'
  BY <1>1 DEF UsageInv, SettledTotalsAreRight, SumUpTo
<1>7. SumsInHand'
  BY <1>1, <1>3, <1>4 DEF UsageInv, SumsInHand, SumUpTo, sum
<1>8. CalmTogether' /\ RunsHaveDays'
  BY <1>1, <1>3, <1>4 DEF UsageInv, CalmTogether, RunsHaveDays
<1> QED BY <1>5, <1>6, <1>7, <1>8 DEF UsageInv, UploadsOK, RunsOK

\* A day is written, and is settled if that was in calm.
LEMMA WriteDayKeeps ==
    ASSUME UsageInv, NEW c \in Runs, WriteDay(c)
    PROVE  UsageInv'
<1> DEFINE days == run[c].days
           d == Min(days)
           left == days \ {d}
           x == IF left = {} THEN NoRun
                ELSE [run[c] EXCEPT !.pc = "sum", !.days = left]
<1>1. /\ run' = [run EXCEPT ![c] = x] /\ run[c].pc = "write"
      /\ total' = [total EXCEPT ![d] = run[c].sum]
      /\ settled' = IF run[c].calm THEN settled \cup {d} ELSE settled
      /\ UNCHANGED <<today, stored, upload, failures, known>>
  <2>1. run[c].pc = "write" /\ total' = [total EXCEPT ![d] = run[c].sum] /\ Finish(c, d)
    BY DEF WriteDay
  <2> HIDE DEF d
  <2> QED BY <2>1 DEF Finish
<1>2. run[c] \in Running /\ days \in SUBSET Days /\ days # {}
  BY <1>1 DEF UsageInv, UsageTypeOK, Running, RunsHaveDays
<1>3. d \in days /\ d \in Days
  BY <1>2, MinIsIn
<1> HIDE DEF d
<1>4. /\ x \in Running /\ x.pc # "write"
      /\ x.pc = "idle" => x.calm
      /\ x.pc # "idle" => x.calm = run[c].calm /\ x.days # {}
  <2>1. CASE left = {}
    BY <2>1 DEF NoRun, Running
  <2>2. CASE left # {}
    BY <1>2, <2>2 DEF Running
  <2> QED BY <2>1, <2>2
<1> HIDE DEF x
<1>5. run' \in [Runs -> Running] /\ \A o \in Runs : run'[o] = IF o = c THEN x ELSE run[o]
  BY <1>1, <1>4 DEF UsageInv, UsageTypeOK
<1>6. /\ total' \in [Days -> Nat \cup {None}] /\ settled' \in SUBSET Days
      /\ \A e \in Days : total'[e] = IF e = d THEN run[c].sum ELSE total[e]
  BY <1>1, <1>2, <1>3 DEF UsageInv, UsageTypeOK, Running
<1>7. UploadsOK'
  BY <1>1, <1>5, <1>6, UploadsRest DEF UsageInv, UsageTypeOK
<1>9. d \in settled' => run[c].sum = SumUpTo(d)
  BY <1>1 DEF UsageInv, SumsInHand, d
<1>10. SettledTotalsAreRight'
  <2> SUFFICES ASSUME NEW e \in settled' PROVE total'[e] = SumUpTo(e)
    BY <1>1 DEF SettledTotalsAreRight, SumUpTo
  <2>1. CASE e = d
    BY <1>3, <1>6, <1>9, <2>1
  <2>2. CASE e # d
    <3>1. e \in settled /\ e \in Days
      BY <1>1, <1>6, <2>2
    <3> QED BY <1>6, <2>2, <3>1 DEF UsageInv, SettledTotalsAreRight
  <2> QED BY <2>1, <2>2
<1>11. SumsInHand'
  <2> SUFFICES ASSUME NEW o \in Runs, run'[o].pc = "write",
                      run'[o].calm \/ Min(run'[o].days) \in settled'
               PROVE  run'[o].sum = SumUpTo(Min(run'[o].days))
    BY <1>1 DEF SumsInHand, SumUpTo
  <2>1. o # c /\ run'[o] = run[o]
    BY <1>4, <1>5
  <2>3. run[o].calm \/ Min(run[o].days) \in settled
    <3>1. run[c].calm => run[o].calm
      BY <1>1, <2>1 DEF UsageInv, CalmTogether
    <3> QED BY <1>1, <2>1, <3>1
  <2>4. run[o].sum = SumUpTo(Min(run[o].days))
    BY <2>1, <2>3 DEF UsageInv, SumsInHand
  <2> QED BY <2>1, <2>4
<1>12. CalmTogether' /\ RunsHaveDays'
  BY <1>1, <1>4, <1>5 DEF UsageInv, CalmTogether, RunsHaveDays
<1> QED BY <1>7, <1>10, <1>11, <1>12 DEF UsageInv, UploadsOK, RunsOK

LEMMA BreakOffKeeps ==
    ASSUME UsageInv, NEW c \in Runs, BreakOff(c)
    PROVE  UsageInv'
<1>1. /\ run' = [run EXCEPT ![c] = NoRun] /\ failures' \in 0..MaxFailures
      /\ UNCHANGED <<today, stored, total, upload, known, settled>>
  BY BoundsAssumption DEF BreakOff, UsageInv, UsageTypeOK
<1>2. NoRun \in Running /\ NoRun.pc = "idle" /\ NoRun.calm
  BY DEF NoRun, Running
<1>3. run' \in [Runs -> Running] /\ \A o \in Runs : run'[o] = IF o = c THEN NoRun ELSE run[o]
  BY <1>1, <1>2 DEF UsageInv, UsageTypeOK
<1>4. UploadsOK'
  BY <1>1, <1>3, UploadsRest DEF UsageInv, UsageTypeOK
<1>5. SettledTotalsAreRight'
  BY <1>1 DEF UsageInv, SettledTotalsAreRight, SumUpTo
<1>6. SumsInHand'
  BY <1>1, <1>2, <1>3 DEF UsageInv, SumsInHand, SumUpTo
<1>7. CalmTogether' /\ RunsHaveDays'
  BY <1>2, <1>3 DEF UsageInv, CalmTogether, RunsHaveDays
<1> QED BY <1>4, <1>5, <1>6, <1>7 DEF UsageInv, UploadsOK, RunsOK

\* A recomputation touches neither the snapshots nor the uploads.
LEMMA RunKeeps ==
    ASSUME UsageInv, NEW c \in Runs,
           \/ BeginRun(c) \/ \E d \in Days : BeginRunFor(c, d)
           \/ SumDay(c) \/ WriteDay(c) \/ BreakOff(c)
    PROVE  UsageInv'
<1>1. CASE BeginRun(c)
  <2>1. today \in Days /\ today \in Int /\ Window \in Nat \ {0}
    BY DaysAssumption DEF UsageInv, UsageTypeOK, Days
  <2>2. Covered \in SUBSET Days /\ today \in Covered
    BY <2>1 DEF Covered
  <2> QED BY <1>1, <2>2, StartKeeps DEF BeginRun
<1>2. ASSUME NEW d \in Days, BeginRunFor(c, d) PROVE UsageInv'
  BY <1>2, StartKeeps DEF BeginRunFor
<1> QED BY <1>1, <1>2, SumDayKeeps, WriteDayKeeps, BreakOffKeeps

\* Every step keeps the inductive invariant.
LEMMA UsageStep == UsageInv /\ [UsageNext]_usage => UsageInv'
<1> SUFFICES ASSUME UsageInv, [UsageNext]_usage PROVE UsageInv'
  OBVIOUS
<1>1. CASE UNCHANGED usage
  BY <1>1, UploadsRest, RunsRest DEF usage, UsageInv, UsageTypeOK, UploadsOK, RunsOK
<1>2. CASE Midnight
  <2>1. today' \in Days
    BY <1>2, DaysAssumption DEF Midnight, UsageInv, UsageTypeOK, Days
  <2> QED BY <1>2, <2>1, UploadsRest, RunsRest
         DEF Midnight, UsageInv, UsageTypeOK, UploadsOK, RunsOK
<1> QED
  BY <1>1, <1>2, BeginUploadKeeps, FindSnapshotKeeps, SaveSnapshotKeeps, RunKeeps
  DEF UsageNext

\* What uploads and recomputations remember fits what is stored
\* (process_sync_payload and calculate_metrics).
THEOREM UsageInvariance == UsageSpec => []UsageInv
<1>1. UsageInit => UsageInv
  BY UsageBegins
<1>2. UsageInv /\ [UsageNext]_usage => UsageInv'
  BY UsageStep
<1> QED BY <1>1, <1>2, PTL DEF UsageSpec

\* Every variable keeps its type, and sums are numbers.
THEOREM UsageTyped == UsageSpec => []UsageTypeOK
<1>1. UsageInv => UsageTypeOK
  BY DEF UsageInv
<1> QED BY <1>1, UsageInvariance, PTL

\* The aggregate of a day that was recomputed in calm stays the sum of what is
\* stored up to it (calculate_metrics.py:42-58, 189-235, 318-320).
THEOREM SettledTotalsStay == UsageSpec => []SettledTotalsAreRight
<1>1. UsageInv => SettledTotalsAreRight
  BY DEF UsageInv
<1> QED BY <1>1, UsageInvariance, PTL

\* An entry that is sent again with a timestamp in UTC adds no second snapshot
\* (services.py:195-229).
THEOREM ResendsAddNothing == UsageSpec => ResendAddsNothing
<1> DEFINE Same == \A u \in Uploads :
          LET next == Head(upload[u].todo) IN
          /\ upload[u].pc = "save" /\ upload'[u] # upload[u]
          /\ <<next.day, next.at>> \in upload[u].had /\ next.day = next.at
          => Len(stored') = Len(stored)
<1>1. UsageInv /\ [UsageNext]_usage => [Same]_usage
  <2> SUFFICES ASSUME UsageInv, UsageNext, NEW u \in Uploads,
                      upload[u].pc = "save", upload'[u] # upload[u],
                      LET next == Head(upload[u].todo) IN
                      <<next.day, next.at>> \in upload[u].had /\ next.day = next.at
               PROVE  Len(stored') = Len(stored)
    OBVIOUS
  <2>1. CASE SaveSnapshot(u)
    BY <2>1, SnapshotsStay DEF UsageInv, HadIsFound
  <2>2. ASSUME NEW v \in Uploads, v # u, SaveSnapshot(v) PROVE FALSE
    BY <2>2 DEF SaveSnapshot, UsageInv, UsageTypeOK
  <2>3. CASE \A v \in Uploads : ~SaveSnapshot(v)
    BY <2>3 DEF UsageNext, BeginUpload, FindSnapshot, BeginRun, BeginRunFor, Start,
                SumDay, WriteDay, Finish, BreakOff, Midnight
  <2> QED BY <2>1, <2>2, <2>3
<1> QED BY <1>1, UsageInvariance, PTL DEF UsageSpec, ResendAddsNothing
=============================================================================
