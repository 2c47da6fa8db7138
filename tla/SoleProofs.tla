------------------------------ MODULE SoleProofs ------------------------------
(***************************************************************************)
(* Theorems of MemoryStore about a process that has the database to itself *)
(* (OneProcess: there is no other; SoleOpener: the others have it closed). *)
(* Whatever it does and wherever it crashes, the vector index answers for  *)
(* the memory table; and what an operation read in one statement still     *)
(* holds at the next, so that its statements together do what its          *)
(* documentation says of the whole.                                        *)
(***************************************************************************)
EXTENDS SoleOpener, MemoryStoreProofs

OneProcess == \A p, q \in Procs : p = q

LEMMA NotContended ==
    ASSUME OneProcess
    PROVE  \A p \in Procs : ~Contended(p)
  BY DEF OneProcess, Contended
-----------------------------------------------------------------------------
(* The vector index.                                                         *)

Matches(i) == mem[i].status = "valid" /\ mem[i].emb # None => vec[i] = mem[i].emb

Ghostless(i) == vec[i] # None => Present(i)

(* While the index is rebuilt it is empty, then holds what the rows read so  *)
(* far put there; the rows still to come are as the table has them.          *)
Rebuilding(p) ==
    /\ pc[p] \in {"opening", "created"} => \A i \in Ids : vec[i] = None
    /\ pc[p] \in {"created", "populate"} => vecTable
    /\ pc[p] = "populate" =>
          /\ \A i \in Ids : Ghostless(i) /\ (Matches(i) \/ <<i, mem[i]>> \in todo[p])
          /\ \A r \in todo[p] : r[2] = mem[r[1]]

(* Between the write of a row and its sync, the sync knows what to put right. *)
SyncRight(p) ==
    LET i == arg[p].id
        a == arg[p]
    IN  /\ pc[p] \in {"addSync", "updSync"} => Present(i)
        /\ pc[p] = "addSync" => mem[i].emb = a.emb
        /\ pc[p] = "invSync" => mem[i].emb = None
        /\ pc[p] = "delSync" => ~Present(i)
        /\ pc[p] = "updSync" /\ mem[i].status = "valid" /\ mem[i].emb # None =>
              IF a.clear \/ a.emb # None THEN mem[i].emb = a.emb ELSE vec[i] = mem[i].emb

(* Once it is there, it differs from the table only where a sync is due.     *)
UpToDate(p) ==
    vecOn[p] =>
        /\ vecTable
        /\ pc[p] \notin {"closed", "opening", "created", "populate"}
        /\ \A i \in Ids :
              /\ (pc[p] \in {"addSync", "updSync"} /\ i = arg[p].id) \/ Matches(i)
              /\ (pc[p] = "delSync" /\ i = arg[p].id) \/ Ghostless(i)
        /\ SyncRight(p)

Indexed(p) == Rebuilding(p) /\ UpToDate(p)

-----------------------------------------------------------------------------
LEMMA ShadowWritten ==
    ASSUME NEW p \in Procs, ~Contended(p), NEW v, vecTable, ShadowWrite(p, v)
    PROVE  vec' = v /\ vecTable'
  BY DEF ShadowWrite

(* A process without the index, or with it and no sync due.                  *)
Between == {"idle", "backfill", "import", "updWrite", "invWrite", "delRow"}

LEMMA NothingDue ==
    ASSUME NEW p \in Procs,
           vecOn[p]' => pc[p]' \in Between,
           pc[p]' \notin {"opening", "created", "populate"},
           vecOn[p]' => /\ vecTable'
                        /\ \A i \in Ids : Matches(i)' /\ Ghostless(i)'
    PROVE  Indexed(p)'
  <1>1. Rebuilding(p)'
    BY DEF Rebuilding
  <1>2. UpToDate(p)'
    BY DEF UpToDate, SyncRight, Between
  <1>3. QED
    BY <1>1, <1>2 DEF Indexed

LEMMA AfterReturn ==
    ASSUME ProcsOK, NEW p \in Procs, Return(p)
    PROVE  /\ vecOn' = vecOn
           /\ pc[p]' \in {"idle", "backfill", "import"}
  BY DEF Return, ProcsOK

LEMMA AfterGoto ==
    ASSUME ProcsOK, NEW p \in Procs, NEW label, NEW a, Goto(p, label, a)
    PROVE  vecOn' = vecOn /\ pc[p]' = label /\ arg[p]' = a
  BY DEF Goto, ProcsOK

(* Opening, rebuilding and closing.                                          *)
LEMMA OpenKeepsIndex ==
    ASSUME NEW p \in Procs, ~Contended(p), TypeInv, Indexed(p),
           \/ Open(p) \/ CreateVec(p) \/ InitVecFails(p) \/ ReadEmbeddings(p)
           \/ PopulateRow(p) \/ Close(p) \/ Crash(p)
    PROVE  Indexed(p)'
  <1> USE DEF TypeInv, ProcsOK
  <1>0. Rebuilding(p) /\ UpToDate(p)
    BY DEF Indexed
  <1>1. CASE Open(p)
    <2>1. vec' = [i \in Ids |-> None] /\ ~vecOn[p]' /\ pc[p]' \in {"opening", "idle"}
      BY <1>0, <1>1 DEF Open, DropVec, UpToDate
    <2>2. Rebuilding(p)' /\ UpToDate(p)'
      BY <2>1 DEF Rebuilding, UpToDate
    <2>3. QED
      BY <2>2 DEF Indexed
  <1>2. CASE CreateVec(p)
    <2>1. /\ vec' = vec /\ vecTable' /\ ~vecOn[p]' /\ pc[p]' = "created"
          /\ \A i \in Ids : vec[i] = None
      BY <1>0, <1>2 DEF CreateVec, Rebuilding, UpToDate
    <2>2. Rebuilding(p)' /\ UpToDate(p)'
      BY <2>1 DEF Rebuilding, UpToDate
    <2>3. QED
      BY <2>2 DEF Indexed
  <1>3. CASE InitVecFails(p)
    <2>1. ~vecOn[p]' /\ pc[p]' = "idle"
      BY <1>0, <1>3 DEF InitVecFails, UpToDate
    <2>2. QED
      BY <2>1, NothingDue
  <1>4. CASE ReadEmbeddings(p)
    <2>1. /\ \A i \in Ids : vec[i] = None
          /\ vecTable /\ UNCHANGED <<mem, vec, vecTable>>
      BY <1>0, <1>4 DEF ReadEmbeddings, Rebuilding
    <2>2. /\ todo[p]' = Embedded
          /\ vecOn[p]' = (Embedded = {})
          /\ pc[p]' = IF Embedded = {} THEN "idle" ELSE "populate"
      BY <1>4 DEF ReadEmbeddings, OpenWith
    <2>3. \A i \in Ids : Matches(i) \/ <<i, mem[i]>> \in Embedded
      BY DEF Matches, Embedded, Rows
    <2>4. \A i \in Ids : /\ Ghostless(i)'
                         /\ Matches(i)' \/ <<i, mem'[i]>> \in todo[p]'
      BY <2>1, <2>2, <2>3 DEF Matches, Ghostless
    <2>5. CASE Embedded = {}
      BY <2>1, <2>2, <2>4, <2>5, NothingDue DEF Between
    <2>6. CASE Embedded # {}
      <3>1. \A r \in Embedded : r[2] = mem[r[1]]
        BY DEF Embedded, Rows
      <3>2. Rebuilding(p)'
        BY <2>1, <2>2, <2>4, <2>6, <3>1 DEF Rebuilding
      <3>3. UpToDate(p)'
        BY <2>2, <2>6 DEF UpToDate
      <3>4. QED
        BY <3>2, <3>3 DEF Indexed
    <2>7. QED
      BY <2>5, <2>6
  <1>5. CASE PopulateRow(p)
    <2>1. PICK r \in todo[p] : /\ ShadowWrite(p, [vec EXCEPT ![r[1]] = r[2].emb])
                               /\ OpenWith(p, todo[p] \ {r})
      BY <1>5 DEF PopulateRow
    <2>2. /\ vecTable /\ UNCHANGED mem
          /\ \A i \in Ids : Ghostless(i) /\ (Matches(i) \/ <<i, mem[i]>> \in todo[p])
          /\ \A s \in todo[p] : s[2] = mem[s[1]]
      BY <1>0, <1>5 DEF PopulateRow, Rebuilding
    <2>3. r[1] \in Ids /\ r[2] \in StoredRow /\ r = <<r[1], r[2]>>
      BY <2>1 DEF ProcsOK
    <2>4. vec' = [vec EXCEPT ![r[1]] = r[2].emb] /\ vecTable'
      BY <2>1, <2>2, ShadowWritten
    <2>5. /\ todo[p]' = todo[p] \ {r}
          /\ vecOn[p]' = (todo[p] \ {r} = {})
          /\ pc[p]' = IF todo[p] \ {r} = {} THEN "idle" ELSE "populate"
      BY <2>1 DEF OpenWith
    <2>6. Present(r[1])
      BY <2>1, <2>2, <2>3 DEF Present, StoredRow
    <2>7. \A i \in Ids : Ghostless(i)'
      BY <2>2, <2>3, <2>4, <2>6 DEF Ghostless, Present, TablesOK
    <2>8. ASSUME NEW i \in Ids PROVE Matches(i)' \/ <<i, mem[i]>>' \in todo[p]'
      <3>1. CASE i = r[1]
        BY <2>1, <2>2, <2>3, <2>4, <3>1 DEF Matches, TablesOK
      <3>2. CASE i # r[1]
        <4>1. vec'[i] = vec[i] /\ mem'[i] = mem[i]
          BY <2>2, <2>3, <2>4, <3>2 DEF TablesOK
        <4>2. Matches(i)' = Matches(i)
          BY <4>1 DEF Matches
        <4>3. <<i, mem[i]>> # r
          BY <2>3, <3>2
        <4>4. QED
          BY <2>2, <2>5, <4>1, <4>2, <4>3
      <3>3. QED
        BY <3>1, <3>2
    <2>9. CASE todo[p] \ {r} = {}
      BY <2>4, <2>5, <2>7, <2>8, <2>9, NothingDue DEF Between
    <2>10. CASE todo[p] \ {r} # {}
      <3>1. Rebuilding(p)'
        BY <2>2, <2>4, <2>5, <2>7, <2>8, <2>10 DEF Rebuilding
      <3>2. UpToDate(p)'
        BY <2>5, <2>10 DEF UpToDate
      <3>3. QED
        BY <3>1, <3>2 DEF Indexed
    <2>11. QED
      BY <2>9, <2>10
  <1>6. CASE Close(p) \/ Crash(p)
    <2>1. ~vecOn[p]' /\ pc[p]' = "closed"
      BY <1>6 DEF Close, Crash, Quit
    <2>2. QED
      BY <2>1, NothingDue
  <1>7. QED
    BY <1>1, <1>2, <1>3, <1>4, <1>5, <1>6

(* The statements that write the memory table, but Add and ImportEntry.      *)
LEMMA WritesKeepIndex ==
    ASSUME NEW p \in Procs, ~Contended(p), TypeInv, Indexed(p),
           \/ UpdateWrite(p) \/ InvalidateWrite(p) \/ DeleteRow(p)
           \/ SupersedeBySource(p)
    PROVE  Indexed(p)'
  <1> USE DEF TypeInv
  <1> DEFINE i == arg[p].id
  <1>0. Rebuilding(p) /\ UpToDate(p)
    BY DEF Indexed
  <1>1. UNCHANGED <<vec, vecTable>>
    BY DEF UpdateWrite, InvalidateWrite, DeleteRow, SupersedeBySource
  <1>2. pc[p] \in Between
    BY DEF UpdateWrite, InvalidateWrite, DeleteRow, SupersedeBySource, Start, Between
  <1>3. vecOn[p] => vecTable /\ \A j \in Ids : Matches(j) /\ Ghostless(j)
    BY <1>0, <1>2 DEF UpToDate, Between
  <1>4. CASE SupersedeBySource(p)
    <2>1. /\ pc[p]' = "idle" /\ vecOn' = vecOn
          /\ \A j \in Ids : \/ mem'[j] = mem[j]
                            \/ /\ mem[j].status = "valid"
                               /\ mem'[j] = [mem[j] EXCEPT !.status = "expired"]
      BY <1>4 DEF SupersedeBySource, procVars, Start
    <2>2. ASSUME NEW j \in Ids, mem[j].status = "valid",
                 mem'[j] = [mem[j] EXCEPT !.status = "expired"]
          PROVE  mem'[j].status = "expired"
      <3>1. mem[j] \in StoredRow
        BY <2>2, StoredRowType DEF TablesOK
      <3>2. QED
        BY <2>2, <3>1 DEF StoredRow
    <2>3. vecOn[p] => \A j \in Ids : Matches(j)' /\ Ghostless(j)'
      BY <1>1, <1>3, <2>1, <2>2 DEF Matches, Ghostless, Present
    <2>4. QED
      BY <1>1, <1>3, <2>1, <2>3, NothingDue DEF Between
  <1>5. CASE UpdateWrite(p) /\ Present(i) /\ vecOn[p]
    <2> DEFINE a == arg[p]
               b == [NoArg EXCEPT !.id = i, !.emb = a.emb, !.clear = a.clear]
    <2>1. i \in Ids /\ a \in Arg
      BY <1>5 DEF UpdateWrite, HasId, ProcsOK, NoIdYet
    <2>2. mem' = [mem EXCEPT ![i] = Updated(mem[i], a)] /\ Goto(p, "updSync", b)
      BY <1>5 DEF UpdateWrite
    <2>3. b.id = i /\ b.emb = a.emb /\ b.clear = a.clear
      BY DEF NoArg
    <2>4. pc[p]' = "updSync" /\ vecOn' = vecOn /\ arg[p]' = b
      BY <2>2, AfterGoto
    <2>5. \A j \in Ids \ {i} : mem'[j] = mem[j]
      BY <2>2 DEF TablesOK
    <2>6. mem'[i] = Updated(mem[i], a)
      BY <2>1, <2>2 DEF TablesOK
    <2>7. mem'[i].status # "absent"
      BY <1>5, <2>6 DEF Present, Updated
    <2>8. \A j \in Ids : (j = i \/ Matches(j)') /\ Ghostless(j)'
      BY <1>1, <1>3, <1>5, <2>5, <2>7 DEF Matches, Ghostless, Present
    <2>9. mem'[i].status = "valid" /\ mem'[i].emb # None =>
             IF a.clear \/ a.emb # None THEN mem'[i].emb = a.emb
                                        ELSE vec'[i] = mem'[i].emb
      BY <1>1, <1>3, <1>5, <2>1, <2>6 DEF Updated, Matches
    <2>10. SyncRight(p)'
      BY <2>3, <2>4, <2>7, <2>9 DEF SyncRight, Present
    <2>11. Rebuilding(p)' /\ UpToDate(p)'
      BY <1>1, <1>3, <1>5, <2>3, <2>4, <2>8, <2>10 DEF Rebuilding, UpToDate
    <2>12. QED
      BY <2>11 DEF Indexed
  <1>6. CASE InvalidateWrite(p) /\ Present(i) /\ vecOn[p]
    <2>1. i \in Ids
      BY <1>6 DEF InvalidateWrite, HasId, NoIdYet
    <2>2. /\ mem' = [mem EXCEPT ![i] = [status |-> "expired", content |-> mem[i].content,
                                        emb |-> None, meta |-> arg[p].meta,
                                        fit |-> mem[i].fit]]
          /\ Goto(p, "invSync", [NoArg EXCEPT !.id = i])
      BY <1>6 DEF InvalidateWrite
    <2>3. \A j \in Ids : Matches(j)' /\ Ghostless(j)'
      BY <1>1, <1>3, <1>6, <2>1, <2>2 DEF Matches, Ghostless, Present, TablesOK
    <2>4. /\ pc[p]' = "invSync" /\ vecOn' = vecOn
          /\ arg[p]' = [NoArg EXCEPT !.id = i]
      BY <2>2, AfterGoto
    <2>5. arg[p]'.id = i /\ mem'[i].emb = None
      BY <2>1, <2>2, <2>4 DEF NoArg, TablesOK
    <2>6. Rebuilding(p)' /\ UpToDate(p)'
      BY <1>1, <1>3, <1>6, <2>3, <2>4, <2>5 DEF Rebuilding, UpToDate, SyncRight
    <2>7. QED
      BY <2>6 DEF Indexed
  <1>7. CASE DeleteRow(p) /\ Present(i) /\ vecOn[p]
    <2>1. i \in Ids
      BY <1>7 DEF DeleteRow, HasId, NoIdYet
    <2>2. mem' = [mem EXCEPT ![i] = AbsentRow] /\ Goto(p, "delSync", arg[p])
      BY <1>7 DEF DeleteRow
    <2>3. pc[p]' = "delSync" /\ vecOn' = vecOn /\ arg[p]' = arg[p]
      BY <2>2, AfterGoto
    <2>4. \A j \in Ids : Matches(j)' /\ (j = i \/ Ghostless(j)')
      BY <1>1, <1>3, <1>7, <2>1, <2>2 DEF Matches, Ghostless, Present, TablesOK, AbsentRow
    <2>5. arg[p]'.id = i /\ mem'[i].status = "absent"
      BY <2>1, <2>2, <2>3 DEF TablesOK, AbsentRow
    <2>6. Rebuilding(p)' /\ UpToDate(p)'
      BY <1>1, <1>3, <1>7, <2>3, <2>4, <2>5
         DEF Rebuilding, UpToDate, SyncRight, Present
    <2>7. QED
      BY <2>6 DEF Indexed
  <1>8. CASE /\ UpdateWrite(p) \/ InvalidateWrite(p) \/ DeleteRow(p)
             /\ ~Present(i) \/ ~vecOn[p]
    <2>1. Return(p)
      BY <1>8 DEF UpdateWrite, InvalidateWrite, DeleteRow
    <2>2. vecOn' = vecOn /\ pc[p]' \in {"idle", "backfill", "import"}
      BY <2>1, AfterReturn
    <2>3. vecOn[p] => UNCHANGED mem
      BY <1>8 DEF UpdateWrite, InvalidateWrite, DeleteRow
    <2>4. vecOn[p] => \A j \in Ids : Matches(j)' /\ Ghostless(j)'
      BY <1>1, <1>3, <2>3 DEF Matches, Ghostless, Present
    <2>5. QED
      BY <1>1, <1>3, <2>2, <2>4, NothingDue DEF Between
  <1>9. QED
    BY <1>4, <1>5, <1>6, <1>7, <1>8

(* A new row: Add and the entries of an import.                              *)
LEMMA NewRow ==
    ASSUME NEW p \in Procs, ~Contended(p), TypeInv, Indexed(p), pc[p] \in {"idle", "import"},
           NEW i \in Ids, NEW row \in Row, ~Present(i), row.status # "absent",
           mem' = [mem EXCEPT ![i] = row], UNCHANGED <<vec, vecTable, vecOn>>,
           \/ /\ row.emb # None /\ vecOn[p]
              /\ pc[p]' = "addSync" /\ arg[p]'.id = i /\ arg[p]'.emb = row.emb
           \/ /\ row.emb = None \/ ~vecOn[p]
              /\ pc[p]' \in {"idle", "import"}
    PROVE  Indexed(p)'
  <1> USE DEF TypeInv
  <1>1. vecOn[p] => vecTable /\ \A j \in Ids : Matches(j) /\ Ghostless(j)
    BY DEF Indexed, UpToDate
  <1>2. mem'[i] = row /\ \A j \in Ids \ {i} : mem'[j] = mem[j]
    BY DEF TablesOK
  <1>3. vecOn[p] => \A j \in Ids : /\ j = i \/ Matches(j)'
                                   /\ Ghostless(j)'
    BY <1>1, <1>2 DEF Matches, Ghostless, Present
  <1>4. CASE row.emb # None /\ vecOn[p]
    <2>1. pc[p]' = "addSync" /\ arg[p]'.id = i /\ arg[p]'.emb = row.emb
      BY <1>4
    <2>2. SyncRight(p)'
      BY <1>2, <2>1 DEF SyncRight, Present
    <2>3. Rebuilding(p)' /\ UpToDate(p)'
      BY <1>1, <1>3, <1>4, <2>1, <2>2 DEF Rebuilding, UpToDate
    <2>4. QED
      BY <2>3 DEF Indexed
  <1>5. CASE row.emb = None \/ ~vecOn[p]
    <2>1. vecOn[p] => Matches(i)'
      BY <1>2, <1>5 DEF Matches
    <2>2. QED
      BY <1>1, <1>3, <1>5, <2>1, NothingDue DEF Between
  <1>6. QED
    BY <1>4, <1>5

LEMMA InsertsKeepIndex ==
    ASSUME NEW p \in Procs, ~Contended(p), TypeInv, Indexed(p), Add(p) \/ ImportEntry(p)
    PROVE  Indexed(p)'
  <1> USE DEF TypeInv
  <1>1. CASE Add(p)
    <2>1. PICK i \in Ids, c \in Contents, m \in Metas, s \in {"valid", "expired"},
               f \in BOOLEAN, e \in Contents \cup {None} :
             /\ ~Present(i)
             /\ mem' = [mem EXCEPT ![i] = [status |-> s, content |-> c,
                                           emb |-> e, meta |-> m, fit |-> f]]
             /\ IF e # None /\ vecOn[p]
                  THEN Goto(p, "addSync", [NoArg EXCEPT !.id = i, !.emb = e])
                  ELSE UNCHANGED procVars
      BY <1>1 DEF Add
    <2>2. pc[p] = "idle" /\ UNCHANGED <<vec, vecTable>>
      BY <1>1 DEF Add, Start
    <2> DEFINE row == [status |-> s, content |-> c, emb |-> e, meta |-> m, fit |-> f]
    <2>3. row \in Row /\ row.status # "absent" /\ row.emb = e
      BY RowType
    <2>4. CASE e # None /\ vecOn[p]
      <3>1. Goto(p, "addSync", [NoArg EXCEPT !.id = i, !.emb = e])
        BY <2>1, <2>4
      <3>2. /\ vecOn' = vecOn /\ pc[p]' = "addSync"
            /\ arg[p]' = [NoArg EXCEPT !.id = i, !.emb = e]
        BY <3>1, AfterGoto
      <3>3. arg[p]'.id = i /\ arg[p]'.emb = e
        BY <3>2 DEF NoArg
      <3>4. QED
        BY <2>1, <2>2, <2>3, <2>4, <3>2, <3>3, NewRow
    <2>5. CASE e = None \/ ~vecOn[p]
      <3>1. vecOn' = vecOn /\ pc[p]' = "idle"
        BY <2>1, <2>2, <2>5 DEF procVars
      <3>2. QED
        BY <2>1, <2>2, <2>3, <2>5, <3>1, NewRow
    <2>6. QED
      BY <2>4, <2>5
  <1>2. CASE ImportEntry(p)
    <2>0. ~Contended(p) /\ pc[p] = "import" /\ UNCHANGED <<vec, vecTable, vecOn>>
      BY <1>2 DEF ImportEntry
    <2>1. PICK r \in todo[p], added \in BOOLEAN :
             /\ IF added THEN r[2].fit /\ ~Present(r[1])
                         ELSE ~r[2].fit \/ Present(r[1]) \/ Contended(p)
             /\ mem' = IF added THEN [mem EXCEPT ![r[1]] = [r[2] EXCEPT !.status = "valid"]]
                                ELSE mem
             /\ IF added /\ r[2].emb # None /\ vecOn[p]
                  THEN /\ pc' = [pc EXCEPT ![p] = "addSync"]
                       /\ arg' = [arg EXCEPT ![p] = [NoArg EXCEPT !.id = r[1], !.emb = r[2].emb]]
                  ELSE /\ pc' = [pc EXCEPT ![p] = IF todo[p] = {r} THEN "idle" ELSE @]
                       /\ arg' = arg
      BY <1>2 DEF ImportEntry
    <2> DEFINE row == [r[2] EXCEPT !.status = "valid"]
    <2>2. r[1] \in Ids /\ row \in Row /\ row.status = "valid" /\ r[2] \in StoredRow
      BY <2>1, TodoType
    <2>3. row.emb = r[2].emb
      BY <2>2 DEF StoredRow
    <2>4. CASE ~added
      <3>1. UNCHANGED mem /\ pc[p]' \in {"idle", "import"}
        BY <2>0, <2>1, <2>4 DEF ProcsOK
      <3>2. vecOn[p] => vecTable /\ \A j \in Ids : Matches(j) /\ Ghostless(j)
        BY <2>0 DEF Indexed, UpToDate
      <3>3. vecOn[p] => \A j \in Ids : Matches(j)' /\ Ghostless(j)'
        BY <2>0, <3>1, <3>2 DEF Matches, Ghostless, Present
      <3>4. QED
        BY <2>0, <3>1, <3>2, <3>3, NothingDue DEF Between
    <2>5. CASE added /\ r[2].emb # None /\ vecOn[p]
      <3>1. pc[p]' = "addSync" /\ arg[p]' = [NoArg EXCEPT !.id = r[1], !.emb = r[2].emb]
        BY <2>1, <2>5 DEF ProcsOK
      <3>2. arg[p]'.id = r[1] /\ arg[p]'.emb = row.emb
        BY <2>3, <3>1 DEF NoArg
      <3>3. mem' = [mem EXCEPT ![r[1]] = row] /\ ~Present(r[1])
        BY <2>1, <2>5
      <3>4. QED
        BY <2>0, <2>2, <2>3, <2>5, <3>1, <3>2, <3>3, NewRow
    <2>6. CASE added /\ ~(r[2].emb # None /\ vecOn[p])
      <3>1. pc[p]' \in {"idle", "import"}
        BY <2>0, <2>1, <2>6 DEF ProcsOK
      <3>2. mem' = [mem EXCEPT ![r[1]] = row] /\ ~Present(r[1])
        BY <2>1, <2>6
      <3>3. QED
        BY <2>0, <2>2, <2>3, <2>6, <3>1, <3>2, NewRow
    <2>7. QED
      BY <2>4, <2>5, <2>6
  <1>3. QED
    BY <1>1, <1>2

(* The syncs of the index.                                                   *)
LEMMA SyncsKeepIndex ==
    ASSUME NEW p \in Procs, ~Contended(p), TypeInv, Indexed(p),
           AddSync(p) \/ UpdateSync(p) \/ InvalidateSync(p) \/ DeleteSync(p)
    PROVE  Indexed(p)'
  <1> USE DEF TypeInv
  <1> DEFINE a == arg[p]
             i == arg[p].id
  <1>1. Return(p) /\ UNCHANGED mem
    BY DEF AddSync, UpdateSync, InvalidateSync, DeleteSync
  <1>2. vecOn' = vecOn /\ pc[p]' \in {"idle", "backfill", "import"}
    BY <1>1, AfterReturn
  <1>3. SUFFICES ASSUME vecOn[p]
                 PROVE  vecTable' /\ \A j \in Ids : Matches(j)' /\ Ghostless(j)'
    BY <1>2, NothingDue DEF Between
  <1>4. UpToDate(p) /\ vecTable
    BY <1>3 DEF Indexed, UpToDate
  <1>5. i \in Ids
    BY DEF AddSync, UpdateSync, InvalidateSync, DeleteSync, HasId, NoIdYet
  <1>6. CASE AddSync(p)
    <2>1. vec' = [vec EXCEPT ![i] = a.emb] /\ vecTable'
      BY <1>4, <1>6, ShadowWritten DEF AddSync
    <2>2. pc[p] = "addSync"
      BY <1>6 DEF AddSync
    <2>3. Present(i) /\ mem[i].emb = a.emb
      BY <1>3, <1>4, <2>2 DEF UpToDate, SyncRight
    <2>4. \A j \in Ids : (j = i \/ Matches(j)) /\ Ghostless(j)
      BY <1>3, <1>4, <2>2 DEF UpToDate
    <2>5. QED
      BY <1>1, <1>5, <2>1, <2>3, <2>4 DEF Matches, Ghostless, Present, TablesOK
  <1>7. CASE UpdateSync(p)
    <2>1. /\ vec' = IF a.clear \/ a.emb # None THEN [vec EXCEPT ![i] = a.emb] ELSE vec
          /\ vecTable'
      BY <1>4, <1>7, ShadowWritten DEF UpdateSync
    <2>2. pc[p] = "updSync"
      BY <1>7 DEF UpdateSync
    <2>3. /\ Present(i)
          /\ mem[i].status = "valid" /\ mem[i].emb # None =>
                IF a.clear \/ a.emb # None THEN mem[i].emb = a.emb
                                           ELSE vec[i] = mem[i].emb
      BY <1>3, <1>4, <2>2 DEF UpToDate, SyncRight
    <2>4. \A j \in Ids : (j = i \/ Matches(j)) /\ Ghostless(j)
      BY <1>3, <1>4, <2>2 DEF UpToDate
    <2>5. QED
      BY <1>1, <1>5, <2>1, <2>3, <2>4 DEF Matches, Ghostless, Present, TablesOK
  <1>8. CASE InvalidateSync(p) \/ DeleteSync(p)
    <2>1. vec' = [vec EXCEPT ![i] = None] /\ vecTable'
      BY <1>4, <1>8, ShadowWritten DEF InvalidateSync, DeleteSync
    <2>2. pc[p] \in {"invSync", "delSync"}
      BY <1>8 DEF InvalidateSync, DeleteSync
    <2>3. \A j \in Ids : Matches(j) /\ (j = i \/ Ghostless(j))
      BY <1>3, <1>4, <2>2 DEF UpToDate
    <2>4. mem[i].emb = None \/ ~Present(i)
      BY <1>3, <1>4, <2>2 DEF UpToDate, SyncRight
    <2>5. QED
      BY <1>1, <1>5, <2>1, <2>3, <2>4 DEF Matches, Ghostless, Present, TablesOK
  <1>9. QED
    BY <1>6, <1>7, <1>8

(* The steps that touch neither the memories nor the index.                  *)
LEMMA OthersKeepIndex ==
    ASSUME NEW p \in Procs, ~Contended(p), TypeInv, Indexed(p),
           \/ UpdateCheck(p) \/ InvalidateRead(p) \/ DeleteTargets(p)
           \/ AddRelation(p) \/ BackfillRead(p) \/ BackfillEmbed(p)
           \/ ImportRead(p) \/ Export(p)
    PROVE  Indexed(p)'
  <1> USE DEF TypeInv, ProcsOK
  <1>1. UNCHANGED <<mem, vec, vecTable, vecOn>>
    BY DEF UpdateCheck, InvalidateRead, DeleteTargets, AddRelation, BackfillRead,
       BackfillEmbed, ImportRead, Export, Goto, procVars
  <1>2. pc[p] \in {"idle", "backfill"}
    BY DEF UpdateCheck, InvalidateRead, DeleteTargets, AddRelation, BackfillRead,
       BackfillEmbed, ImportRead, Export, Start
  <1>3. pc[p]' \in Between
    BY <1>2 DEF UpdateCheck, InvalidateRead, DeleteTargets, AddRelation, BackfillRead,
       BackfillEmbed, ImportRead, Export, Goto, procVars, Between
  <1>4. vecOn[p] => vecTable /\ \A j \in Ids : Matches(j) /\ Ghostless(j)
    BY <1>2 DEF Indexed, UpToDate
  <1>5. vecOn[p] => \A j \in Ids : Matches(j)' /\ Ghostless(j)'
    BY <1>1, <1>4 DEF Matches, Ghostless, Present
  <1>6. QED
    BY <1>1, <1>3, <1>4, <1>5, NothingDue DEF Between

LEMMA IndexedNext ==
    ASSUME NEW p \in Procs, ~Contended(p), TypeInv, Indexed(p),
           Continue(p) \/ Begin(p) \/ Export(p)
    PROVE  Indexed(p)'
  <1>1. ~LockedOut(p)
    BY DEF LockedOut
  <1>2. QED
    BY <1>1, OpenKeepsIndex, WritesKeepIndex, InsertsKeepIndex, SyncsKeepIndex,
       OthersKeepIndex DEF Continue, Begin

(* What Indexed says of a process that is between operations.                *)
LEMMA IndexAnswers ==
    ASSUME NEW p \in Procs, Indexed(p), vecOn[p],
           pc[p] \in {"idle", "backfill", "import"}
    PROVE  \A i \in Ids : Matches(i) /\ Ghostless(i)
  BY DEF Indexed, UpToDate

IndexInv == \A p \in Procs : Indexed(p)

LEMMA IndexInvariant ==
    ASSUME OneProcess
    PROVE  Spec => []IndexInv
  <1>1. Init => IndexInv
    BY DEF Init, IndexInv, Indexed, Rebuilding, UpToDate
  <1>2. TypeInv /\ IndexInv /\ [Next]_vars => IndexInv'
    <2> SUFFICES ASSUME TypeInv, IndexInv, [Next]_vars PROVE IndexInv'
      OBVIOUS
    <2>1. CASE UNCHANGED vars
      BY <2>1 DEF vars, IndexInv, Indexed, Rebuilding, UpToDate, SyncRight, Matches,
                  Ghostless, Present
    <2>2. ASSUME NEW p \in Procs, Continue(p) \/ Begin(p) \/ Export(p)
          PROVE  IndexInv'
      <3>1. ~Contended(p)
        BY NotContended
      <3>2. Indexed(p)'
        BY <2>2, <3>1, IndexedNext DEF IndexInv
      <3>3. \A q \in Procs : q = p
        BY DEF OneProcess
      <3>4. QED
        BY <3>2, <3>3 DEF IndexInv
    <2>3. QED
      BY <2>1, <2>2 DEF Next
  <1>3. QED
    BY <1>1, <1>2, TypeInvariant, PTL DEF Spec

(* With one process at a time, the index holds every valid memory under its  *)
(* embedding whenever the process is between operations, over any sequence   *)
(* of opens, operations, imports, backfills and crashes.                     *)
THEOREM IndexAlwaysComplete ==
    ASSUME OneProcess
    PROVE  Spec => []ShadowComplete
  <1>1. IndexInv => ShadowComplete
    BY IndexAnswers DEF IndexInv, Matches, ShadowComplete
  <1>2. QED
    BY <1>1, IndexInvariant, PTL

(* And it then names no memory that was deleted.                             *)
THEOREM IndexNeverGhosts ==
    ASSUME OneProcess
    PROVE  Spec => []NoGhostRow
  <1>1. IndexInv => NoGhostRow
    BY IndexAnswers DEF IndexInv, Ghostless, NoGhostRow
  <1>2. QED
    BY <1>1, IndexInvariant, PTL
-----------------------------------------------------------------------------
(* Any number of processes.                                                  *)

(* The sole opener has the database to itself, and its index in order.       *)
AloneInv ==
    /\ \A p \in Procs : pc[p] = "closed" => ~vecOn[p]
    /\ alone # None => /\ alone \in Procs /\ pc[alone] # "closed"
                       /\ ~Contended(alone) /\ Indexed(alone)

(* A process that has not opened the database can only open it.              *)
LEMMA ClosedOpens ==
    ASSUME TypeInv, NEW p \in Procs, pc[p] = "closed", Continue(p) \/ Begin(p) \/ Export(p)
    PROVE  Open(p)
  BY DEF Continue, Begin, CreateVec, ReadEmbeddings, PopulateRow, AddSync, UpdateWrite,
         UpdateSync, InvalidateWrite, InvalidateSync, DeleteRow, DeleteSync, BackfillEmbed,
         ImportEntry, Close, Crash, InitVecFails, LockedOut, Add, UpdateCheck,
         InvalidateRead, DeleteTargets, AddRelation, SupersedeBySource, BackfillRead,
         ImportRead, Export, Start

(* A step of one process leaves the others where they are.                   *)
LEMMA OthersStay ==
    ASSUME TypeInv, NEW p \in Procs, Continue(p) \/ Begin(p) \/ Export(p)
    PROVE  \A q \in Procs \ {p} : pc'[q] = pc[q] /\ vecOn'[q] = vecOn[q]
  <1> USE DEF TypeInv, ProcsOK
  <1>1. CASE Open(p) \/ CreateVec(p) \/ InitVecFails(p) \/ Close(p) \/ Crash(p)
    BY <1>1 DEF Open, CreateVec, InitVecFails, Close, Crash, Quit
  <1>2. CASE ReadEmbeddings(p) \/ PopulateRow(p)
    BY <1>2 DEF ReadEmbeddings, PopulateRow, OpenWith
  <1>3. CASE \/ Return(p) \/ UNCHANGED procVars
             \/ \E label, a : Goto(p, label, a)
    BY <1>3 DEF Return, Goto, procVars
  <1>4. CASE BackfillRead(p) \/ BackfillEmbed(p) \/ ImportRead(p) \/ ImportEntry(p)
    BY <1>4 DEF BackfillRead, BackfillEmbed, ImportRead, ImportEntry
  <1>5. CASE \/ AddSync(p) \/ UpdateSync(p) \/ InvalidateSync(p) \/ DeleteSync(p)
             \/ LockedOut(p) \/ UpdateWrite(p) \/ InvalidateWrite(p) \/ DeleteRow(p)
    BY <1>3, <1>5 DEF AddSync, UpdateSync, InvalidateSync, DeleteSync, LockedOut,
                      UpdateWrite, InvalidateWrite, DeleteRow
  <1>6. CASE \/ Add(p) \/ UpdateCheck(p) \/ InvalidateRead(p) \/ DeleteTargets(p)
             \/ AddRelation(p) \/ SupersedeBySource(p) \/ Export(p)
    BY <1>3, <1>6 DEF Add, UpdateCheck, InvalidateRead, DeleteTargets, AddRelation,
                      SupersedeBySource, Export
  <1>7. QED
    BY <1>1, <1>2, <1>4, <1>5, <1>6 DEF Continue, Begin

LEMMA NeverCloses ==
    ASSUME TypeInv, NEW p \in Procs, pc[p] # "closed",
           Continue(p) \/ Begin(p) \/ Export(p), ~Close(p), ~Crash(p)
    PROVE  pc'[p] # "closed"
  <1> USE DEF TypeInv, ProcsOK
  <1>1. CASE Open(p) \/ CreateVec(p) \/ InitVecFails(p)
    BY <1>1 DEF Open, CreateVec, InitVecFails
  <1>2. CASE ReadEmbeddings(p) \/ PopulateRow(p)
    BY <1>2 DEF ReadEmbeddings, PopulateRow, OpenWith
  <1>3. CASE \/ Return(p) \/ UNCHANGED procVars
             \/ \E label \in PCs \ {"closed"} : \E a : Goto(p, label, a)
    BY <1>3 DEF Return, Goto, procVars
  <1>4. CASE BackfillRead(p) \/ BackfillEmbed(p) \/ ImportRead(p) \/ ImportEntry(p)
    BY <1>4 DEF BackfillRead, BackfillEmbed, ImportRead, ImportEntry
  <1>5. CASE \/ AddSync(p) \/ UpdateSync(p) \/ InvalidateSync(p) \/ DeleteSync(p)
             \/ LockedOut(p) \/ UpdateWrite(p) \/ InvalidateWrite(p) \/ DeleteRow(p)
    BY <1>3, <1>5 DEF AddSync, UpdateSync, InvalidateSync, DeleteSync, LockedOut,
                      UpdateWrite, InvalidateWrite, DeleteRow, PCs
  <1>6. CASE \/ Add(p) \/ UpdateCheck(p) \/ InvalidateRead(p) \/ DeleteTargets(p)
             \/ AddRelation(p) \/ SupersedeBySource(p) \/ Export(p)
    BY <1>3, <1>6 DEF Add, UpdateCheck, InvalidateRead, DeleteTargets, AddRelation,
                      SupersedeBySource, Export, PCs
  <1>7. QED
    BY <1>1, <1>2, <1>4, <1>5, <1>6 DEF Continue, Begin

(* A process that closes the database forgets its index.                     *)
LEMMA ClosesOff ==
    ASSUME TypeInv, NEW p \in Procs, pc[p] # "closed", pc'[p] = "closed",
           Continue(p) \/ Begin(p) \/ Export(p)
    PROVE  ~vecOn'[p]
  <1>1. CASE Close(p) \/ Crash(p)
    BY <1>1 DEF Close, Crash, Quit, TypeInv, ProcsOK
  <1>2. CASE ~Close(p) /\ ~Crash(p)
    BY <1>2, NeverCloses
  <1>3. QED
    BY <1>1, <1>2

LEMMA AloneInvNext ==
    ASSUME TypeInv, AloneInv, [AloneNext]_<<vars, alone>>
    PROVE  AloneInv'
  <1>1. CASE UNCHANGED <<vars, alone>>
    BY <1>1 DEF vars, AloneInv, Contended, Indexed, Rebuilding, UpToDate, SyncRight, Matches,
                Ghostless, Present
  <1>2. CASE AloneNext
    <2>1. PICK p \in Procs : Continue(p) \/ Begin(p) \/ Export(p)
      BY <1>2 DEF AloneNext, Next
    <2>2. \A q \in Procs \ {p} : pc'[q] = pc[q] /\ vecOn'[q] = vecOn[q]
      BY <2>1, OthersStay
    <2>3. pc[p] = "closed" => Indexed(p)
      BY DEF AloneInv, Indexed, Rebuilding, UpToDate
    <2>4. ASSUME ~Contended(p), Indexed(p)
          PROVE  Indexed(p)' /\ ~Contended(p)'
      <3>1. Indexed(p)'
        BY <2>1, <2>4, IndexedNext
      <3>2. ~Contended(p)'
        BY <2>2, <2>4 DEF Contended
      <3>3. QED
        BY <3>1, <3>2
    <2>5. \A q \in Procs : pc'[q] = "closed" => ~vecOn'[q]
      <3>1. CASE Open(p)
        BY <2>2, <3>1 DEF Open, AloneInv, TypeInv, ProcsOK
      <3>2. CASE ~Open(p)
        <4>1. pc[p] # "closed"
          BY <2>1, <3>2, ClosedOpens
        <4>2. pc'[p] = "closed" => ~vecOn'[p]
          BY <2>1, <4>1, ClosesOff
        <4>3. QED
          BY <2>2, <4>2 DEF AloneInv
      <3>3. QED
        BY <3>1, <3>2
    <2>6. ASSUME alone' # None
          PROVE  /\ alone' \in Procs /\ pc'[alone'] # "closed"
                 /\ ~Contended(alone)' /\ Indexed(alone)'
      <3>1. CASE \E q \in Procs : Opens(q)
        <4> DEFINE o == CHOOSE q \in Procs : Opens(q)
        <4>1. o \in Procs /\ Opens(o)
          BY <3>1
        <4>2. o = p
          BY <2>2, <4>1 DEF Opens
        <4>3. alone' = p /\ ~Contended(p)
          BY <1>2, <2>6, <3>1, <4>2 DEF AloneNext
        <4>4. pc[p] = "closed" /\ pc'[p] # "closed"
          BY <4>1, <4>2 DEF Opens
        <4>5. Indexed(p)' /\ ~Contended(p)'
          BY <2>3, <2>4, <4>3, <4>4
        <4>6. QED
          BY <4>3, <4>4, <4>5 DEF Contended, Indexed, Rebuilding, UpToDate, SyncRight
      <3>2. CASE ~(\E q \in Procs : Opens(q))
        <4>1. alone' = alone /\ alone # None /\ pc'[alone] # "closed"
          BY <1>2, <2>6, <3>2 DEF AloneNext
        <4>2. pc[p] # "closed"
          <5>1. ASSUME pc[p] = "closed" PROVE FALSE
            <6>1. Open(p)
              BY <2>1, <5>1, ClosedOpens
            <6>2. pc'[p] # "closed"
              BY <6>1 DEF Open, TypeInv, ProcsOK
            <6>3. QED
              BY <3>2, <5>1, <6>2 DEF Opens
          <5>2. QED
            BY <5>1
        <4>3. p = alone
          BY <4>1, <4>2 DEF AloneInv, Contended
        <4>4. Indexed(p)' /\ ~Contended(p)'
          BY <2>4, <4>1, <4>3 DEF AloneInv
        <4>5. QED
          BY <4>1, <4>3, <4>4 DEF AloneInv, Contended, Indexed, Rebuilding, UpToDate, SyncRight
      <3>3. QED
        BY <3>1, <3>2
    <2>7. QED
      BY <2>5, <2>6 DEF AloneInv
  <1>3. QED
    BY <1>1, <1>2

(* Whatever state concurrent rebuilds left the shadow table in, the next     *)
(* process that opens the database by itself repairs it: between its         *)
(* operations the index is complete and names no deleted memory.             *)
THEOREM ReopenAlwaysRepairs == AloneSpec => []ReopenRepairs
  <1>1. AloneSpec => []TypeInv
    <2>1. AloneSpec => Spec
      <3>1. AloneInit => Init
        BY DEF AloneInit
      <3>2. [AloneNext]_<<vars, alone>> => [Next]_vars
        BY DEF AloneNext
      <3>3. QED
        BY <3>1, <3>2, PTL DEF AloneSpec, Spec
    <2>2. QED
      BY <2>1, TypeInvariant, PTL
  <1>2. AloneInit => AloneInv
    BY DEF AloneInit, Init, AloneInv
  <1>3. TypeInv /\ AloneInv /\ [AloneNext]_<<vars, alone>> => AloneInv'
    BY AloneInvNext
  <1>4. AloneInv => ReopenRepairs
    BY IndexAnswers DEF AloneInv, ReopenRepairs, Matches, Ghostless
  <1>5. QED
    BY <1>1, <1>2, <1>3, <1>4, PTL DEF AloneSpec
-----------------------------------------------------------------------------
(* The operations.                                                           *)

(* What an operation has read, or done, and relies on when it writes.        *)
ReadsHold(p) ==
    /\ pc[p] = "invWrite" => mem[arg[p].id].meta = arg[p].meta
    /\ pc[p] = "delRow" => \A r \in rel : r[2] # arg[p].id

OperationInv == \A p \in Procs : ReadsHold(p)

(* Only the statements before lead to these two.                             *)
LEMMA OtherSteps ==
    ASSUME ProcsOK, NEW p \in Procs, Continue(p) \/ Begin(p) \/ Export(p),
           ~InvalidateRead(p), ~DeleteTargets(p)
    PROVE  pc[p]' \notin {"invWrite", "delRow"}
  <1>1. CASE Open(p) \/ CreateVec(p) \/ InitVecFails(p) \/ Close(p) \/ Crash(p)
    BY <1>1 DEF Open, CreateVec, InitVecFails, Close, Crash, Quit, ProcsOK
  <1>2. CASE ReadEmbeddings(p) \/ PopulateRow(p)
    BY <1>2 DEF ReadEmbeddings, PopulateRow, OpenWith, ProcsOK
  <1>3. CASE AddSync(p) \/ UpdateSync(p) \/ InvalidateSync(p) \/ DeleteSync(p) \/ LockedOut(p)
    <2>1. Return(p)
      BY <1>3 DEF AddSync, UpdateSync, InvalidateSync, DeleteSync, LockedOut
    <2>2. QED
      BY <2>1, AfterReturn
  <1>4. CASE UpdateWrite(p) \/ InvalidateWrite(p) \/ DeleteRow(p)
    <2>1. \/ Return(p)
          \/ \E a : Goto(p, "updSync", a) \/ Goto(p, "invSync", a) \/ Goto(p, "delSync", a)
      BY <1>4 DEF UpdateWrite, InvalidateWrite, DeleteRow
    <2>2. QED
      BY <2>1, AfterReturn, AfterGoto
  <1>5. CASE Add(p) \/ UpdateCheck(p) \/ AddRelation(p) \/ SupersedeBySource(p) \/ Export(p)
    <2>1. \/ pc[p] = "idle" /\ UNCHANGED procVars
          \/ \E a : Goto(p, "addSync", a) \/ Goto(p, "updWrite", a)
      BY <1>5 DEF Add, UpdateCheck, AddRelation, SupersedeBySource, Export, Start
    <2>2. QED
      BY <2>1, AfterGoto DEF procVars
  <1>6. CASE BackfillRead(p) \/ BackfillEmbed(p) \/ ImportRead(p) \/ ImportEntry(p)
    BY <1>6 DEF BackfillRead, BackfillEmbed, ImportRead, ImportEntry, ProcsOK
  <1>7. QED
    BY <1>1, <1>2, <1>3, <1>4, <1>5, <1>6 DEF Continue, Begin

LEMMA OperationInvNext ==
    ASSUME OneProcess, TypeInv, OperationInv, [Next]_vars
    PROVE  OperationInv'
  <1>1. CASE UNCHANGED vars
    BY <1>1 DEF vars, OperationInv, ReadsHold
  <1>2. ASSUME NEW p \in Procs, Continue(p) \/ Begin(p) \/ Export(p)
        PROVE  ReadsHold(p)'
    <2>1. CASE InvalidateRead(p)
      <3>1. PICK i \in Ids : Goto(p, "invWrite", [NoArg EXCEPT !.id = i, !.meta = mem[i].meta])
        BY <2>1 DEF InvalidateRead
      <3>2. /\ arg[p]' = [NoArg EXCEPT !.id = i, !.meta = mem[i].meta]
            /\ pc[p]' = "invWrite"
        BY <3>1, AfterGoto DEF TypeInv
      <3>3. arg[p]'.id = i /\ arg[p]'.meta = mem[i].meta
        BY <3>2 DEF NoArg
      <3>4. QED
        BY <2>1, <3>2, <3>3 DEF InvalidateRead, ReadsHold
    <2>2. CASE DeleteTargets(p)
      <3>1. PICK i \in Ids : /\ rel' = {r \in rel : r[2] # i}
                             /\ Goto(p, "delRow", [NoArg EXCEPT !.id = i])
        BY <2>2 DEF DeleteTargets
      <3>2. arg[p]' = [NoArg EXCEPT !.id = i] /\ pc[p]' = "delRow"
        BY <3>1, AfterGoto DEF TypeInv
      <3>3. arg[p]'.id = i
        BY <3>2, ArgType
      <3>4. QED
        BY <3>1, <3>2, <3>3 DEF ReadsHold
    <2>3. CASE ~InvalidateRead(p) /\ ~DeleteTargets(p)
      BY <1>2, <2>3, OtherSteps DEF TypeInv, ReadsHold
    <2>4. QED
      BY <2>1, <2>2, <2>3
  <1>3. QED
    BY <1>1, <1>2 DEF Next, OperationInv, OneProcess

LEMMA OperationInvariant ==
    ASSUME OneProcess
    PROVE  Spec => []OperationInv
  <1>1. Init => OperationInv
    BY DEF Init, OperationInv, ReadsHold
  <1>2. TypeInv /\ OperationInv /\ [Next]_vars => OperationInv'
    BY OperationInvNext
  <1>3. QED
    BY <1>1, <1>2, TypeInvariant, PTL DEF Spec

(* With one process at a time, metadata change only where an Update was      *)
(* given some: Invalidate writes back what it read.                          *)
THEOREM MetadataAlwaysKept ==
    ASSUME OneProcess
    PROVE  Spec => MetadataKept
  <1> DEFINE Kept(i) ==
        Present(i) /\ mem'[i].status # "absent" /\ mem'[i].meta # mem[i].meta =>
            \E p \in Procs : pc[p] = "updWrite" /\ arg[p].meta = mem'[i].meta
  <1>1. TypeInv /\ OperationInv /\ [Next]_vars => [\A i \in Ids : Kept(i)]_vars
    <2> SUFFICES ASSUME TypeInv, OperationInv, [Next]_vars, NEW i \in Ids
                 PROVE  Kept(i)
      OBVIOUS
    <2> USE DEF TypeInv
    <2>1. CASE UNCHANGED <<mem, rel>>
      BY <2>1
    <2>2. ASSUME NEW p \in Procs, TableStep(p) PROVE Kept(i)
      <3>1. CASE Add(p) \/ ImportEntry(p)
        <4>1. mem' = mem \/ \E j \in Ids : \E row : ~Present(j) /\ mem' = [mem EXCEPT ![j] = row]
          <5>1. CASE Add(p)
            BY <5>1 DEF Add
          <5>2. CASE ImportEntry(p)
            BY <5>2, TodoType DEF ImportEntry
          <5>3. QED
            BY <3>1, <5>1, <5>2
        <4>2. QED
          BY <4>1 DEF TablesOK
      <3>2. CASE UpdateWrite(p)
        <4>1. pc[p] = "updWrite" /\ arg[p].id \in Ids
          BY <3>2 DEF UpdateWrite, HasId, NoIdYet
        <4>2. \/ mem' = mem
              \/ mem' = [mem EXCEPT ![arg[p].id] = Updated(mem[arg[p].id], arg[p])]
          BY <3>2 DEF UpdateWrite
        <4>3. Updated(mem[i], arg[p]).meta \in {arg[p].meta, mem[i].meta}
          BY DEF Updated
        <4>4. QED
          BY <4>1, <4>2, <4>3 DEF TablesOK
      <3>3. CASE InvalidateWrite(p)
        <4>1. arg[p].id \in Ids /\ mem[arg[p].id].meta = arg[p].meta
          BY <3>3 DEF InvalidateWrite, HasId, NoIdYet, OperationInv, ReadsHold
        <4>2. QED
          BY <3>3, <4>1 DEF InvalidateWrite, TablesOK
      <3>4. CASE DeleteRow(p)
        BY <3>4 DEF DeleteRow, TablesOK, AbsentRow
      <3>5. CASE SupersedeBySource(p)
        <4>1. mem[i].status = "valid" => [mem[i] EXCEPT !.status = "expired"].meta = mem[i].meta
          BY StoredRowType DEF TablesOK, StoredRow
        <4>2. mem'[i] \in {mem[i], [mem[i] EXCEPT !.status = "expired"]}
                /\ (mem[i].status # "valid" => mem'[i] = mem[i])
          BY <3>5 DEF SupersedeBySource
        <4>3. QED
          BY <4>1, <4>2
      <3>6. CASE DeleteTargets(p) \/ AddRelation(p)
        BY <3>6 DEF DeleteTargets, AddRelation
      <3>7. QED
        BY <2>2, <3>1, <3>2, <3>3, <3>4, <3>5, <3>6 DEF TableStep
    <2>3. QED
      BY <2>1, <2>2, TableSteps
  <1>2. QED
    BY <1>1, OperationInvariant, TypeInvariant, PTL DEF Spec, MetadataKept

(* With one process at a time, and foreign keys on, Delete leaves no         *)
(* relation from the memory it removes, nor to it.                           *)
THEOREM DeleteAlwaysCascades ==
    ASSUME OneProcess, FALSE \notin FkFlags
    PROVE  Spec => DeleteCascades
  <1> DEFINE Gone(i) == Present(i) /\ mem'[i].status = "absent" =>
                            \A r \in rel' : i \notin {r[1], r[2]}
  <1>1. TypeInv /\ OperationInv /\ [Next]_vars => [\A i \in Ids : Gone(i)]_vars
    <2> SUFFICES ASSUME TypeInv, OperationInv, [Next]_vars, NEW i \in Ids,
                        Present(i), mem'[i].status = "absent"
                 PROVE  \A r \in rel' : i \notin {r[1], r[2]}
      OBVIOUS
    <2>1. PICK p \in Procs : TableStep(p)
      BY TableSteps DEF Present
    <2>2. DeleteRow(p) /\ i = arg[p].id
      <3>1. ~SupersedeBySource(p)
        <4>1. mem[i].status = "valid" => [mem[i] EXCEPT !.status = "expired"].status = "expired"
          BY StoredRowType DEF TypeInv, TablesOK, StoredRow
        <4>2. QED
          BY <4>1 DEF SupersedeBySource, Present
      <3>2. PICK j \in Ids, row \in Row :
               /\ mem' = [mem EXCEPT ![j] = row]
               /\ \/ ~Present(j)
                  \/ Present(j) /\ row.status \in {mem[j].status, "expired"}
                  \/ Present(j) /\ row = AbsentRow /\ DeleteRow(p) /\ j = arg[p].id
        BY <2>1, <3>1, MemSteps DEF Present
      <3>3. j = i
        BY <3>2 DEF TypeInv, TablesOK, Present
      <3>4. mem'[i] = row
        BY <3>2, <3>3 DEF TypeInv, TablesOK
      <3>5. QED
        BY <3>2, <3>3, <3>4 DEF Present
    <2>3. rel' = {r \in rel : r[1] # i}
      BY <2>2, FkAssumption DEF DeleteRow
    <2>4. \A r \in rel : r[2] # i
      BY <2>2 DEF DeleteRow, OperationInv, ReadsHold
    <2>5. QED
      BY <2>3, <2>4
  <1>2. QED
    BY <1>1, OperationInvariant, TypeInvariant, PTL DEF Spec, DeleteCascades

-----------------------------------------------------------------------------
(* What a loop over rows relies on.  An import has put in the store, or has   *)
(* still to come to, every memory of its file it would take; a backfill finds *)
(* its rows with the content it read, and its Update carries its embedding.  *)
LoopHolds(p) ==
    /\ todo[p] # {} => pc[p] \in {"populate", "import", "addSync",
                                  "backfill", "updWrite", "updSync"}
    /\ pc[p] = "import" \/ (pc[p] = "addSync" /\ todo[p] # {}) =>
          /\ RowsFresh(todo[p])
          /\ \A r \in file : r[2].fit => Present(r[1]) \/ r \in todo[p]
    /\ pc[p] \in {"backfill", "updWrite", "updSync"} =>
          \A r \in todo[p] : r[2].content = mem[r[1]].content
    /\ pc[p] = "updWrite" /\ todo[p] # {} => arg[p].content = None
    /\ WritesFresh(p)

LoopInv == (\A p \in Procs : LoopHolds(p)) /\ EmbeddingFresh /\ RowsFresh(file)

(* No loop is in progress after the step.                                    *)
LEMMA NoLoop ==
    ASSUME NEW p \in Procs, todo[p]' = {}, pc[p]' \notin {"import", "updWrite"}
    PROVE  LoopHolds(p)'
  BY DEF LoopHolds, WritesFresh

LEMMA OutsideLoops ==
    ASSUME ProcsOK, NEW p \in Procs, LoopHolds(p),
           \/ Open(p) \/ CreateVec(p) \/ InitVecFails(p) \/ Close(p) \/ Crash(p)
           \/ Add(p) \/ InvalidateRead(p) \/ InvalidateWrite(p) \/ InvalidateSync(p)
           \/ DeleteTargets(p) \/ DeleteRow(p) \/ DeleteSync(p)
           \/ AddRelation(p) \/ SupersedeBySource(p) \/ Export(p)
    PROVE  LoopHolds(p)'
  <1>1. CASE Close(p) \/ Crash(p)
    <2>1. todo[p]' = {} /\ pc[p]' = "closed"
      BY <1>1 DEF Close, Crash, Quit, ProcsOK
    <2>2. QED
      BY <2>1, NoLoop
  <1>2. CASE Open(p) \/ CreateVec(p) \/ InitVecFails(p)
    <2>1. todo[p]' = {} /\ pc[p]' \in {"opening", "created", "idle"}
      BY <1>2 DEF Open, CreateVec, InitVecFails, LoopHolds, ProcsOK
    <2>2. QED
      BY <2>1, NoLoop
  <1>3. CASE \/ Add(p) \/ InvalidateRead(p) \/ InvalidateWrite(p) \/ InvalidateSync(p)
             \/ DeleteTargets(p) \/ DeleteRow(p) \/ DeleteSync(p)
             \/ AddRelation(p) \/ SupersedeBySource(p) \/ Export(p)
    <2>1. /\ pc[p] \in {"idle", "invWrite", "invSync", "delRow", "delSync"}
          /\ \/ pc[p] = "idle" /\ UNCHANGED procVars
             \/ Return(p)
             \/ \E a : \/ Goto(p, "addSync", a) \/ Goto(p, "invWrite", a)
                        \/ Goto(p, "invSync", a) \/ Goto(p, "delRow", a)
                        \/ Goto(p, "delSync", a)
      BY <1>3 DEF Add, InvalidateRead, InvalidateWrite, InvalidateSync, DeleteTargets,
         DeleteRow, DeleteSync, AddRelation, SupersedeBySource, Export, Start
    <2>2. todo[p] = {} /\ todo' = todo
      BY <2>1 DEF LoopHolds, Return, Goto, procVars
    <2>3. pc[p]' \notin {"import", "updWrite"}
      BY <2>1, <2>2 DEF Return, Goto, procVars, ProcsOK
    <2>4. QED
      BY <2>2, <2>3, NoLoop
  <1>4. QED
    BY <1>1, <1>2, <1>3

LEMMA PopulateLoop ==
    ASSUME ProcsOK, NEW p \in Procs, ReadEmbeddings(p) \/ PopulateRow(p)
    PROVE  LoopHolds(p)'
  <1>1. PICK rows : OpenWith(p, rows)
    BY DEF ReadEmbeddings, PopulateRow
  <1>2. todo[p]' = rows /\ pc[p]' = IF rows = {} THEN "idle" ELSE "populate"
    BY <1>1 DEF OpenWith, ProcsOK
  <1>3. QED
    BY <1>2 DEF LoopHolds, WritesFresh

LEMMA UpdateLoop ==
    ASSUME TypeInv, NEW p \in Procs, LoopHolds(p), EmbeddingFresh,
           UpdateCheck(p) \/ UpdateWrite(p) \/ UpdateSync(p)
    PROVE  LoopHolds(p)'
  <1> USE DEF TypeInv
  <1>1. CASE UpdateCheck(p)
    <2>1. PICK a \in UpdateArgs : Goto(p, "updWrite", a)
      BY <1>1 DEF UpdateCheck
    <2>2. pc[p]' = "updWrite" /\ arg[p]' = a
      BY <2>1, AfterGoto
    <2>3. todo[p]' = {} /\ a.emb \in {None, a.content}
      BY <1>1, <2>1 DEF UpdateCheck, Start, LoopHolds, Goto, UpdateArgs
    <2>4. QED
      BY <2>2, <2>3 DEF LoopHolds, WritesFresh
  <1>2. CASE UpdateWrite(p)
    <2>1. pc[p] = "updWrite" /\ arg[p].id \in Ids
      BY <1>2 DEF UpdateWrite, HasId, NoIdYet
    <2>2. /\ todo' = todo
          /\ pc[p]' = IF Present(arg[p].id) /\ vecOn[p] THEN "updSync"
                      ELSE IF todo[p] = {} THEN "idle" ELSE "backfill"
      BY <1>2, <2>1 DEF UpdateWrite, Goto, Return, ProcsOK
    <2>3. ASSUME NEW r \in todo[p] PROVE r[2].content = mem[r[1]].content'
      <3>1. arg[p].content = None /\ r[2].content = mem[r[1]].content /\ r[1] \in Ids
        BY <2>1, TodoType DEF LoopHolds
      <3>2. Updated(mem[arg[p].id], arg[p]).content = mem[arg[p].id].content
        BY <3>1 DEF Updated
      <3>3. mem'[r[1]].content = mem[r[1]].content
        BY <1>2, <2>1, <3>1, <3>2 DEF UpdateWrite, TablesOK
      <3>4. QED
        BY <3>1, <3>3
    <2>4. QED
      BY <2>2, <2>3 DEF LoopHolds, WritesFresh
  <1>3. CASE UpdateSync(p)
    <2>1. /\ todo' = todo /\ mem' = mem /\ pc[p] = "updSync"
          /\ pc[p]' = IF todo[p] = {} THEN "idle" ELSE "backfill"
      BY <1>3 DEF UpdateSync, Return, ProcsOK
    <2>2. QED
      BY <2>1 DEF LoopHolds, WritesFresh
  <1>4. QED
    BY <1>1, <1>2, <1>3

LEMMA BackfillLoop ==
    ASSUME TypeInv, NEW p \in Procs, LoopHolds(p), BackfillRead(p) \/ BackfillEmbed(p)
    PROVE  LoopHolds(p)'
  <1> USE DEF TypeInv
  <1>1. CASE BackfillRead(p)
    <2>1. /\ pc[p]' = "backfill" /\ mem' = mem
          /\ \A r \in todo[p]' : r[2] = mem[r[1]]
      BY <1>1 DEF BackfillRead, Rows, ProcsOK
    <2>2. QED
      BY <2>1 DEF LoopHolds, WritesFresh
  <1>2. CASE BackfillEmbed(p)
    <2>1. PICK r \in todo[p] :
             /\ todo' = [todo EXCEPT ![p] = @ \ {r}]
             /\ \/ /\ pc' = [pc EXCEPT ![p] = "updWrite"]
                   /\ arg' = [arg EXCEPT ![p] = [NoArg EXCEPT !.id = r[1], !.emb = r[2].content]]
                \/ pc' = [pc EXCEPT ![p] = IF todo[p] = {r} THEN "idle" ELSE @]
      BY <1>2 DEF BackfillEmbed
    <2>2. /\ mem' = mem /\ pc[p] = "backfill"
          /\ todo[p]' = todo[p] \ {r}
          /\ \A s \in todo[p] : s[2].content = mem[s[1]].content
      BY <1>2, <2>1 DEF BackfillEmbed, LoopHolds, ProcsOK
    <2>3. CASE /\ pc' = [pc EXCEPT ![p] = "updWrite"]
               /\ arg' = [arg EXCEPT ![p] = [NoArg EXCEPT !.id = r[1], !.emb = r[2].content]]
      <3>1. /\ pc[p]' = "updWrite"
            /\ arg[p]' = [NoArg EXCEPT !.id = r[1], !.emb = r[2].content]
        BY <2>3 DEF ProcsOK
      <3>2. arg[p]'.content = None /\ arg[p]'.id = r[1] /\ arg[p]'.emb = mem[r[1]].content
        BY <2>2, <3>1 DEF NoArg
      <3>3. QED
        BY <2>2, <3>1, <3>2 DEF LoopHolds, WritesFresh
    <2>4. CASE pc' = [pc EXCEPT ![p] = IF todo[p] = {r} THEN "idle" ELSE @]
      <3>1. pc[p]' = IF todo[p] = {r} THEN "idle" ELSE "backfill"
        BY <2>2, <2>4 DEF ProcsOK
      <3>2. QED
        BY <2>2, <3>1 DEF LoopHolds, WritesFresh
    <2>5. QED
      BY <2>1, <2>3, <2>4
  <1>3. QED
    BY <1>1, <1>2

LEMMA ImportLoop ==
    ASSUME OneProcess, TypeInv, FileOK, NEW p \in Procs, LoopHolds(p), RowsFresh(file),
           UNCHANGED file, ImportRead(p) \/ ImportEntry(p) \/ AddSync(p)
    PROVE  LoopHolds(p)'
  <1> USE DEF TypeInv
  <1>1. CASE ImportRead(p)
    <2>1. todo[p]' = file /\ pc[p]' = "import"
      BY <1>1 DEF ImportRead, ProcsOK
    <2>2. QED
      BY <2>1 DEF LoopHolds, WritesFresh, RowsFresh
  <1>2. CASE AddSync(p)
    <2>1. /\ todo' = todo /\ mem' = mem /\ pc[p] = "addSync"
          /\ pc[p]' = IF todo[p] = {} THEN "idle" ELSE "import"
      BY <1>2 DEF AddSync, Return, ProcsOK
    <2>2. \A i : Present(i)' = Present(i)
      BY <2>1 DEF Present
    <2>3. QED
      BY <2>1, <2>2 DEF LoopHolds, WritesFresh, RowsFresh
  <1>3. CASE ImportEntry(p)
    <2>1. PICK r \in todo[p], added \in BOOLEAN :
             /\ IF added THEN r[2].fit /\ ~Present(r[1])
                         ELSE ~r[2].fit \/ Present(r[1]) \/ Contended(p)
             /\ todo' = [todo EXCEPT ![p] = @ \ {r}]
             /\ mem' = IF added THEN [mem EXCEPT ![r[1]] = [r[2] EXCEPT !.status = "valid"]]
                                ELSE mem
             /\ \/ pc' = [pc EXCEPT ![p] = "addSync"]
                \/ pc' = [pc EXCEPT ![p] = IF todo[p] = {r} THEN "idle" ELSE @]
      BY <1>3 DEF ImportEntry
    <2>2. /\ pc[p] = "import" /\ RowsFresh(todo[p])
          /\ \A s \in file : s[2].fit => Present(s[1]) \/ s \in todo[p]
      BY <1>3 DEF ImportEntry, LoopHolds
    <2>3. /\ todo[p]' = todo[p] \ {r}
          /\ pc[p]' \in {"addSync", IF todo[p] = {r} THEN "idle" ELSE "import"}
      BY <2>1, <2>2 DEF ProcsOK
    <2>4. r[1] \in Ids /\ [r[2] EXCEPT !.status = "valid"].status = "valid"
      BY <2>1, TodoType
    <2>5. \A i \in Ids : Present(i) \/ (i = r[1] /\ r[2].fit) => Present(i)'
      BY <2>1, <2>4, NotContended DEF Present, TablesOK
    <2>6. \A s \in file : s[2].fit => Present(s[1])' \/ s \in todo[p]'
      BY <2>2, <2>3, <2>5 DEF FileOK
    <2>7. RowsFresh(todo[p])'
      BY <2>2, <2>3 DEF RowsFresh
    <2>8. QED
      BY <2>3, <2>6, <2>7 DEF LoopHolds, WritesFresh
  <1>4. QED
    BY <1>1, <1>2, <1>3

LEMMA LoopInvNext ==
    ASSUME OneProcess, TypeInv, FileOK, LoopInv, [Next]_vars
    PROVE  LoopInv'
  <1> USE DEF LoopInv
  <1>1. EmbeddingFresh'
    BY EmbeddingFreshNext DEF LoopHolds
  <1>2. CASE UNCHANGED vars
    BY <1>1, <1>2 DEF vars, LoopHolds, WritesFresh, RowsFresh, Present
  <1>3. ASSUME NEW p \in Procs, \/ (Continue(p) \/ Begin(p)) /\ UNCHANGED file
                                \/ Export(p)
        PROVE  LoopInv'
    <2>1. RowsFresh(file)'
      BY <1>3, RowsAreFresh DEF Export, RowsFresh
    <2>2. ~LockedOut(p)
      BY NotContended DEF LockedOut
    <2>3. LoopHolds(p)'
      BY <1>3, <2>2, OutsideLoops, PopulateLoop, UpdateLoop, BackfillLoop, ImportLoop
         DEF TypeInv, Continue, Begin
    <2>4. QED
      BY <1>1, <2>1, <2>3 DEF OneProcess
  <1>4. QED
    BY <1>2, <1>3 DEF Next

LEMMA LoopInvariant ==
    ASSUME OneProcess
    PROVE  Spec => []LoopInv
  <1>1. Init => LoopInv
    BY DEF Init, LoopInv, LoopHolds, WritesFresh, RowsFresh, EmbeddingFresh, AbsentRow
  <1>2. TypeInv /\ FileOK /\ LoopInv /\ [Next]_vars => LoopInv'
    BY LoopInvNext
  <1>3. QED
    BY <1>1, <1>2, TypeInvariant, PTL DEF Spec

(* One process leaves no memory with the embedding of another content, its   *)
(* backfills included: nobody rewrites a memory while the model embeds it.   *)
THEOREM EmbeddingFreshAlone ==
    ASSUME OneProcess
    PROVE  Spec => []EmbeddingFresh
  <1>1. LoopInv => EmbeddingFresh
    BY DEF LoopInv
  <1>2. QED
    BY <1>1, LoopInvariant, PTL

(* With one process at a time, an import that comes to the end of its file   *)
(* has put back every memory of it that the store had lost and that passes   *)
(* the import's validation, whichever entries failed or were refused on the  *)
(* way.                                                                      *)
THEOREM ImportAlwaysRestores ==
    ASSUME OneProcess
    PROVE  Spec => ImportRestores
  <1> DEFINE Restored(p) == pc[p] = "import" /\ todo'[p] = {} /\ pc'[p] # "closed" =>
                               \A r \in file : r[2].fit => mem'[r[1]].status # "absent"
  <1>1. TypeInv /\ FileOK /\ LoopInv /\ [Next]_vars
           => [\A p \in Procs : Restored(p)]_vars
    <2> SUFFICES ASSUME TypeInv, FileOK, LoopInv, [Next]_vars, ~UNCHANGED vars,
                        NEW p \in Procs, pc[p] = "import", todo'[p] = {},
                        pc'[p] # "closed"
                 PROVE  \A r \in file : r[2].fit => mem'[r[1]].status # "absent"
      OBVIOUS
    <2>1. ImportEntry(p)
      BY DEF Next, OneProcess, Continue, Begin, Export, Open, CreateVec, InitVecFails,
         ReadEmbeddings, PopulateRow, Close, Crash, Quit, ProcsOK, TypeInv, AddSync,
         UpdateWrite, UpdateSync, InvalidateWrite, InvalidateSync, DeleteRow, DeleteSync,
         BackfillEmbed, LockedOut, Add, UpdateCheck, InvalidateRead, DeleteTargets,
         AddRelation, SupersedeBySource, BackfillRead, ImportRead, Start
    <2>2. PICK r \in todo[p], added \in BOOLEAN :
             /\ IF added THEN r[2].fit /\ ~Present(r[1]) ELSE ~r[2].fit \/ Present(r[1])
             /\ todo' = [todo EXCEPT ![p] = @ \ {r}]
             /\ mem' = IF added THEN [mem EXCEPT ![r[1]] = [r[2] EXCEPT !.status = "valid"]]
                                ELSE mem
      BY <2>1, NotContended DEF ImportEntry
    <2>3. r[1] \in Ids /\ [r[2] EXCEPT !.status = "valid"].status = "valid"
      BY <2>2, TodoType DEF TypeInv
    <2>4. todo[p] = {r}
      BY <2>2 DEF TypeInv, ProcsOK
    <2>5. \A s \in file : s[1] \in Ids /\ (s[2].fit => Present(s[1]) \/ s = r)
      BY <2>4 DEF LoopInv, LoopHolds, FileOK
    <2>6. QED
      BY <2>2, <2>3, <2>5 DEF Present, TypeInv, TablesOK
  <1>2. QED
    BY <1>1, LoopInvariant, TypeInvariant, PTL DEF Spec, ImportRestores
=============================================================================
