-------------------------- MODULE MemoryStoreProofs --------------------------
(***************************************************************************)
(* Theorems of MemoryStore, for any sets of ids, contents, metadata values *)
(* and processes.                                                          *)
(***************************************************************************)
EXTENDS MemoryStore, TLAPS

(* The type invariant in two halves, the tables and the processes, and what *)
(* the statements after the first of an operation rely on: they have an id, *)
(* and Invalidate the metadata it read.                                     *)
TablesOK ==
    /\ mem \in [Ids -> Row]
    /\ rel \subseteq Ids \X Ids
    /\ vec \in [Ids -> Contents \cup {None}]
    /\ vecTable \in BOOLEAN

ProcsOK ==
    /\ pc \in [Procs -> PCs]
    /\ arg \in [Procs -> Arg]
    /\ todo \in [Procs -> SUBSET (Ids \X StoredRow)]
    /\ vecOn \in [Procs -> BOOLEAN]

FileOK == file \subseteq Ids \X StoredRow

NoIdYet == {"closed", "opening", "created", "populate", "idle", "backfill", "import"}

HasId == \A p \in Procs :
    /\ pc[p] \notin NoIdYet => arg[p].id \in Ids
    /\ pc[p] = "invWrite" => arg[p].meta \in Metas

TypeInv == TablesOK /\ ProcsOK /\ HasId

LEMMA TypeInvType == TypeInv /\ FileOK <=> TypeOK /\ HasId
  BY DEF TypeInv, TablesOK, ProcsOK, FileOK, TypeOK

LEMMA ArgType ==
    /\ NoArg \in Arg
    /\ \A i \in Ids : /\ [NoArg EXCEPT !.id = i] \in Arg
                     /\ [NoArg EXCEPT !.id = i].id = i
    /\ \A i \in Ids, e \in Contents \cup {None} :
           /\ [NoArg EXCEPT !.id = i, !.emb = e] \in Arg
           /\ [NoArg EXCEPT !.id = i, !.emb = e].id = i
    /\ \A i \in Ids, m \in Metas \cup {None} :
           /\ [NoArg EXCEPT !.id = i, !.meta = m] \in Arg
           /\ [NoArg EXCEPT !.id = i, !.meta = m].id = i
           /\ [NoArg EXCEPT !.id = i, !.meta = m].meta = m
  BY DEF NoArg, Arg

LEMMA RowType ==
    /\ AbsentRow \in Row
    /\ \A s \in {"valid", "expired"}, c \in Contents, e \in Contents \cup {None}, m \in Metas,
          f \in BOOLEAN :
        [status |-> s, content |-> c, emb |-> e, meta |-> m, fit |-> f] \in Row
    /\ \A r \in Row : /\ r.emb \in Contents \cup {None}
                      /\ r.meta \in Metas \cup {None}
                      /\ r.status # "absent" => /\ r.status \in {"valid", "expired"}
                                                /\ r.content \in Contents
                                                /\ r.meta \in Metas
                                                /\ r.fit \in BOOLEAN
                                                /\ [r EXCEPT !.status = "expired"] \in Row
  BY DEF Row, StoredRow, AbsentRow

LEMMA StoredRowType ==
    /\ \A r \in Row : r.status # "absent" => r \in StoredRow
    /\ \A r \in StoredRow : /\ r.content \in Contents
                            /\ r.emb \in Contents \cup {None}
                            /\ [r EXCEPT !.status = "valid"] \in Row
                            /\ [r EXCEPT !.status = "valid"].status = "valid"
  BY DEF Row, StoredRow, AbsentRow

(* The rows a loop works on.                                               *)
LEMMA TodoType ==
    ASSUME ProcsOK, NEW p \in Procs, NEW r \in todo[p]
    PROVE  /\ r[1] \in Ids
           /\ r[2] \in StoredRow
           /\ r[2].content \in Contents
           /\ r[2].emb \in Contents \cup {None}
           /\ [r[2] EXCEPT !.status = "valid"] \in Row
           /\ [r[2] EXCEPT !.status = "valid"].status = "valid"
           /\ todo[p] \in SUBSET (Ids \X StoredRow)
  <1>1. todo[p] \in SUBSET (Ids \X StoredRow)
    BY DEF ProcsOK
  <1>2. r[1] \in Ids /\ r[2] \in StoredRow
    BY <1>1
  <1>3. QED
    BY <1>1, <1>2, StoredRowType

(* What a SELECT over stored memories returns.                             *)
LEMMA RowsType ==
    ASSUME TablesOK, NEW S \in SUBSET Ids, \A i \in S : mem[i].status # "absent"
    PROVE  Rows(S) \in SUBSET (Ids \X StoredRow)
  <1>1. \A i \in S : mem[i] \in StoredRow
    BY StoredRowType DEF TablesOK
  <1>2. QED
    BY <1>1 DEF Rows

(* Returning from an operation, and moving on inside one with an id, keep  *)
(* the process half of the invariant.                                      *)
LEMMA ReturnType ==
    ASSUME ProcsOK, HasId, NEW p \in Procs, Return(p)
    PROVE  ProcsOK' /\ HasId'
  BY ArgType DEF Return, ProcsOK, HasId, NoIdYet, PCs

LEMMA GotoType ==
    ASSUME ProcsOK, HasId, NEW p \in Procs, NEW label \in PCs,
           NEW a \in Arg, a.id \in Ids,
           label = "invWrite" => a.meta \in Metas, Goto(p, label, a)
    PROVE  ProcsOK' /\ HasId'
  BY DEF Goto, ProcsOK, HasId

LEMMA OpenType ==
    ASSUME ProcsOK, HasId, NEW p \in Procs,
           NEW rows \in SUBSET (Ids \X StoredRow), OpenWith(p, rows)
    PROVE  ProcsOK' /\ HasId'
  BY DEF OpenWith, ProcsOK, HasId, NoIdYet, PCs

LEMMA ShadowType ==
    ASSUME TablesOK, NEW p \in Procs, NEW v \in [Ids -> Contents \cup {None}],
           ShadowWrite(p, v), UNCHANGED <<mem, rel>>
    PROVE  TablesOK'
  BY DEF ShadowWrite, TablesOK

LEMMA TypeInvInit == Init => TypeInv
  <1> SUFFICES ASSUME Init PROVE TypeInv
    OBVIOUS
  <1>1. TablesOK
    BY RowType DEF Init, TablesOK
  <1>2. ProcsOK /\ HasId
    BY ArgType DEF Init, ProcsOK, HasId, NoIdYet, PCs
  <1>3. QED
    BY <1>1, <1>2 DEF TypeInv

LEMMA OpenKeepsTypeInv ==
    ASSUME TypeInv, NEW p \in Procs,
           \/ Open(p) \/ CreateVec(p) \/ InitVecFails(p) \/ ReadEmbeddings(p)
           \/ PopulateRow(p) \/ Close(p) \/ Crash(p)
    PROVE  TypeInv'
  <1> USE DEF TypeInv
  <1>1. CASE Open(p) \/ CreateVec(p) \/ InitVecFails(p)
    BY <1>1 DEF Open, DropVec, CreateVec, InitVecFails, TablesOK, ProcsOK, HasId, NoIdYet, PCs
  <1>2. CASE ReadEmbeddings(p)
    <2>1. Embedded \in SUBSET (Ids \X StoredRow)
      BY RowsType DEF Embedded
    <2>2. TablesOK'
      BY <1>2 DEF ReadEmbeddings, TablesOK
    <2>3. QED
      BY <1>2, <2>1, <2>2, OpenType DEF ReadEmbeddings
  <1>3. CASE PopulateRow(p)
    <2>1. PICK r \in todo[p] : /\ ShadowWrite(p, [vec EXCEPT ![r[1]] = r[2].emb])
                               /\ OpenWith(p, todo[p] \ {r})
      BY <1>3 DEF PopulateRow
    <2>2. /\ r[1] \in Ids /\ r[2].emb \in Contents \cup {None}
          /\ todo[p] \in SUBSET (Ids \X StoredRow)
      BY <2>1, TodoType
    <2>3. TablesOK'
      BY <1>3, <2>1, <2>2 DEF PopulateRow, ShadowWrite, TablesOK
    <2>4. QED
      BY <2>1, <2>2, <2>3, OpenType
  <1>4. CASE Close(p) \/ Crash(p)
    <2>1. Quit(p)
      BY <1>4 DEF Close, Crash
    <2>2. TablesOK'
      BY <2>1 DEF Quit, TablesOK
    <2>3. ProcsOK' /\ HasId'
      BY <2>1, ArgType DEF Quit, ProcsOK, HasId, NoIdYet, PCs
    <2>4. QED
      BY <2>2, <2>3
  <1>5. QED
    BY <1>1, <1>2, <1>3, <1>4

LEMMA WritesKeepTypeInv ==
    ASSUME TypeInv, NEW p \in Procs,
           \/ Add(p) \/ UpdateWrite(p) \/ InvalidateWrite(p) \/ DeleteTargets(p)
           \/ DeleteRow(p) \/ AddRelation(p) \/ SupersedeBySource(p)
    PROVE  TypeInv'
  <1> USE DEF TypeInv
  <1> DEFINE i == arg[p].id
  <1>1. CASE Add(p)
    <2>1. PICK j \in Ids, c \in Contents, m \in Metas, s \in {"valid", "expired"},
               f \in BOOLEAN, e \in Contents \cup {None} :
             /\ mem' = [mem EXCEPT ![j] = [status |-> s, content |-> c,
                                           emb |-> e, meta |-> m, fit |-> f]]
             /\ \/ Goto(p, "addSync", [NoArg EXCEPT !.id = j, !.emb = e])
                \/ UNCHANGED procVars
      BY <1>1 DEF Add
    <2>2. TablesOK'
      BY <1>1, <2>1, RowType DEF Add, TablesOK
    <2>3. CASE UNCHANGED procVars
      BY <2>2, <2>3 DEF procVars, ProcsOK, HasId
    <2>4. CASE Goto(p, "addSync", [NoArg EXCEPT !.id = j, !.emb = e])
      BY <2>2, <2>4, GotoType, ArgType DEF PCs
    <2>5. QED
      BY <2>1, <2>3, <2>4
  <1>2. CASE UpdateWrite(p)
    <2>1. i \in Ids /\ arg[p] \in Arg
      BY <1>2 DEF UpdateWrite, HasId, ProcsOK, NoIdYet
    <2>2. Present(i) => Updated(mem[i], arg[p]) \in Row
      <3> SUFFICES ASSUME Present(i) PROVE Updated(mem[i], arg[p]) \in Row
        OBVIOUS
      <3>1. /\ mem[i].status \in {"valid", "expired"}
            /\ mem[i].content \in Contents
            /\ mem[i].emb \in Contents \cup {None}
            /\ mem[i].meta \in Metas
            /\ mem[i].fit \in BOOLEAN
        BY <2>1, RowType DEF TablesOK, Present
      <3>2. /\ arg[p].content \in Contents \cup {None}
            /\ arg[p].emb \in Contents \cup {None}
            /\ arg[p].meta \in Metas \cup {None}
            /\ arg[p].fit \in BOOLEAN \cup {None}
        BY <2>1 DEF Arg
      <3>3. QED
        BY <3>1, <3>2, RowType DEF Updated
    <2>3. TablesOK'
      BY <1>2, <2>1, <2>2 DEF UpdateWrite, TablesOK
    <2>4. Return(p) \/ Goto(p, "updSync", [NoArg EXCEPT !.id = i, !.emb = arg[p].emb,
                                                       !.clear = arg[p].clear])
      BY <1>2 DEF UpdateWrite
    <2>5. LET a == [NoArg EXCEPT !.id = i, !.emb = arg[p].emb, !.clear = arg[p].clear]
          IN  a \in Arg /\ a.id \in Ids
      BY <2>1 DEF NoArg, Arg
    <2>6. QED
      BY <2>1, <2>3, <2>4, <2>5, ReturnType, GotoType DEF PCs
  <1>3. CASE InvalidateWrite(p)
    <2>1. i \in Ids /\ arg[p] \in Arg /\ arg[p].meta \in Metas
      BY <1>3 DEF InvalidateWrite, HasId, ProcsOK, NoIdYet
    <2>2. Present(i) => [status |-> "expired", content |-> mem[i].content,
                         emb |-> None, meta |-> arg[p].meta,
                         fit |-> mem[i].fit] \in Row
      BY <2>1, RowType DEF TablesOK, Present
    <2>3. TablesOK'
      BY <1>3, <2>1, <2>2 DEF InvalidateWrite, TablesOK
    <2>4. Return(p) \/ Goto(p, "invSync", [NoArg EXCEPT !.id = i])
      BY <1>3 DEF InvalidateWrite
    <2>5. QED
      BY <2>1, <2>3, <2>4, ReturnType, GotoType, ArgType DEF PCs
  <1>4. CASE DeleteTargets(p)
    <2>1. PICK j \in Ids : /\ rel' = {r \in rel : r[2] # j}
                           /\ Goto(p, "delRow", [NoArg EXCEPT !.id = j])
      BY <1>4 DEF DeleteTargets
    <2>2. TablesOK'
      BY <1>4, <2>1 DEF DeleteTargets, TablesOK
    <2>3. QED
      BY <2>1, <2>2, GotoType, ArgType DEF PCs
  <1>5. CASE DeleteRow(p)
    <2>1. i \in Ids /\ arg[p] \in Arg
      BY <1>5 DEF DeleteRow, HasId, ProcsOK, NoIdYet
    <2>2. TablesOK'
      BY <1>5, <2>1, RowType DEF DeleteRow, TablesOK
    <2>3. Return(p) \/ Goto(p, "delSync", arg[p])
      BY <1>5 DEF DeleteRow
    <2>4. QED
      BY <2>1, <2>2, <2>3, ReturnType, GotoType DEF PCs
  <1>6. CASE AddRelation(p)
    BY <1>6 DEF AddRelation, procVars, TablesOK, ProcsOK, HasId
  <1>7. CASE SupersedeBySource(p)
    <2>1. TablesOK'
      BY <1>7, RowType DEF SupersedeBySource, TablesOK
    <2>2. QED
      BY <1>7, <2>1 DEF SupersedeBySource, procVars, ProcsOK, HasId
  <1>8. QED
    BY <1>1, <1>2, <1>3, <1>4, <1>5, <1>6, <1>7

LEMMA OthersKeepTypeInv ==
    ASSUME TypeInv, NEW p \in Procs,
           \/ AddSync(p) \/ UpdateSync(p) \/ InvalidateSync(p) \/ DeleteSync(p)
           \/ UpdateCheck(p) \/ InvalidateRead(p) \/ BackfillRead(p)
           \/ BackfillEmbed(p) \/ LockedOut(p) \/ ImportEntry(p)
           \/ (ImportRead(p) /\ FileOK)
    PROVE  TypeInv'
  <1> USE DEF TypeInv
  <1>1. CASE AddSync(p) \/ UpdateSync(p) \/ InvalidateSync(p) \/ DeleteSync(p)
    <2>1. arg[p] \in Arg
      BY DEF ProcsOK
    <2>2. PICK v \in [Ids -> Contents \cup {None}] : ShadowWrite(p, v)
      BY <1>1, <2>1 DEF AddSync, UpdateSync, InvalidateSync, DeleteSync, TablesOK, Arg
    <2>3. UNCHANGED <<mem, rel>> /\ Return(p)
      BY <1>1 DEF AddSync, UpdateSync, InvalidateSync, DeleteSync
    <2>4. QED
      BY <2>2, <2>3, ShadowType, ReturnType
  <1>2. CASE UpdateCheck(p)
    <2>1. PICK a \in Arg : a.id \in Ids /\ Goto(p, "updWrite", a)
      BY <1>2 DEF UpdateCheck, UpdateArgs, Arg
    <2>2. TablesOK'
      BY <1>2 DEF UpdateCheck, TablesOK
    <2>3. QED
      BY <2>1, <2>2, GotoType DEF PCs
  <1>3. CASE InvalidateRead(p)
    <2>1. PICK j \in Ids :
             /\ Present(j)
             /\ Goto(p, "invWrite", [NoArg EXCEPT !.id = j, !.meta = mem[j].meta])
      BY <1>3 DEF InvalidateRead
    <2>2. TablesOK' /\ mem[j].meta \in Metas
      BY <1>3, <2>1, RowType DEF InvalidateRead, TablesOK, Present
    <2>3. LET a == [NoArg EXCEPT !.id = j, !.meta = mem[j].meta]
          IN  a \in Arg /\ a.id \in Ids /\ a.meta \in Metas
      BY <2>2 DEF NoArg, Arg
    <2>4. QED
      BY <2>1, <2>2, <2>3, GotoType DEF PCs
  <1>4. CASE BackfillRead(p)
    <2>1. Rows({j \in Ids : mem[j].status = "valid" /\ mem[j].emb = None})
             \in SUBSET (Ids \X StoredRow)
      BY RowsType
    <2>2. QED
      BY <1>4, <2>1 DEF BackfillRead, TablesOK, ProcsOK, HasId, NoIdYet, PCs
  <1>5. CASE BackfillEmbed(p)
    <2>1. PICK r \in todo[p] :
             /\ todo' = [todo EXCEPT ![p] = @ \ {r}]
             /\ \/ /\ pc' = [pc EXCEPT ![p] = "updWrite"]
                   /\ arg' = [arg EXCEPT ![p] = [NoArg EXCEPT !.id = r[1], !.emb = r[2].content]]
                \/ /\ pc' = [pc EXCEPT ![p] = IF todo[p] = {r} THEN "idle" ELSE @]
                   /\ arg' = arg
      BY <1>5 DEF BackfillEmbed
    <2>2. r[1] \in Ids /\ r[2].content \in Contents
      BY <2>1, TodoType
    <2>3. /\ [NoArg EXCEPT !.id = r[1], !.emb = r[2].content] \in Arg
          /\ [NoArg EXCEPT !.id = r[1], !.emb = r[2].content].id = r[1]
      BY <2>2 DEF NoArg, Arg
    <2>4. TablesOK' /\ ProcsOK'
      <3>1. todo' \in [Procs -> SUBSET (Ids \X StoredRow)]
        BY <2>1 DEF ProcsOK
      <3>2. pc' \in [Procs -> PCs] /\ arg' \in [Procs -> Arg]
        BY <2>1, <2>3 DEF ProcsOK, PCs
      <3>3. QED
        BY <1>5, <3>1, <3>2 DEF BackfillEmbed, TablesOK, ProcsOK
    <2>5. HasId'
      BY <1>5, <2>1, <2>2, <2>3 DEF BackfillEmbed, ProcsOK, HasId, NoIdYet
    <2>6. QED
      BY <2>4, <2>5
  <1>6. CASE LockedOut(p)
    BY <1>6, ReturnType DEF LockedOut, TablesOK
  <1>7. CASE ImportRead(p) /\ FileOK
    BY <1>7 DEF ImportRead, FileOK, TablesOK, ProcsOK, HasId, NoIdYet, PCs
  <1>8. CASE ImportEntry(p)
    <2>1. PICK r \in todo[p] :
             /\ todo' = [todo EXCEPT ![p] = @ \ {r}]
             /\ \/ mem' = [mem EXCEPT ![r[1]] = [r[2] EXCEPT !.status = "valid"]]
                \/ mem' = mem
             /\ \/ /\ pc' = [pc EXCEPT ![p] = "addSync"]
                   /\ arg' = [arg EXCEPT ![p] = [NoArg EXCEPT !.id = r[1], !.emb = r[2].emb]]
                \/ /\ pc' = [pc EXCEPT ![p] = IF todo[p] = {r} THEN "idle" ELSE @]
                   /\ arg' = arg
      BY <1>8 DEF ImportEntry
    <2>2. /\ r[1] \in Ids
          /\ r[2].emb \in Contents \cup {None}
          /\ [r[2] EXCEPT !.status = "valid"] \in Row
      BY <2>1, TodoType
    <2>3. TablesOK'
      <3>1. mem' \in [Ids -> Row]
        BY <2>1, <2>2 DEF TablesOK
      <3>2. QED
        BY <1>8, <3>1 DEF ImportEntry, TablesOK
    <2>4. /\ [NoArg EXCEPT !.id = r[1], !.emb = r[2].emb] \in Arg
          /\ [NoArg EXCEPT !.id = r[1], !.emb = r[2].emb].id = r[1]
      BY <2>2 DEF NoArg, Arg
    <2>5. ProcsOK'
      <3>1. todo' \in [Procs -> SUBSET (Ids \X StoredRow)]
        BY <2>1 DEF ProcsOK
      <3>2. pc' \in [Procs -> PCs] /\ arg' \in [Procs -> Arg]
        BY <2>1, <2>4 DEF ProcsOK, PCs
      <3>3. QED
        BY <1>8, <3>1, <3>2 DEF ImportEntry, ProcsOK
    <2>6. HasId'
      BY <1>8, <2>1, <2>2, <2>4 DEF ImportEntry, ProcsOK, HasId, NoIdYet
    <2>7. QED
      BY <2>3, <2>5, <2>6
  <1>9. QED
    BY <1>1, <1>2, <1>3, <1>4, <1>5, <1>6, <1>7, <1>8

LEMMA TypeInvNext == TypeInv /\ FileOK /\ [Next]_vars => TypeInv' /\ FileOK'
  <1> SUFFICES ASSUME TypeInv, FileOK, [Next]_vars PROVE TypeInv' /\ FileOK'
    OBVIOUS
  <1>1. CASE UNCHANGED vars
    BY <1>1 DEF vars, TypeInv, TablesOK, ProcsOK, HasId, FileOK
  <1>2. ASSUME NEW p \in Procs, Continue(p) \/ Begin(p), UNCHANGED file
        PROVE  TypeInv' /\ FileOK'
    <2>1. FileOK'
      BY <1>2 DEF FileOK
    <2>2. QED
      BY <1>2, <2>1, OpenKeepsTypeInv, WritesKeepTypeInv, OthersKeepTypeInv
         DEF Continue, Begin
  <1>3. ASSUME NEW p \in Procs, Export(p) PROVE TypeInv' /\ FileOK'
    <2>1. FileOK'
      BY <1>3, RowsType DEF Export, FileOK, Present, TypeInv
    <2>2. TypeInv'
      BY <1>3 DEF Export, procVars, TypeInv, TablesOK, ProcsOK, HasId
    <2>3. QED
      BY <2>1, <2>2
  <1>4. QED
    BY <1>1, <1>2, <1>3 DEF Next

LEMMA TypeInvariant == Spec => [](TypeInv /\ FileOK)
  <1>1. Init => TypeInv /\ FileOK
    BY TypeInvInit DEF Init, FileOK
  <1>2. QED
    BY <1>1, TypeInvNext, PTL DEF Spec

(* Every variable keeps its type.                                          *)
THEOREM TypeCorrect == Spec => []TypeOK
  <1>1. TypeInv /\ FileOK => TypeOK
    BY TypeInvType
  <1>2. QED
    BY <1>1, TypeInvariant, PTL

-----------------------------------------------------------------------------
(* The steps that write the memories or the relations; all the others leave *)
(* both tables alone.                                                       *)
TableStep(p) ==
    \/ Add(p) \/ UpdateWrite(p) \/ InvalidateWrite(p) \/ DeleteTargets(p)
    \/ DeleteRow(p) \/ AddRelation(p) \/ SupersedeBySource(p) \/ ImportEntry(p)

LEMMA TableSteps ==
    ASSUME [Next]_vars
    PROVE  UNCHANGED <<mem, rel>> \/ \E p \in Procs : TableStep(p)
  <1>1. CASE UNCHANGED vars
    BY <1>1 DEF vars
  <1>2. ASSUME NEW p \in Procs, Continue(p) \/ Begin(p) \/ Export(p)
        PROVE  UNCHANGED <<mem, rel>> \/ TableStep(p)
    BY <1>2 DEF Continue, Export, ImportRead, Begin, TableStep, Open, CreateVec, InitVecFails,
       ReadEmbeddings, PopulateRow, Close, Crash, Quit, AddSync, UpdateCheck,
       UpdateSync, InvalidateRead, InvalidateSync, DeleteSync, BackfillRead,
       BackfillEmbed, LockedOut
  <1>3. QED
    BY <1>1, <1>2 DEF Next

(* What each of these steps does to the memories: insert, rewrite or delete *)
(* one of them, or expire some; a rewrite never makes a memory valid.       *)
LEMMA MemSteps ==
    ASSUME TypeInv, NEW p \in Procs, TableStep(p)
    PROVE  \/ UNCHANGED mem
           \/ \E i \in Ids, row \in Row :
                 /\ mem' = [mem EXCEPT ![i] = row]
                 /\ \/ ~Present(i) /\ row.status \in {"valid", "expired"}
                    \/ Present(i) /\ row.status \in {mem[i].status, "expired"}
                    \/ Present(i) /\ row = AbsentRow /\ DeleteRow(p) /\ i = arg[p].id
           \/ SupersedeBySource(p)
  <1> DEFINE i == arg[p].id
  <1> USE DEF TypeInv
  <1>1. CASE Add(p)
    <2>1. PICK j \in Ids, c \in Contents, m \in Metas, s \in {"valid", "expired"},
               f \in BOOLEAN, e \in Contents \cup {None} :
             /\ ~Present(j)
             /\ mem' = [mem EXCEPT ![j] = [status |-> s, content |-> c,
                                           emb |-> e, meta |-> m, fit |-> f]]
             /\ IF e # None /\ vecOn[p]
                  THEN Goto(p, "addSync", [NoArg EXCEPT !.id = j, !.emb = e])
                  ELSE UNCHANGED procVars
      BY <1>1 DEF Add
    <2>2. [status |-> s, content |-> c, emb |-> e, meta |-> m, fit |-> f] \in Row
      BY RowType
    <2>3. QED
      BY <2>1, <2>2
  <1>2. CASE UpdateWrite(p)
    <2>1. CASE Present(i)
      <3>1. i \in Ids
        BY <1>2 DEF UpdateWrite, HasId, NoIdYet
      <3>2. mem' = [mem EXCEPT ![i] = Updated(mem[i], arg[p])]
        BY <1>2, <2>1 DEF UpdateWrite
      <3>3. Updated(mem[i], arg[p]) \in Row
        BY <3>1, <3>2, WritesKeepTypeInv, <1>2 DEF TablesOK
      <3>4. Updated(mem[i], arg[p]).status \in {mem[i].status, "expired"}
        BY DEF Updated
      <3>5. QED
        BY <2>1, <3>1, <3>2, <3>3, <3>4
    <2>2. CASE ~Present(i)
      BY <1>2, <2>2 DEF UpdateWrite
    <2>3. QED
      BY <2>1, <2>2
  <1>3. CASE InvalidateWrite(p)
    <2>1. CASE Present(i)
      <3> DEFINE row == [status |-> "expired", content |-> mem[i].content,
                         emb |-> None, meta |-> arg[p].meta, fit |-> mem[i].fit]
      <3>1. i \in Ids /\ arg[p].meta \in Metas
        BY <1>3 DEF InvalidateWrite, HasId, NoIdYet
      <3>2. mem' = [mem EXCEPT ![i] = row]
        BY <1>3, <2>1 DEF InvalidateWrite
      <3>3. row \in Row
        BY <2>1, <3>1, RowType DEF TablesOK, Present
      <3>4. QED
        BY <2>1, <3>1, <3>2, <3>3
    <2>2. CASE ~Present(i)
      BY <1>3, <2>2 DEF InvalidateWrite
    <2>3. QED
      BY <2>1, <2>2
  <1>4. CASE DeleteRow(p)
    <2>1. CASE Present(i)
      <3>1. i \in Ids
        BY <1>4 DEF DeleteRow, HasId, NoIdYet
      <3>2. mem' = [mem EXCEPT ![i] = AbsentRow]
        BY <1>4, <2>1 DEF DeleteRow
      <3>3. QED
        BY <1>4, <2>1, <3>1, <3>2, RowType
    <2>2. CASE ~Present(i)
      BY <1>4, <2>2 DEF DeleteRow
    <2>3. QED
      BY <2>1, <2>2
  <1>5. CASE DeleteTargets(p) \/ AddRelation(p)
    BY <1>5 DEF DeleteTargets, AddRelation
  <1>6. CASE ImportEntry(p)
    <2>1. PICK r \in todo[p] :
             \/ /\ ~Present(r[1])
                /\ mem' = [mem EXCEPT ![r[1]] = [r[2] EXCEPT !.status = "valid"]]
             \/ mem' = mem
      BY <1>6 DEF ImportEntry
    <2>2. /\ r[1] \in Ids
          /\ [r[2] EXCEPT !.status = "valid"] \in Row
          /\ [r[2] EXCEPT !.status = "valid"].status = "valid"
      BY <2>1, TodoType
    <2>3. QED
      BY <2>1, <2>2
  <1>7. QED
    BY <1>1, <1>2, <1>3, <1>4, <1>5, <1>6 DEF TableStep

LEMMA SourcesExistNext ==
    ASSUME FALSE \notin FkFlags, TypeInv, SourcesExist, [Next]_vars
    PROVE  SourcesExist'
  <1> USE DEF TypeInv
  <1>1. CASE UNCHANGED <<mem, rel>>
    BY <1>1 DEF SourcesExist, Present
  <1>2. ASSUME NEW p \in Procs, TableStep(p) PROVE SourcesExist'
    <2>1. CASE DeleteRow(p)
      <3> DEFINE i == arg[p].id
      <3>1. CASE Present(i)
        <4>1. i \in Ids
          BY <2>1 DEF DeleteRow, HasId, NoIdYet
        <4>2. rel' = {r \in rel : r[1] # i}
          BY <2>1, <3>1, FkAssumption DEF DeleteRow
        <4>3. mem' = [mem EXCEPT ![i] = AbsentRow]
          BY <2>1, <3>1 DEF DeleteRow
        <4>4. ASSUME NEW r \in rel' PROVE mem'[r[1]].status # "absent"
          <5>1. r \in rel /\ r[1] # i /\ r[1] \in Ids
            BY <4>2, <4>4 DEF TablesOK
          <5>2. QED
            BY <4>1, <4>3, <5>1 DEF SourcesExist, Present, TablesOK
        <4>5. QED
          BY <4>4 DEF SourcesExist, Present
      <3>2. CASE ~Present(i)
        BY <2>1, <3>2 DEF DeleteRow, SourcesExist, Present
      <3>3. QED
        BY <3>1, <3>2
    <2>2. CASE AddRelation(p)
      <3>1. PICK i, j \in Ids : Present(i) /\ rel' = rel \cup {<<i, j>>}
        BY <2>2, FkAssumption DEF AddRelation
      <3>2. QED
        BY <2>2, <3>1 DEF AddRelation, SourcesExist, Present
    <2>3. CASE SupersedeBySource(p)
      <3>1. \A i \in Ids : Present(i) => Present(i)'
        BY <2>3 DEF SupersedeBySource, Present, TablesOK
      <3>2. UNCHANGED rel
        BY <2>3 DEF SupersedeBySource
      <3>3. QED
        BY <3>1, <3>2 DEF SourcesExist, TablesOK
    <2>4. CASE ~DeleteRow(p) /\ ~AddRelation(p) /\ ~SupersedeBySource(p)
      <3>1. rel' \subseteq rel
        BY <1>2, <2>4 DEF TableStep, Add, UpdateWrite, InvalidateWrite, DeleteTargets,
           ImportEntry
      <3>2. \A i \in Ids : Present(i) => Present(i)'
        BY <1>2, <2>4, MemSteps DEF Present, TablesOK
      <3>3. QED
        BY <3>1, <3>2 DEF SourcesExist, TablesOK
    <2>5. QED
      BY <2>1, <2>2, <2>3, <2>4
  <1>3. QED
    BY <1>1, <1>2, TableSteps

(* As long as every connection enforces foreign keys, no relation ever      *)
(* starts at a memory that is gone, whatever the interleaving of Delete and *)
(* AddRelation by different processes, and whichever of them crash.         *)
THEOREM SourcesAlwaysExist ==
    ASSUME FALSE \notin FkFlags
    PROVE  Spec => []SourcesExist
  <1>1. Init => SourcesExist
    BY DEF Init, SourcesExist
  <1>2. TypeInv /\ SourcesExist /\ [Next]_vars => SourcesExist'
    BY SourcesExistNext
  <1>3. QED
    BY <1>1, <1>2, TypeInvariant, PTL DEF Spec

-----------------------------------------------------------------------------
(* What EmbeddingFresh rests on: the embedding an Update in progress carries *)
(* is that of the content it carries, for nobody runs a backfill; and the    *)
(* rows read by a loop, or exported, carried the embedding of their content. *)
RowsFresh(rows) == \A r \in rows : r[2].emb \in {None, r[2].content}

ArgFresh == \A p \in Procs :
    /\ todo[p] # {} => pc[p] \in {"populate", "import", "addSync"}
    /\ pc[p] = "updWrite" => arg[p].emb \in {None, arg[p].content}
    /\ RowsFresh(todo[p])

FreshInv == ArgFresh /\ EmbeddingFresh /\ RowsFresh(file)

LEMMA RowsAreFresh ==
    ASSUME EmbeddingFresh, NEW S \in SUBSET Ids
    PROVE  RowsFresh(Rows(S))
  BY DEF EmbeddingFresh, RowsFresh, Rows

LEMMA ArgFreshNext ==
    ASSUME "backfill" \notin Ops, TypeInv, FreshInv, [Next]_vars
    PROVE  ArgFresh' /\ RowsFresh(file)'
  <1> USE DEF TypeInv, ProcsOK, FreshInv
  <1>1. CASE UNCHANGED vars
    BY <1>1 DEF vars, ArgFresh, RowsFresh
  <1>2. ASSUME NEW p \in Procs, Continue(p) \/ Begin(p) PROVE ArgFresh'
    <2>1. CASE Open(p) \/ CreateVec(p) \/ InitVecFails(p) \/ Close(p) \/ Crash(p)
      <3>2. CASE Open(p) \/ CreateVec(p) \/ InitVecFails(p)
        BY <2>1, <3>2 DEF ArgFresh, Open, CreateVec, InitVecFails
      <3>3. CASE Close(p) \/ Crash(p)
        BY <2>1, <3>3 DEF ArgFresh, RowsFresh, Close, Crash, Quit
      <3>4. QED
        BY <2>1, <3>2, <3>3
    <2>11. CASE PopulateRow(p)
      <3>1. PICK r \in todo[p] : OpenWith(p, todo[p] \ {r})
        BY <2>11 DEF PopulateRow
      <3>2. RowsFresh(todo[p] \ {r})
        BY DEF ArgFresh, RowsFresh
      <3>3. QED
        BY <2>11, <3>1, <3>2 DEF ArgFresh, PopulateRow, OpenWith
    <2>0. CASE ReadEmbeddings(p)
      <3>1. RowsFresh(Embedded)
        BY RowsAreFresh DEF Embedded
      <3>2. QED
        BY <2>0, <3>1 DEF ArgFresh, ReadEmbeddings, OpenWith
    <2>2. CASE AddSync(p) \/ UpdateSync(p) \/ InvalidateSync(p) \/ DeleteSync(p)
                  \/ LockedOut(p)
      BY <2>2 DEF ArgFresh, AddSync, UpdateSync, InvalidateSync, DeleteSync, LockedOut,
         Return
    <2>3. CASE UpdateCheck(p)
      <3>1. PICK a \in UpdateArgs : Goto(p, "updWrite", a)
        BY <2>3 DEF UpdateCheck
      <3>2. a.emb \in {None, a.content}
        BY DEF UpdateArgs
      <3>3. pc[p] = "idle"
        BY <2>3 DEF UpdateCheck, Start
      <3>4. QED
        BY <3>1, <3>2, <3>3 DEF ArgFresh, Goto
    <2>4. CASE InvalidateRead(p) \/ DeleteTargets(p)
      BY <2>4 DEF ArgFresh, InvalidateRead, DeleteTargets, Start, Goto
    <2>5. CASE Add(p) \/ AddRelation(p) \/ SupersedeBySource(p)
      <3>1. UNCHANGED procVars \/ (pc[p] = "idle" /\ \E a : Goto(p, "addSync", a))
        BY <2>5 DEF Add, AddRelation, SupersedeBySource, Start
      <3>2. QED
        BY <3>1 DEF ArgFresh, Goto, procVars
    <2>6. CASE UpdateWrite(p) \/ InvalidateWrite(p) \/ DeleteRow(p)
      <3>1. pc[p] \in {"updWrite", "invWrite", "delRow"}
        BY <2>6 DEF UpdateWrite, InvalidateWrite, DeleteRow
      <3>2. \/ Return(p)
            \/ \E a : \/ Goto(p, "updSync", a) \/ Goto(p, "invSync", a)
                      \/ Goto(p, "delSync", a)
        BY <2>6 DEF UpdateWrite, InvalidateWrite, DeleteRow
      <3>3. QED
        BY <3>1, <3>2 DEF ArgFresh, Return, Goto
    <2>7. CASE BackfillRead(p) \/ BackfillEmbed(p)
      BY <2>7 DEF ArgFresh, BackfillRead, BackfillEmbed, Start
    <2>8. CASE ImportRead(p)
      BY <2>8 DEF ArgFresh, ImportRead
    <2>9. CASE ImportEntry(p)
      BY <2>9 DEF ArgFresh, RowsFresh, ImportEntry
    <2>10. QED
      BY <1>2, <2>0, <2>1, <2>2, <2>3, <2>4, <2>5, <2>6, <2>7, <2>8, <2>9, <2>11
         DEF Continue, Begin
  <1>3. ASSUME NEW p \in Procs, Export(p) PROVE ArgFresh' /\ RowsFresh(file)'
    <2>1. RowsFresh(file)'
      BY <1>3, RowsAreFresh DEF Export, RowsFresh
    <2>2. ArgFresh'
      BY <1>3 DEF Export, procVars, ArgFresh
    <2>3. QED
      BY <2>1, <2>2
  <1>4. ASSUME UNCHANGED file PROVE RowsFresh(file)'
    BY <1>4 DEF RowsFresh
  <1>5. QED
    BY <1>1, <1>2, <1>3, <1>4 DEF Next

(* The statement that writes an embedding writes that of the content it      *)
(* leaves in the row.                                                        *)
WritesFresh(p) ==
    /\ pc[p] = "updWrite" =>
          arg[p].emb \in {None, IF arg[p].content # None THEN arg[p].content
                                ELSE mem[arg[p].id].content}
    /\ pc[p] = "import" => RowsFresh(todo[p])

LEMMA EmbeddingFreshNext ==
    ASSUME TypeInv, EmbeddingFresh, \A p \in Procs : WritesFresh(p), [Next]_vars
    PROVE  EmbeddingFresh'
  <1> USE DEF TypeInv, ProcsOK
  <1>1. CASE UNCHANGED <<mem, rel>>
    BY <1>1 DEF EmbeddingFresh
  <1>2. ASSUME NEW p \in Procs, TableStep(p) PROVE EmbeddingFresh'
    <2> DEFINE i == arg[p].id
    <2>1. CASE Add(p)
      <3>1. PICK j \in Ids, c \in Contents, m \in Metas, s \in {"valid", "expired"},
                 f \in BOOLEAN, e \in Contents \cup {None} :
               /\ e \in {None, c}
               /\ mem' = [mem EXCEPT ![j] = [status |-> s, content |-> c,
                                             emb |-> e, meta |-> m, fit |-> f]]
        BY <2>1 DEF Add
      <3>2. QED
        BY <3>1 DEF EmbeddingFresh, TablesOK
    <2>2. CASE UpdateWrite(p)
      <3>1. /\ i \in Ids
            /\ arg[p].emb \in {None, IF arg[p].content # None THEN arg[p].content
                                      ELSE mem[i].content}
        BY <2>2 DEF UpdateWrite, HasId, NoIdYet, WritesFresh
      <3>2. CASE Present(i)
        <4>1. mem' = [mem EXCEPT ![i] = Updated(mem[i], arg[p])]
          BY <2>2, <3>2 DEF UpdateWrite
        <4>2. mem[i].emb \in {None, mem[i].content}
          BY <3>1 DEF EmbeddingFresh
        <4>3. LET row == Updated(mem[i], arg[p]) IN row.emb \in {None, row.content}
          BY <3>1, <4>2 DEF Updated
        <4>4. QED
          BY <3>1, <4>1, <4>3 DEF EmbeddingFresh, TablesOK
      <3>3. CASE ~Present(i)
        BY <2>2, <3>3 DEF UpdateWrite, EmbeddingFresh
      <3>4. QED
        BY <3>2, <3>3
    <2>3. CASE InvalidateWrite(p)
      BY <2>3 DEF InvalidateWrite, EmbeddingFresh, TablesOK
    <2>4. CASE DeleteRow(p)
      BY <2>4 DEF DeleteRow, EmbeddingFresh, TablesOK, AbsentRow
    <2>5. CASE SupersedeBySource(p)
      <3>1. \A j \in Ids : mem'[j].emb = mem[j].emb /\ mem'[j].content = mem[j].content
        <4>1. \A j \in Ids : mem[j].status = "valid" =>
                 mem[j] \in StoredRow
          BY StoredRowType DEF TablesOK
        <4>2. QED
          BY <2>5, <4>1 DEF SupersedeBySource, StoredRow
      <3>2. QED
        BY <3>1 DEF EmbeddingFresh
    <2>6. CASE DeleteTargets(p) \/ AddRelation(p)
      BY <2>6 DEF DeleteTargets, AddRelation, EmbeddingFresh
    <2>7. CASE ImportEntry(p)
      <3>1. PICK r \in todo[p] :
               \/ mem' = [mem EXCEPT ![r[1]] = [r[2] EXCEPT !.status = "valid"]]
               \/ mem' = mem
        BY <2>7 DEF ImportEntry
      <3>2. r[1] \in Ids /\ r[2] \in StoredRow
        BY <3>1, TodoType
      <3>3. LET row == [r[2] EXCEPT !.status = "valid"]
            IN  row.emb \in {None, row.content}
        BY <2>7, <3>1, <3>2 DEF ImportEntry, WritesFresh, RowsFresh, StoredRow
      <3>4. QED
        BY <3>1, <3>2, <3>3 DEF EmbeddingFresh, TablesOK
    <2>8. QED
      BY <1>2, <2>1, <2>2, <2>3, <2>4, <2>5, <2>6, <2>7 DEF TableStep
  <1>3. QED
    BY <1>1, <1>2, TableSteps

(* Without a backfill, no interleaving of any number of processes leaves a  *)
(* memory with the embedding of another content (the one statement that     *)
(* writes an embedding knows the content it belongs to).                    *)
THEOREM EmbeddingAlwaysFresh ==
    ASSUME "backfill" \notin Ops
    PROVE  Spec => []EmbeddingFresh
  <1>1. Init => FreshInv
    BY DEF Init, FreshInv, ArgFresh, RowsFresh, EmbeddingFresh, AbsentRow
  <1>2. TypeInv /\ FreshInv /\ [Next]_vars => FreshInv'
    <2>1. FreshInv => \A p \in Procs : WritesFresh(p)
      BY DEF FreshInv, ArgFresh, WritesFresh
    <2>2. QED
      BY <2>1, ArgFreshNext, EmbeddingFreshNext DEF FreshInv
  <1>3. FreshInv => EmbeddingFresh
    BY DEF FreshInv
  <1>4. QED
    BY <1>1, <1>2, <1>3, TypeInvariant, PTL DEF Spec

-----------------------------------------------------------------------------
(* The memory table implements the life cycle MemoryLifecycle promises.    *)
THEOREM ImplementsLifecycle == Spec => RefinesLifecycle
  <1> DEFINE st == [i \in Ids |-> mem[i].status]
  <1>1. Init => Lifecycle!Init
    BY DEF Init, Lifecycle!Init, AbsentRow
  <1>2. TypeInv /\ [Next]_vars => [Lifecycle!Next]_st
    <2> SUFFICES ASSUME TypeInv, [Next]_vars
                 PROVE  Lifecycle!Next \/ st' = st
      OBVIOUS
    <2>1. CASE UNCHANGED <<mem, rel>>
      BY <2>1
    <2>2. ASSUME NEW p \in Procs, TableStep(p)
          PROVE  Lifecycle!Next \/ st' = st
      <3>1. CASE UNCHANGED mem
        BY <3>1
      <3>2. ASSUME NEW i \in Ids, NEW row \in Row, mem' = [mem EXCEPT ![i] = row],
                   ~Present(i), row.status \in {"valid", "expired"}
            PROVE  Lifecycle!Create(i)
        BY <3>2 DEF TypeInv, TablesOK, Lifecycle!Create, Present
      <3>3. ASSUME NEW i \in Ids, NEW row \in Row, mem' = [mem EXCEPT ![i] = row],
                   Present(i), row.status \in {mem[i].status, "expired"}
            PROVE  Lifecycle!Expire({i}) \/ st' = st
        <4>1. mem[i].status \in {"valid", "expired"}
          BY <3>3, RowType DEF TypeInv, TablesOK, Present
        <4>2. QED
          BY <3>3, <4>1 DEF TypeInv, TablesOK, Lifecycle!Expire
      <3>4. ASSUME NEW i \in Ids, mem' = [mem EXCEPT ![i] = AbsentRow], Present(i)
            PROVE  Lifecycle!Remove(i)
        BY <3>4 DEF TypeInv, TablesOK, Lifecycle!Remove, Present, AbsentRow
      <3>5. CASE SupersedeBySource(p)
        <4>1. PICK S \in SUBSET Ids :
                 mem' = [i \in Ids |-> IF i \in S /\ mem[i].status = "valid"
                                         THEN [mem[i] EXCEPT !.status = "expired"]
                                         ELSE mem[i]]
          BY <3>5 DEF SupersedeBySource
        <4>2. ASSUME NEW V \in SUBSET Ids, V = {i \in S : mem[i].status = "valid"}
              PROVE  Lifecycle!Expire(V)
          <5>1. ASSUME NEW i \in Ids, i \in V PROVE mem'[i].status = "expired"
            <6>1. mem'[i] = [mem[i] EXCEPT !.status = "expired"] /\ mem[i].status = "valid"
              BY <4>1, <4>2, <5>1
            <6>2. mem[i] \in StoredRow
              BY <6>1, StoredRowType DEF TypeInv, TablesOK
            <6>3. QED
              BY <6>1, <6>2 DEF StoredRow
          <5>2. ASSUME NEW i \in Ids, i \notin V PROVE mem'[i].status = mem[i].status
            BY <4>1, <4>2, <5>2
          <5>3. QED
            BY <4>2, <5>1, <5>2 DEF Lifecycle!Expire
        <4>3. PICK V \in SUBSET Ids : V = {i \in S : mem[i].status = "valid"}
          OBVIOUS
        <4>4. QED
          BY <4>2, <4>3 DEF Lifecycle!Next
      <3>6. QED
        BY <2>2, <3>1, <3>2, <3>3, <3>4, <3>5, MemSteps DEF Lifecycle!Next
    <2>3. QED
      BY <2>1, <2>2, TableSteps
  <1>3. QED
    BY <1>1, <1>2, TypeInvariant, PTL DEF Spec, RefinesLifecycle, Lifecycle!Spec
=============================================================================
