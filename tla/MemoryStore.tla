----------------------------- MODULE MemoryStore -----------------------------
(***************************************************************************)
(* The SQLite memory store of internal/store, seen by the processes that   *)
(* share its file.  Every llmem command is a process of its own that opens *)
(* the database, runs store operations and exits; session hooks, the       *)
(* nightly timer and a user run them side by side.  The code uses no       *)
(* transaction: an operation is a sequence of SQL statements, each of them *)
(* atomic, so each action below is one statement (or one read together     *)
(* with the decision taken on it), and a process may stop between any two. *)
(*                                                                         *)
(* An embedding is a function of the content it was computed from, so it   *)
(* is written as that content.  The columns no property tells apart        *)
(* (summary, hints, confidence, timestamps, the shadow's copy of content   *)
(* and metadata) are left out, but for what import asks of a row: whether  *)
(* its content is not empty, its confidence from 0 to 1 and its embedding  *)
(* of a size the importing store takes (fit).  Every process knows the     *)
(* same memory types and embeds with the same model.                       *)
(***************************************************************************)
EXTENDS FiniteSets

CONSTANTS
    Ids,        \* memory ids
    Contents,   \* contents, and the embeddings computed from them
    Metas,      \* values of the metadata column, invalidation reason aside
    Procs,      \* processes that open the database
    Ops,        \* operations the callers invoke
    FkFlags,    \* PRAGMA foreign_keys of the connections a statement may get
    None        \* SQL NULL, and "parameter not given"

ASSUME NoneAssumption == None \notin Ids \cup Contents \cup Metas \cup BOOLEAN
ASSUME FkAssumption == FkFlags \subseteq BOOLEAN

VARIABLES
    mem,        \* table memories
    rel,        \* table relations: <<source_id, target_id>>
    vec,        \* _vec_memories_vec: embedding of each id, None without a row
    vecTable,   \* whether _vec_memories_vec exists
    pc,         \* next statement of each process
    arg,        \* parameters and locals of the operation in progress
    todo,       \* rows a loop of the process read and has still to handle
    vecOn,      \* MemoryStore.vecAvailable
    file        \* rows in the file written by export; {} if no import takes it

vars == <<mem, rel, vec, vecTable, pc, arg, todo, vecOn, file>>
procVars == <<pc, arg, todo, vecOn>>

AbsentRow == [status |-> "absent", content |-> None, emb |-> None, meta |-> None,
              fit |-> FALSE]

StoredRow == [status : {"valid", "expired"}, content : Contents,
              emb : Contents \cup {None}, meta : Metas,
              fit : BOOLEAN]    \* import would take the row

Row == StoredRow \cup {AbsentRow}

\* Parameters of Update (UpdateParams) and the locals of the other operations.
Arg == [id : Ids \cup {None}, content : Contents \cup {None},
        emb : Contents \cup {None}, clear : BOOLEAN, expire : BOOLEAN,
        meta : Metas \cup {None}, fit : BOOLEAN \cup {None}]

NoArg == [id |-> None, content |-> None, emb |-> None, clear |-> FALSE,
          expire |-> FALSE, meta |-> None, fit |-> None]

PCs == {"closed", "opening", "created", "populate", "idle", "addSync",
        "updWrite", "updSync", "invWrite", "invSync", "delRow", "delSync",
        "backfill", "import"}

TypeOK ==
    /\ mem \in [Ids -> Row]
    /\ rel \subseteq Ids \X Ids
    /\ vec \in [Ids -> Contents \cup {None}]
    /\ vecTable \in BOOLEAN
    /\ pc \in [Procs -> PCs]
    /\ arg \in [Procs -> Arg]
    /\ todo \in [Procs -> SUBSET (Ids \X StoredRow)]
    /\ vecOn \in [Procs -> BOOLEAN]
    /\ file \subseteq Ids \X StoredRow

Init ==
    /\ mem = [i \in Ids |-> AbsentRow]
    /\ rel = {}
    /\ vec = [i \in Ids |-> None]
    /\ vecTable = FALSE
    /\ pc = [p \in Procs |-> "closed"]
    /\ arg = [p \in Procs |-> NoArg]
    /\ todo = [p \in Procs |-> {}]
    /\ vecOn = [p \in Procs |-> FALSE]
    /\ file = {}

Present(i) == mem[i].status # "absent"

\* Another process has the database open, so a statement may meet its lock.
Contended(p) == \E q \in Procs \ {p} : pc[q] # "closed"

\* An operation returns: an import or a backfill goes on with its next row.
\* Only the import's rows go through Add.
Return(p) ==
    /\ pc' = [pc EXCEPT ![p] = IF todo[p] = {} THEN "idle"
                               ELSE IF @ = "addSync" THEN "import" ELSE "backfill"]
    /\ arg' = [arg EXCEPT ![p] = NoArg]
    /\ UNCHANGED <<todo, vecOn>>

Goto(p, label, a) ==
    /\ pc' = [pc EXCEPT ![p] = label]
    /\ arg' = [arg EXCEPT ![p] = a]
    /\ UNCHANGED <<todo, vecOn>>

\* A statement on the shadow table.  Its errors are logged or dropped: it
\* does nothing when the table is gone or another process holds the lock.
ShadowWrite(p, v) ==
    /\ \/ vecTable /\ vec' = v
       \/ (~vecTable \/ Contended(p)) /\ vec' = vec
    /\ UNCHANGED vecTable
-----------------------------------------------------------------------------
(* NewMemoryStore.  Every open drops the shadow table, then rebuilds it.   *)

\* Seeded fault: the table an earlier process left is kept.
DropVecNothing(p) == UNCHANGED <<vec, vecTable>>

\* dropLegacyVec0Objects, whose errors are dropped.
DropVec(p) ==
    \/ vec' = [i \in Ids |-> None] /\ vecTable' = FALSE
    \/ Contended(p) /\ UNCHANGED <<vec, vecTable>>

\* With DisableVec (llmem init) nothing is rebuilt.
Open(p) ==
    /\ pc[p] = "closed"
    /\ DropVec(p)
    /\ \E label \in {"opening", "idle"} : pc' = [pc EXCEPT ![p] = label]
    /\ UNCHANGED <<mem, rel, arg, todo, vecOn>>

CreateVec(p) ==
    /\ pc[p] = "opening"
    /\ vecTable' = TRUE
    /\ pc' = [pc EXCEPT ![p] = "created"]
    /\ UNCHANGED <<mem, rel, vec, arg, todo, vecOn>>

\* A statement of initVecTable fails: the store works without vec.
InitVecFails(p) ==
    /\ pc[p] \in {"opening", "created"}
    /\ pc' = [pc EXCEPT ![p] = "idle"]
    /\ UNCHANGED <<mem, rel, vec, vecTable, arg, todo, vecOn>>

OpenWith(p, rows) ==
    /\ todo' = [todo EXCEPT ![p] = rows]
    /\ pc' = [pc EXCEPT ![p] = IF rows = {} THEN "idle" ELSE "populate"]
    /\ vecOn' = [vecOn EXCEPT ![p] = (rows = {})]
    /\ UNCHANGED arg

\* The rows a SELECT returns for the ids in S: a loop works on this snapshot.
Rows(S) == {<<i, mem[i]>> : i \in S}

Embedded == Rows({i \in Ids : mem[i].status = "valid" /\ mem[i].emb # None})

ReadEmbeddings(p) ==
    /\ pc[p] = "created"
    /\ OpenWith(p, Embedded)
    /\ UNCHANGED <<mem, rel, vec, vecTable>>

PopulateRow(p) ==
    /\ pc[p] = "populate"
    /\ \E r \in todo[p] :
        /\ ShadowWrite(p, [vec EXCEPT ![r[1]] = r[2].emb])
        /\ OpenWith(p, todo[p] \ {r})
    /\ UNCHANGED <<mem, rel>>

Quit(p) ==
    /\ pc' = [pc EXCEPT ![p] = "closed"]
    /\ arg' = [arg EXCEPT ![p] = NoArg]
    /\ todo' = [todo EXCEPT ![p] = {}]
    /\ vecOn' = [vecOn EXCEPT ![p] = FALSE]
    /\ UNCHANGED <<mem, rel, vec, vecTable>>

Close(p) == pc[p] = "idle" /\ Quit(p)

\* The process dies between two statements; what it wrote stays.
Crash(p) == pc[p] \notin {"closed", "idle"} /\ Quit(p)
-----------------------------------------------------------------------------
(* Operations of an open store.                                            *)

Start(p, op) == pc[p] = "idle" /\ op \in Ops

\* Add.  A caller that passes an embedding computed it from the content.  Add
\* asks nothing of content and confidence (f).  The INSERT fails on an id in use.
Add(p) ==
    /\ Start(p, "add")
    /\ \E i \in Ids, c \in Contents, m \in Metas, s \in {"valid", "expired"},
          f \in BOOLEAN : \E e \in {None, c} :
        /\ ~Present(i)
        /\ mem' = [mem EXCEPT ![i] = [status |-> s, content |-> c,
                                      emb |-> e, meta |-> m, fit |-> f]]
        /\ IF e # None /\ vecOn[p]
             THEN Goto(p, "addSync", [NoArg EXCEPT !.id = i, !.emb = e])
             ELSE UNCHANGED procVars
    /\ UNCHANGED <<rel, vec, vecTable>>

AddSync(p) ==
    /\ pc[p] = "addSync"
    /\ ShadowWrite(p, [vec EXCEPT ![arg[p].id] = arg[p].emb])
    /\ Return(p)
    /\ UNCHANGED <<mem, rel>>

\* What callers pass to Update, which asks nothing of content and confidence
\* either.  An embedding comes with the content it was computed from; backfill,
\* which passes one alone, is below.
UpdateArgs == {a \in Arg : /\ a.id # None
                           /\ a.emb \in {None, a.content}
                           /\ a.clear => a.emb = None}

UpdateCheck(p) ==
    /\ Start(p, "update")
    /\ \E a \in UpdateArgs : Present(a.id) /\ Goto(p, "updWrite", a)
    /\ UNCHANGED <<mem, rel, vec, vecTable>>

\* Faults seeded in Updated: metadata not given is written as NULL; new content
\* keeps the old embedding; a row not expired by the call is made valid.
UpdatedNullMeta(row, a) ==
    [row EXCEPT !.meta = a.meta,
                !.content = IF a.content # None THEN a.content ELSE @,
                !.emb = IF a.clear \/ a.content # None THEN a.emb ELSE @]

UpdatedKeepsEmb(row, a) ==
    [row EXCEPT !.status = IF a.expire THEN "expired" ELSE @,
                !.content = IF a.content # None THEN a.content ELSE @,
                !.emb = IF a.clear \/ a.emb # None THEN a.emb ELSE @]

UpdatedRevives(row, a) ==
    [row EXCEPT !.status = IF a.expire THEN "expired" ELSE "valid"]

\* The UPDATE statement.  New content without an embedding clears the old one.
Updated(row, a) ==
    [status  |-> IF a.expire THEN "expired" ELSE row.status,
     content |-> IF a.content # None THEN a.content ELSE row.content,
     emb     |-> IF a.emb # None THEN a.emb
                 ELSE IF a.clear \/ a.content # None THEN None ELSE row.emb,
     meta    |-> IF a.meta # None THEN a.meta ELSE row.meta,
     fit     |-> IF a.fit # None THEN a.fit ELSE row.fit]

UpdateWrite(p) ==
    /\ pc[p] = "updWrite"
    /\ LET a == arg[p] IN
       /\ mem' = IF Present(a.id)
                   THEN [mem EXCEPT ![a.id] = Updated(mem[a.id], a)] ELSE mem
       /\ IF Present(a.id) /\ vecOn[p]
            THEN Goto(p, "updSync", [NoArg EXCEPT !.id = a.id, !.emb = a.emb,
                                                  !.clear = a.clear])
            ELSE Return(p)
    /\ UNCHANGED <<rel, vec, vecTable>>

\* Seeded fault: an embedding given to Update does not reach the shadow table.
UpdateSyncOnlyClears(p) ==
    /\ pc[p] = "updSync"
    /\ ShadowWrite(p, IF arg[p].clear
                        THEN [vec EXCEPT ![arg[p].id] = None] ELSE vec)
    /\ Return(p)
    /\ UNCHANGED <<mem, rel>>

\* The embedding of the shadow row after Update.  New content alone rewrites
\* only the row's copy of the content and keeps the embedding.
UpdateSync(p) ==
    /\ pc[p] = "updSync"
    /\ LET a == arg[p] IN
       ShadowWrite(p, IF a.clear \/ a.emb # None
                        THEN [vec EXCEPT ![a.id] = a.emb] ELSE vec)
    /\ Return(p)
    /\ UNCHANGED <<mem, rel>>

\* Seeded fault: Invalidate starts from a fresh metadata map.
InvalidateReadNothing(p) ==
    /\ Start(p, "invalidate")
    /\ \E i \in Ids, m \in Metas :
        Present(i) /\ Goto(p, "invWrite", [NoArg EXCEPT !.id = i, !.meta = m])
    /\ UNCHANGED <<mem, rel, vec, vecTable>>

\* Invalidate reads the metadata, then writes it back with the reason added.
InvalidateRead(p) ==
    /\ Start(p, "invalidate")
    /\ \E i \in Ids :
        /\ Present(i)
        /\ Goto(p, "invWrite", [NoArg EXCEPT !.id = i, !.meta = mem[i].meta])
    /\ UNCHANGED <<mem, rel, vec, vecTable>>

InvalidateWrite(p) ==
    /\ pc[p] = "invWrite"
    /\ LET i == arg[p].id IN
       IF Present(i)
         THEN /\ mem' = [mem EXCEPT ![i] = [status |-> "expired",
                            content |-> mem[i].content, emb |-> None,
                            meta |-> arg[p].meta, fit |-> mem[i].fit]]
              /\ IF vecOn[p] THEN Goto(p, "invSync", [NoArg EXCEPT !.id = i]) ELSE Return(p)
         ELSE mem' = mem /\ Return(p)
    /\ UNCHANGED <<rel, vec, vecTable>>

InvalidateSync(p) ==
    /\ pc[p] = "invSync"
    /\ ShadowWrite(p, [vec EXCEPT ![arg[p].id] = None])
    /\ Return(p)
    /\ UNCHANGED <<mem, rel>>

\* Seeded faults: Delete leaves the relations that target the memory, or the
\* shadow row.
DeleteTargetsNothing(p) ==
    /\ Start(p, "delete")
    /\ \E i \in Ids : Goto(p, "delRow", [NoArg EXCEPT !.id = i])
    /\ UNCHANGED <<mem, rel, vec, vecTable>>

DeleteSyncNothing(p) ==
    /\ pc[p] = "delSync"
    /\ Return(p)
    /\ UNCHANGED <<mem, rel, vec, vecTable>>

\* Delete: the relations that target the memory, then the memory, whose
\* foreign key takes the relations it is the source of, then its shadow row.
DeleteTargets(p) ==
    /\ Start(p, "delete")
    /\ \E i \in Ids :
        /\ rel' = {r \in rel : r[2] # i}
        /\ Goto(p, "delRow", [NoArg EXCEPT !.id = i])
    /\ UNCHANGED <<mem, vec, vecTable>>

DeleteRow(p) ==
    /\ pc[p] = "delRow"
    /\ LET i == arg[p].id IN
       IF Present(i)
         THEN /\ mem' = [mem EXCEPT ![i] = AbsentRow]
              /\ \E fk \in FkFlags :
                   rel' = IF fk THEN {r \in rel : r[1] # i} ELSE rel
              /\ IF vecOn[p] THEN Goto(p, "delSync", arg[p]) ELSE Return(p)
         ELSE UNCHANGED <<mem, rel>> /\ Return(p)
    /\ UNCHANGED <<vec, vecTable>>

DeleteSync(p) ==
    /\ pc[p] = "delSync"
    /\ ShadowWrite(p, [vec EXCEPT ![arg[p].id] = None])
    /\ Return(p)
    /\ UNCHANGED <<mem, rel>>

\* Seeded fault: the foreign key is not checked.
AddRelationUnchecked(p) ==
    /\ Start(p, "relate")
    /\ \E i, j \in Ids : rel' = rel \cup {<<i, j>>}
    /\ UNCHANGED <<mem, vec, vecTable>>
    /\ UNCHANGED procVars

\* One INSERT; only source_id is a foreign key (migration 007).
AddRelation(p) ==
    /\ Start(p, "relate")
    /\ \E i, j \in Ids, fk \in FkFlags :
        /\ fk => Present(i)
        /\ rel' = rel \cup {<<i, j>>}
    /\ UNCHANGED <<mem, vec, vecTable>>
    /\ UNCHANGED procVars

\* S is the set of memories that carry the given source.  Neither the
\* embedding nor the shadow row is touched.
SupersedeBySource(p) ==
    /\ Start(p, "supersede")
    /\ \E S \in SUBSET Ids :
        mem' = [i \in Ids |-> IF i \in S /\ mem[i].status = "valid"
                                THEN [mem[i] EXCEPT !.status = "expired"]
                                ELSE mem[i]]
    /\ UNCHANGED <<rel, vec, vecTable>>
    /\ UNCHANGED procVars

\* backfill-embeddings reads the valid memories without an embedding, then
\* for each calls the embedding model on the content it read and Update.
BackfillRead(p) ==
    /\ Start(p, "backfill")
    /\ LET rows == Rows({i \in Ids : mem[i].status = "valid" /\ mem[i].emb = None}) IN
       /\ rows # {}
       /\ todo' = [todo EXCEPT ![p] = rows]
    /\ pc' = [pc EXCEPT ![p] = "backfill"]
    /\ UNCHANGED <<mem, rel, vec, vecTable, arg, vecOn>>

\* Embed answers, and Update finds the memory; or either fails and the loop
\* goes on.
BackfillEmbed(p) ==
    /\ pc[p] = "backfill"
    /\ \E r \in todo[p] :
        /\ todo' = [todo EXCEPT ![p] = @ \ {r}]
        /\ \/ /\ Present(r[1])
              /\ pc' = [pc EXCEPT ![p] = "updWrite"]
              /\ arg' = [arg EXCEPT ![p] = [NoArg EXCEPT !.id = r[1], !.emb = r[2].content]]
           \/ /\ pc' = [pc EXCEPT ![p] = IF todo[p] = {r} THEN "idle" ELSE @]
              /\ arg' = arg
    /\ UNCHANGED <<mem, rel, vec, vecTable, vecOn>>

\* export writes the rows of some memories, which ones and how many the limit
\* decides.  Killed while it writes, it leaves a file import refuses: {}.
Export(p) ==
    /\ Start(p, "export")
    /\ \E S \in SUBSET {i \in Ids : Present(i)} : file' = Rows(S)
    /\ UNCHANGED <<mem, rel, vec, vecTable>>
    /\ UNCHANGED procVars

\* import reads and parses the whole file, then adds its entries one by one.
ImportRead(p) ==
    /\ Start(p, "import")
    /\ file # {}
    /\ todo' = [todo EXCEPT ![p] = file]
    /\ pc' = [pc EXCEPT ![p] = "import"]
    /\ UNCHANGED <<mem, rel, vec, vecTable, arg, vecOn>>

\* Seeded faults: an entry that fails ends the import; an entry replaces the
\* memory that has its id.
ImportEntryStops(p) ==
    /\ pc[p] = "import"
    /\ \E r \in todo[p] :
        LET fails == Present(r[1]) \/ ~r[2].fit
            left  == IF fails THEN {} ELSE todo[p] \ {r} IN
        /\ todo' = [todo EXCEPT ![p] = left]
        /\ mem' = IF fails THEN mem
                   ELSE [mem EXCEPT ![r[1]] = [r[2] EXCEPT !.status = "valid"]]
        /\ pc' = [pc EXCEPT ![p] = IF left = {} THEN "idle" ELSE @]
    /\ UNCHANGED <<rel, vec, vecTable, arg, vecOn>>

ImportEntryReplaces(p) ==
    /\ pc[p] = "import"
    /\ \E r \in todo[p] :
        /\ todo' = [todo EXCEPT ![p] = @ \ {r}]
        /\ mem' = [mem EXCEPT ![r[1]] = [r[2] EXCEPT !.status = "valid"]]
        /\ pc' = [pc EXCEPT ![p] = IF todo[p] = {r} THEN "idle" ELSE @]
    /\ UNCHANGED <<rel, vec, vecTable, arg, vecOn>>

\* One entry of ImportMemories: Add with all the row has but valid_until, or,
\* the entry refused, its id in use or the table locked, a warning and on to the
\* next entry.
ImportEntry(p) ==
    /\ pc[p] = "import"
    /\ \E r \in todo[p], added \in BOOLEAN :
        /\ IF added THEN r[2].fit /\ ~Present(r[1])
                    ELSE ~r[2].fit \/ Present(r[1]) \/ Contended(p)
        /\ todo' = [todo EXCEPT ![p] = @ \ {r}]
        /\ mem' = IF added THEN [mem EXCEPT ![r[1]] = [r[2] EXCEPT !.status = "valid"]]
                            ELSE mem
        /\ IF added /\ r[2].emb # None /\ vecOn[p]
             THEN /\ pc' = [pc EXCEPT ![p] = "addSync"]
                  /\ arg' = [arg EXCEPT ![p] = [NoArg EXCEPT !.id = r[1], !.emb = r[2].emb]]
             ELSE /\ pc' = [pc EXCEPT ![p] = IF todo[p] = {r} THEN "idle" ELSE @]
                  /\ arg' = arg
    /\ UNCHANGED <<rel, vec, vecTable, vecOn>>

\* A statement on memories meets the lock of another process: the operation
\* returns its error and stops half way.
LockedOut(p) ==
    /\ pc[p] \in {"updWrite", "invWrite", "delRow"}
    /\ Contended(p)
    /\ Return(p)
    /\ UNCHANGED <<mem, rel, vec, vecTable>>
-----------------------------------------------------------------------------
\* The steps of an operation already begun.
Continue(p) ==
    \/ CreateVec(p) \/ ReadEmbeddings(p) \/ PopulateRow(p) \/ AddSync(p)
    \/ UpdateWrite(p) \/ UpdateSync(p) \/ InvalidateWrite(p)
    \/ InvalidateSync(p) \/ DeleteRow(p) \/ DeleteSync(p) \/ BackfillEmbed(p)
    \/ ImportEntry(p)

\* What callers, the operating system and other processes may do.
Begin(p) ==
    \/ Open(p) \/ Close(p) \/ Crash(p) \/ InitVecFails(p) \/ LockedOut(p)
    \/ Add(p) \/ UpdateCheck(p) \/ InvalidateRead(p) \/ DeleteTargets(p)
    \/ AddRelation(p) \/ SupersedeBySource(p) \/ BackfillRead(p)
    \/ ImportRead(p)

Next == \E p \in Procs : \/ (Continue(p) \/ Begin(p)) /\ UNCHANGED file
                         \/ Export(p)

Spec == Init /\ [][Next]_vars
-----------------------------------------------------------------------------
(* Properties.                                                             *)

\* Add, Update and Invalidate never leave a memory with the embedding of a
\* content other than its own: new content comes with its embedding or
\* clears the old one in the same UPDATE (store.go:398-405).
EmbeddingFresh == \A i \in Ids : mem[i].emb \in {None, mem[i].content}

\* Whenever a process that has the vector index is between operations, every
\* valid memory with an embedding is in the index under that embedding: the
\* rebuild at open and the syncs of Add and Update keep up with the table.
ShadowComplete ==
    \A p \in Procs : pc[p] \in {"idle", "backfill", "import"} /\ vecOn[p] =>
        \A i \in Ids : mem[i].status = "valid" /\ mem[i].emb # None
                         => vec[i] = mem[i].emb

\* Nor does the index then name a memory that was deleted.
NoGhostRow ==
    \A p \in Procs : pc[p] \in {"idle", "backfill", "import"} /\ vecOn[p] =>
        \A i \in Ids : vec[i] # None => Present(i)

\* The foreign key of relations: no relation starts at a memory that is gone,
\* however Delete and AddRelation of different processes interleave.
SourcesExist == \A r \in rel : Present(r[1])

\* Delete "cascades to its relations": the step that removes a memory leaves
\* no relation from it or to it.
DeleteCascades ==
    [][\A i \in Ids : Present(i) /\ mem'[i].status = "absent" =>
          \A r \in rel' : i \notin {r[1], r[2]}]_vars

\* Invalidate adds its reason to the metadata and changes nothing else in it:
\* the metadata of a memory changes only by an Update that was given one.
MetadataKept ==
    [][\A i \in Ids :
          Present(i) /\ mem'[i].status # "absent" /\ mem'[i].meta # mem[i].meta =>
             \E p \in Procs : pc[p] = "updWrite" /\ arg[p].meta = mem'[i].meta]_vars

\* An import that comes to the end of its file has restored every memory the
\* export had put there, the store had lost since and the validation of
\* ImportMemories takes (store.go:1350-1387), although it skips the entries that
\* fail: one refused, or already in the store, never keeps another out.
ImportRestores ==
    [][\A p \in Procs : pc[p] = "import" /\ todo'[p] = {} /\ pc'[p] # "closed" =>
          \A r \in file : r[2].fit => mem'[r[1]].status # "absent"]_vars

\* The rows the memory table shows its readers follow the life cycle, whatever
\* the processes do: an expired memory never comes back.
Lifecycle == INSTANCE MemoryLifecycle
                 WITH status <- [i \in Ids |-> mem[i].status]

RefinesLifecycle == Lifecycle!Spec
=============================================================================
