# LLMem: a TLA+ model of the memory store, the dream cycle and the retriever

LLMem keeps memories for language-model agents in one SQLite file. Every
`llmem` command is a process of its own: it opens the file, runs a few store
operations and exits. Session hooks, a nightly timer and a person start such
processes side by side, and no operation of the store runs in a transaction.
What can go wrong is therefore not in a single function but between two SQL
statements of one: another process, a crash, a lock that was not obtained.
These modules follow the code statement by statement and say what survives.

## The system

| Component | State it keeps | Operations | Where it is hard |
|---|---|---|---|
| Memory store (`internal/store`) | tables `memories`, `relations`, `inbox`, `extraction_log` | Add, Update, Invalidate, Delete, AddRelation, SupersedeBySource, searches, export, import, Touch | several statements each, no transaction, several processes, crashes |
| Vector index (`initVecTable`, syncs in the store) | a shadow table `_vec_memories_vec`, a second copy of every embedding; `vecAvailable` per process | dropped and rebuilt at every open, synced after each write, errors dropped | the copy and the table part ways |
| Near-duplicate pairing (`ConsolidateDuplicates`) | none | greedy pairing over the rows read | order of the rows |
| Relation traversal (`TraverseRelations`, `Retriever.Search`) | none | recursive query, depth cap 5, then the limit | cycles, several paths, both directions |
| Dream cycle (`internal/dream`) | a snapshot of memories, a list of candidates, the relations read | decay, boost, merge, auto-link, each call by call | everything it read may be stale when it writes; call errors are dropped |
| Retriever (`internal/retriever`) | none beyond a call | text search, vector search in two statements, rank fusion, reranking, access tracking | fallbacks half way, ranks of absent memories, deletions in between |
| Home directory (`internal/paths`, `llmem init`) | `~/.lobsterdog`, `~/.config/llmem`: files and the database's log | choice of the home, copy of the legacy one | killed half way, database in use meanwhile |
| Embedding engine (`internal/embed`) | LRU cache of vectors behind a read/write lock | Embed through HTTP, by several goroutines | slow and failing service, eviction between two steps, vectors shared with callers |
| Metrics (`internal/metrics`), contexts (`FormatContext`) | none | statistics over vectors and labels; results as text cut to a budget | order of Go's maps, caps, cuts inside a character |
| Others | configuration, taxonomy, URL validation, systemd units, extraction, Ollama client, installer, plugins | | little or no state |

The components meet in the database file. The dream cycle, the backfill, the
retriever and the hooks call the store, mostly from different processes; the
retriever and the backfill call the embedding engine; all of them first ask
`paths` where the file is, which `init` may be moving.

What makes each component correct:

- store: an embedding belongs to the content beside it; a relation does not
  outlive its memories; an expired memory stays expired; a change of one
  column does not undo another.
- vector index: complete for the valid memories, and free of deleted ones.
- pairing and traversal: what the loop and the recursive query compute is
  what one would define without them.
- dream cycle: merging never loses the last of a group of duplicates, what was
  superseded can be traced, no pair is linked twice, a dry run writes nothing,
  the cycle ends.
- retriever: nothing found is dropped, the order agrees with both searches,
  what is expired stays out where the caller asks for that.
- embedding engine: a caller cannot tell that there is a cache, and a model that
  hangs blocks nobody else.
- metrics and contexts: each pair counts once; a text is cut between characters.
- home: no stored memory is erased by the move, and the new home never shows
  half of the legacy one.

## Modules

| Module | Models |
|---|---|
| `MemoryStore` | store operations and the vector index of several processes on one file |
| `MemoryLifecycle` | abstract: absent, valid, expired; what `MemoryStore` implements |
| `SoleOpener` | `MemoryStore`, with a note of who opened the file when nobody else had it open |
| `MemoryStoreProofs`, `SoleProofs` | theorems of `MemoryStore`: for any processes, and for one that has the file to itself |
| `Selection` | what loops pick out of a list, in its order |
| `Consolidate` | `ConsolidateDuplicates`, and the same without the loop; uses `Selection` |
| `ConsolidateProofs` | theorems about the pairing |
| `Dream` | dream cycles of several processes, users beside them; uses `Consolidate` |
| `DreamProofs` | theorems of `Dream`; uses `ConsolidateProofs` |
| `Traversal` | `TraverseRelations`, what `Retriever.Search` adds from it, shortest paths as reference; uses `Selection` |
| `Retriever` | one `HybridSearch` in its three modes, or one `SearchByEmbedding` |
| `RetrieverProofs` | theorems of `Retriever` |
| `FormatContext` | the text of search results, cut to a budget |
| `HomeMigration` | home directory, commands and `init` |
| `HomeMigrationProofs` | theorems of `HomeMigration` |
| `EmbedCache` | `EmbeddingEngine.Embed` with its cache, lock and slices |
| `EmbedService` | abstract: an answer for each call, no cache; what `EmbedCache` implements |
| `EmbedCacheProofs` | theorems of `EmbedCache` |
| `Metrics` | anisotropy, similarity range, discrimination gap, and the same over pairs; uses `Selection` |
| `AlgorithmsProofs` | theorems about `Traversal`, `Consolidate`, `FormatContext` and `Metrics`, on the inputs of `MCAlgorithms` |
| `MCMemoryStore`, `MCDream`, `MCRetriever`, `MCHomeMigration`, `MCEmbedCache`, `MCAlgorithms` | instances for TLC |

**MemoryStore.** `mem`, `rel` and `vec` are the tables, `vecTable` says whether
the shadow table exists. A process is a program counter `pc`, the parameters
and locals `arg` of its operation, the rows `todo` a loop has still to handle,
and `vecOn`, the field `vecAvailable`. An action is one SQL statement, or one
read with the decision taken on it: `Delete` is `DeleteTargets` (relations that
target the memory), `DeleteRow` (the row; the foreign key takes the relations it
is the source of) and `DeleteSync` (the shadow row). `Crash` may come between
any two, `LockedOut` ends an operation that meets another process's lock, and
`ShadowWrite` may then do nothing, because its errors are logged or dropped.
`Open` drops the shadow table, as the code does at every start; `CreateVec`,
`ReadEmbeddings` and `PopulateRow` rebuild it. An embedding is a function of the
content it was computed from and is written as that content, so a stale one
shows. Columns that no property tells apart are left out. `FkFlags` are the
values `PRAGMA foreign_keys` may have on the connection a statement gets: the
pragma is set on one connection, and the commands never use a second one.
`Export` writes the rows of any memories to `file`; `ImportRead` reads it into memory, and each
`ImportEntry` tries one entry, in any order: an id in use makes the insert fail
and the import goes on, and a row that is inserted has lost its `valid_until`.
`fit` says of a row whether it passes the import's validation, which `Update`
does not share: an update may leave it empty or with a confidence out of range.
The other things the validation looks at are taken to hold, for the rows of the
model come from `Add`: a registered type, an id and an embedding that are not too
long, and the same embedding model, hence dimension, on both sides.

**Dream.** One dreamer per `llmem dream`. Confidence counts in steps of 0.05.
Whether a memory is idle, a stale procedure or often accessed (`trait`), and how
similar two memories are (`score`), is fixed in a behaviour and free at its
start. The deep phase reads the memories once (`snap`) and writes from that
snapshot; the merge loop reads both memories (`ReadSource`, `ReadTarget`), then
writes twice (`InvalidateLoser`, `Supersede`); the linking loop reads the
existing relations once (`known`). `env`, one of `Envs` fixed in a behaviour,
says what else may happen: a user setting a confidence, invalidating or
deleting, crashes, calls that meet a lock, reads that fail (`ReadFails`, each
with what the code then does: stop, skip the pair, or, for the relations, drop
the error and link as if there were none).
`Invalidate` and `Update` are one action each here; their inner statements are
what `MemoryStore` is about. REM phase, diary and report only read.

**Retriever.** A behaviour is one call, on an arbitrary table: `bm25` is FTS5's
rank, `sim` the cosine similarity, `signal` the weighted rerank signal. Scores
are exact fractions in place of floating-point numbers. A search answers with any
list `Descending` in its score, for neither SQLite nor `sort.Slice` says how
equal scores lie; the fusion alone breaks ties, by id. `QueryVec` and
`QueryBrute` are the two ways of the first statement of `SearchByEmbedding`,
`FetchRows` is the second; `Delete` and `Expire` are another process in between.
The index is a table of its own (`index`, the similarity of each memory's row in
it): every open fills it from the valid memories alone and passes over a row it
cannot write, and new content leaves the old embedding in it, so that it may lack
any memory, expired or not, or have it with another similarity than the table.
`QueryBrute` reads any `MaxRows` of the rows asked for (10000, without an order).
That the index may name a memory deleted before the call is left out: such a row
takes a place in its answer as an expired one does.
`FtsOnly`, `HybridFallback`, `TextFails` and `SemanticFails` are the ways a call
takes when the embedder is missing or anything fails; `LikeSearch` is the text
search when its FTS5 query does, with any matches in any order. `HybridSearch`
always passes `validOnly = false`; the store's own `SearchByEmbedding`, as
programs that use the library may call it, is the mode "vector", where validity
and the threshold play their part. `FormatContext`, a module of its own, has texts
as sequences of the widths of their characters.

**HomeMigration.** A command resolves its home once, opens the database there,
adds memories (to the write-ahead log `wal`), and the last one to close folds
the log into the file. `init` runs `MigrateFromLobsterdog` file operation by
file operation: `MakeHome`, then for each file the checks and the read
(`StatConfig`; `StatDb`, `ReadDb`), the truncation (`CreateConfig`, `CreateDb`) and the
write (`WriteConfig`, `WriteDb`) of `os.WriteFile`. A file that is a symbolic
link, is not there, exists already or cannot be copied is passed over, and the
loop goes on to the next; `waived` notes that this happened to `config.yaml`.
`Settle` and `WriteDefault` write the default configuration unless there is one or,
with `--force`, over it (`waived` again), and `GoOn` opens the database. `KillInit`
leaves a file being written as far as it was written, and so does an error of
`WriteDb`. `LMEM_HOME`, which names a home outright, is taken to be unset; diary and
`context/` are copied like `config.yaml` and left out.

**EmbedCache.** A goroutine is a program counter, the text it asked for, the
slice it holds (`val`) and the one its last call returned (`out`). Vectors are
slices, so they are addresses in a `heap`: a caller that writes into its vector
(`Overwrite`) writes wherever that slice is also referred to. The vector of a
text is written as the text. `ReadLock`, `Get`, `Answer` or `RequestFails`,
`Lock`, `Add` and `Copy` are the steps of `Embed`; between them any other
goroutine may run. Which entry the LRU library evicts is left open, and what
nothing refers to is collected at once, so that addresses are reused.

**Consolidate, Traversal, Metrics.** Pure operators, with recursive functions in
place of the loops and of the recursive query, each beside a definition that
does not follow the algorithm. `Picked` and `PairUp` are the inner and the outer
loop of the pairing; `Levels` is the recursive query, level by level. In `Metrics` similarities are numbers, averages exact
fractions, and the order in which Go's map yields the labels is an argument.

Definitions commented "Seeded fault" are plausible mistakes in one definition
(a dropped guard, a swapped pair, a missing reset); nothing uses them. They
record which mistake each property would catch: put in place of the definition
they follow, they make TLC refute it.

## Runs

| Run | Bounds | What it shows |
|---|---|---|
| `store_sole` | 1 process, 2 memories, 2 contents, 2 metadata values, every operation | `TypeOK`; `EmbeddingFresh`, `ShadowComplete`, `NoGhostRow` (index against table), `DeleteCascades`, `MetadataKept`, `ImportRestores` and `RefinesLifecycle`, over any sequence of commands and crashes |
| `store_shared` | 2 processes, 2 memories, 1 content | in every interleaving `SourcesExist`, `RefinesLifecycle`: the table implements `MemoryLifecycle`, and `ReopenRepairs`: whatever the processes did to the shadow table, one that opens the file alone has a complete index |
| `dream_one` | 1 dreamer, 3 memories; undisturbed, or with confidence edits, locks and crashes; fair | `ClusterSurvives`, `NoDuplicateLinks`, `SupersededTraceable` over any number of cycles, `CycleEnds` |
| `dream_two` | 2 dreamers, 2 memories, users invalidating and deleting, failing reads, crashes | `TypeOK`, `SupersededExpired`, `BelowFloorInvalidated`, `DryRunWritesNothing` |
| `home` | 1 process at a time, 3 memories, kills anywhere | `TypeOK`, `NothingErased`, `MigratedWhole`, `ConfigFirst` |
| `search` | 3 memories, ranks and similarities 0 to 2, signals 0 and 1, limits 2 and 3, thresholds 1 and 2, an index that agrees with the table or not, a scan of 2 rows at most (`MaxRows`) | `TypeOK`, `NothingDropped`, `FusionMonotone`, `AlphaEnds`, `ValidOnly`, `CrowdedOut` on every table and every call |
| `embed` | 2 goroutines, 3 texts, a cache of 2, 6 addresses; fair | `TypeOK`, `CacheTrue`, `RefinesService` (implements `EmbedService`), `NobodyLockedOut`, `CallsReturn` |
| `algorithms` | up to 3 relations of 2 types between 4 memories, depth cap 2 asked for 1 to 3; every similarity of 5 memories; up to 4 vectors of 3 labels, any number of labels, caps 0 to 4; one or two lines (`MaxLines`) of up to 3 characters of 1 to 4 bytes, every budget | `WalksShortest`, `RelatedWithinLimit`, `PairsFirstCome`, `MetricsByPairs`, `CapInSync`, `WholeRunes` |

Why the bounds are enough. A race in the store needs two processes and one
memory, or two memories when a relation is involved. Two contents tell a fresh
embedding from a stale one. `store_shared` drops `Update`, export, import and the
second content because its properties look at the presence and validity of
memories and at which of them the index has. `ExportBound` follows a behaviour
with an export only while there is no relation and one metadata value: the
properties of relations and metadata do not look at the file. The pairing of
three memories has a kept one with two partners and a chain over two cycles.
`dream_one` decays and boosts (`trait`) only in undisturbed cycles (`SplitSpec`):
merging does not look at what they do besides the confidence, which users
change freely in the others. Two dreamers race on one pair, so two memories do.
Confidence needs a value below, at and above the floor; the model's range 0 to 3
or 4 has them. Three memories fit into two result lists that overlap in any way,
with a limit that cuts. What a call does not look at (alpha outside the hybrid
mode, the validity of memories outside the mode "vector", and so on: `Needed` and
`Looked` in `MCRetriever`) has one value; that is a bound of the run, and the
theorems are about every value; the index differs from the table in the mode
"vector". Three texts and a cache of two make every answer evict;
two goroutines meet at every point of `Embed`, and six addresses are as many as
two entries, two calls and two results can refer to. A scan of two rows reads a
table of three in part and one of two whole. In `algorithms` three
relations make every cycle, fork and double path up to the depth cap; the cap is
2 there instead of 5 so that the cap is met. Three labels tell an order of the
map from another. Behaviours are unbounded in length in all runs but `search`
and `algorithms`, whose state ends by itself: a call, and the last edge.

`CHECK_DEADLOCK FALSE` is said in those two, where the system stops because the
call has returned or the input is complete.

Fairness. `dream_one` assumes weak fairness of `Step(d)`, the steps of a cycle
already begun. The loops of `deepPhase` wait for nothing but SQLite, whose calls
return, so the operating system's scheduling of a running process is all it
takes. `embed` assumes weak fairness of each goroutine's own steps, which is the
Go scheduler's, and strong fairness of taking the lock: `sync.RWMutex` keeps new
readers out while a writer waits and lets the waiting readers in before the next
writer, so nobody waits for ever. Nothing says that the model answers:
`NobodyLockedOut` does without, and `CallsReturn` assumes it in its own words,
for the HTTP client has a timeout. Beginning a cycle or a call, users and crashes
have no fairness.

### Disagreements

Four runs show the code doing something else than its documentation says.

- `find_delete_race`: `Delete` "cascades to its relations" (store.go:516), but a
  relation another process adds after the first DELETE targets a memory that is
  gone; `target_id` is not a foreign key since migration 007.
- `find_floor`: with the default settings the decayed confidence is clamped to
  the floor it is then compared with (dream.go:285), so "Memories below this are
  invalidated" (DREAM.md:73) never happens. With a decay floor below the
  confidence floor the sentence holds (`dream_two`).
- `find_home_overwrite`: the copy of `memory.db` is decided on a check made
  before it (paths.go:289), and overwrites a database created in between.
- `find_bm25_order`: `ORDER BY rank DESC` (store.go:582) puts the worst matches
  first and, with a limit, leaves out the best.

Others were met while modelling and are visible in the modules, without a run of
their own:

- new content without an embedding leaves the shadow row with the embedding of
  the old content (store.go:465; `UpdateSync`);
- two processes undo each other's metadata: `Invalidate` writes back what it
  read (store.go:500; `MetadataKept` with two processes);
- the errors of the two writes of a merge are dropped, so one may happen without
  the other when a lock is met (dream.go:339-345; `SupersededExpired` with
  "lock" in `env`);
- two dream cycles at once can merge both memories of a pair into each other, or
  link a pair twice (dream.go:336, 355; `ClusterSurvives` and
  `NoDuplicateLinks` with two dreamers); a cycle whose read of the relations
  fails links every pair again (dream.go:360; "readfail" in `env`);
- the REM phase "produces type counts, word clusters" (DREAM.md:11), but words
  get the places that types leave of a limit which is itself cut to the number
  of types (dream.go:423, 475): none is left, and no word is ever shown;
- `init` killed after making the new home is never completed, and what only the
  log of a database in use holds is not copied (paths.go:259, 325): the
  memories stay in the legacy home, where no command looks any more;
- a hybrid search does not apply the type to what only the embedding search
  found (retriever.go:424, against 364), returns up to twice its limit, and with
  alpha 0, "pure FTS" (retriever.go:258), still appends what only the embedding
  search found;
- following relations of two types repeats a memory (store.go:1085,
  retriever.go:224);
- an import drops `valid_until` (store.go:1389): what was exported as expired and
  deleted since is valid after it;
- the import skips invalid entries, as it should (SECURITY.md:60), but `Update`
  checks neither content nor confidence (store.go:394-396, 414-416): a memory that it
  left empty or with a confidence above 1 is exported and, once deleted, not
  brought back (`fit`; `ImportRestores` claims the others), and a confidence of 0
  comes back as the default (store.go:1380);
- with the index, a search for valid memories may return fewer than its limit,
  or none, although there are more: expired memories take the places
  (store.go:812; `CrowdedOut` says that nothing else does);
- with the index, a search that does not ask for valid memories only finds the
  expired ones that were valid when the process opened the store, and no others
  (store.go:1671), while the search without it finds all; and without it a table
  of more than 10000 rows is read in part, in no order (store.go:859): what is
  most similar may be missing (`CrowdedOut` bounds how much);
- "Truncates to budget characters" (retriever.go:451; API.md:1042, "chars"): the
  text is cut at that many bytes, so that one with longer characters ends
  earlier (`WholeRunes` says that it is cut nowhere else);
- a failed or skipped copy of `config.yaml` is logged and the database moved all the
  same, without its configuration (paths.go:293; `waived` in `ConfigFirst`);
- "if the file exists but is malformed, returns an error" (config.go:92):
  `LoadConfig` logs a warning and returns the defaults, overwritten by what was
  parsed before the mistake;
- an empty list of labels, where there are more vectors than the cap, cuts every
  vector away, and all metrics are 0 (metrics.go:189-197);
- `truncateToValidUTF8` would split a first character wider than the budget
  (retriever.go:125); the lines of a context begin with one of one byte, so that
  it never does (`WholeRunes`).

## Proofs

What TLC shows on an instance, these theorems show for any sets of memories,
contents, processes, dreamers, texts and goroutines. The assumptions on constants
are `ASSUME`s of the modules, which the runs evaluate; what a theorem needs
besides stands in its statement.

| Module | Theorems | Assumed |
|---|---|---|
| `MemoryStoreProofs` | `TypeCorrect`, `ImplementsLifecycle` | |
| | `SourcesAlwaysExist` | foreign keys on (`FALSE \notin FkFlags`) |
| | `EmbeddingAlwaysFresh` | no backfill (`"backfill" \notin Ops`) |
| `SoleProofs` | `ReopenAlwaysRepairs` | |
| | `IndexAlwaysComplete`, `IndexNeverGhosts`, `EmbeddingFreshAlone`, `MetadataAlwaysKept`, `ImportAlwaysRestores` | one process at a time |
| | `DeleteAlwaysCascades` | one process at a time, foreign keys on |
| `ConsolidateProofs` | `PairsApart` | |
| | `PairsAreFirstCome` | every memory is one row |
| `DreamProofs` | `TypeCorrect`, `DryRunAlwaysClean` | |
| | `SupersededAlwaysExpired` | no call meets a lock |
| | `AlwaysInvalidated` | no call meets a lock, decay floor below the confidence floor |
| | `NeverLinkedTwice` | one dreamer at a time, whose reads succeed |
| | `ClusterAlwaysSurvives`, `SupersededAlwaysTraceable` | `MergesAlone`: one dreamer at a time, no user who expires or deletes, decay floor not below the confidence floor |
| `RetrieverProofs` | `TypeCorrect`, `NoneDropped`, `EndsOfAlpha`, `Monotone`, `OnlyValid`, `OnlyCrowdedOut` | |
| `AlgorithmsProofs` | `AlwaysShortest`, `AlwaysWithinLimit`, `AlwaysFirstCome`, `NeverOutOfStep`, `AlwaysByPairs`, `AlwaysWholeRunes` | |
| `HomeMigrationProofs` | `TypeCorrect` | |
| | `NothingEverErased`, `AlwaysMigratedWhole`, `ConfigAlwaysFirst` | one process at a time |
| `EmbedCacheProofs` | `TypeCorrect`, `CacheAlwaysTrue`, `ImplementsService` | |

None of these can be dropped (of no backfill and one process, either is enough for
an embedding to be fresh): without it the disagreements above, or a memory
that a user expires, make the statement false (`AlwaysInvalidated` in particular
does not hold of the default settings, whose two floors are equal: `find_floor`).
`PairsAreFirstCome` needs its hypothesis, which the primary key gives. "One process at a time" includes
any number of them one after the other, with crashes anywhere.

**MemoryStore.** The inductive invariant is `TypeInv`: the tables (`TablesOK`) and
the processes (`ProcsOK`) have their types, and `HasId`: whoever is between two
statements of an operation knows which memory it works on, and `Invalidate` has
metadata it read. `TypeOK` alone is not inductive, for a statement in the middle
of an operation could then write the NULL that stands for "parameter not given"
where the table has none. `TypeInv` is shown step by step, the opening of the
store, the statements that write the tables, and the others, one lemma each.
`SourcesExist` is inductive over `TypeInv` and needs only the steps that change
the tables (`TableSteps`). `EmbeddingFresh` is strengthened by `ArgFresh`: an
update in progress carries the embedding of the content it carries. The backfill
writes an embedding computed from content it read long before, so that the
theorem leaves it out; `EmbeddingFreshAlone` has it, for one process.
`ImplementsLifecycle` maps the table to `[i \in Ids |-> mem[i].status]`;
`MemSteps` says that a step leaves `mem` alone, expires a set of valid memories,
or changes one row, and each of these is a step of `MemoryLifecycle` or stutters.

**The index.** Whoever has the file to itself is in one of the states of
`Indexed`, which `IndexInv` says of a single process and `AloneInv` of the process
`alone` points at, all others being closed. It says of a process that is opening the store that the
shadow table is empty, then agrees with the table but for the rows still in
`todo` (`Rebuilding`), and of one that has opened it that the two differ only at
the memory whose sync is due (`UpToDate`), and that this sync will put it right
(`SyncRight`). A crash closes the store and leaves nothing to show: the next
process starts over. `ReopenAlwaysRepairs` rests on the opening alone: nothing is
assumed of the shadow table it finds, for its first statement drops it.

**One process.** What an operation read or did in one statement still holds at the
next (`OperationInv`): the metadata that `Invalidate` writes back is what the row
has, and no relation targets the memory that `Delete` is about to remove. Of the
loops, `LoopInv`: a backfill finds its rows with the content it read, and its
update carries the embedding of that content; an import has put in the store, or
has still to come to, every memory of its file that its validation accepts. Each lemma takes one kind of
operation; most steps end a loop or are outside any (`NoLoop`).

**Consolidate.** The pairing is two nested recursive functions over sequences.
The library's induction theorems take an operator, which the provers cannot
instantiate; the induction on the rows is therefore said with sets: one that
contains 0 and, with each number, the next, has them all (`UpTo`, from the least
element that would be missing), and that a recursive function exists is shown
the same way (`Recursion`). The invariant of the loop, `Found`: pairs are similar,
both of their memories are `seen`, and no memory is on both sides. For
`PairsAreFirstCome` it says what the pairs are (`Scanned`): after the k-th row, the
pairs are those the definition without the loop has for a first row up to k
(`Taken`), and what is seen is what these pairs have.

**Dream.** `TypeInv` adds to `TypeOK` what the lists of candidates and of rows hold
at each label; `PairsApart` gives the type of the candidates. A superseded memory
is expired because between the two writes of a merge it already is
(`LoserExpired`) and nothing makes a memory valid again. What is decayed from
below the confidence floor stays below it (`BelowStaysBelow`), so the loop leaves
a memory behind only expired or gone (`LeftByDecay`). A dry run writes nothing
because whoever is about to write was told to apply (`Writers`). `LinksKnown`: the
linker knows every pair linked so far. For the clusters, `MergeReads` says that
what a merge has read still holds when it writes, and `Chains` that following
merges from any set of expired memories leads out of it; expiring one more memory
for one that stays valid keeps such chains (`OneMore`).

**Retriever.** `TypeInv` adds to `TypeOK` that the lists name each memory once and
which stage goes with which mode (`Stages`). `Merged` says where the results of a
hybrid search come from: the fusion of both lists, or, after a fallback, of the
text search alone. From there on the theorems are about fractions: a rank is a
position or one more than the length, the score is decreasing in both ranks
(strictly in one whose weight is not 0), and a list sorted by it has to have the one
memory before the other. `ValidInv` follows the expired memories through the two
statements of `SearchByEmbedding`: with the index they may be among the ids found,
and are left out with the rows. `LeftOut` says of a memory that the first
statement did not find that as many as the limit are ahead of it in what was
searched, the index (`CutOff`: a list cut at the limit leaves out only what that many
are ahead of) or the table; it is stated apart from `CrowdedOut` because the second
statement shortens the list. `ScanLeaves`: a scan that may not read the whole table
finds all but as many similar memories as it leaves unread, or fills the list.

**Algorithms.** The only invariant is what the inputs are (`Inputs`); what is left
are facts about recursive functions, by the induction of `ConsolidateProofs`.
`AlwaysShortest`: what the recursive query reaches at level d are the ends of walks
of d steps from the starts (`WalkFollowsPaths`, from `PathStarts` and `PathGrows`);
the least level at which a memory appears is therefore one more than the distance of the
nearest neighbour over that type of relation (`FirstReached`, `DistanceIs`). The
neighbour may be a start, and the query may walk in cycles; neither matters for the
least level. `AlwaysWithinLimit`: a list picked from the rows is cut at what is left
of the limit (`AddedWithin`). `AlwaysWholeRunes`: the offsets of characters rise
(`OffsetsRise`), so the greatest one within the budget is where the next character
would go past it (`CutWhole`); as long as all characters up to it are of one byte,
an offset is the number of characters before it (`OffsetsCount`); and a text whose
lines begin with a character of one byte never leaves the walk back without an
offset. `AlwaysByPairs`: a sum over
a finite set is one from which any element may be taken out (`Totals`, `SumRun`, by
`Grow`, the induction over subsets), so it does not change when its terms get
other names (`SumMoved`). The loops visit ordered pairs, the definition counts
sets of two; `Orients` says that each set has one of its two orders: those of the
loop over all vectors (`AllOriented`), within the labels (`SameOriented`) and between
them (`OthersOriented`), where the order is that of the list of labels
(`ListOrders`), whatever it is.

**HomeMigration.** `HomeInv`: before the move the new home is empty
(`BeforeMove`), while init copies nobody else writes and what it has read is what
the legacy home holds (`Copying`), and afterwards nobody writes to the legacy home
(`AfterMove`). That init gets to `memory.db` only once `config.yaml` is copied or
`waived` is the part of `Copying` that `ConfigAlwaysFirst` rests on.

**EmbedCache.** `IInv`: a goroutine holds a slice with the vector of its text from
the answer, or the hit, to the copy, although the cache may have dropped it
(`Held`), and the slice a caller was given is referred to by nobody else
(`Private`): the two copies that `Embed` makes are what `Private` rests on. The
refinement maps the texts asked for and the contents of the slices returned to
`EmbedService`; every step but the call, the failure, the copy and the caller's
own write stutters.

Only model-checked: liveness (`CycleEnds`, `NobodyLockedOut`, `CallsReturn`), which
needs ENABLED.

## Not modelled

- How the rerank signals are computed from age and accesses (exponentials and
  logarithms of real numbers): they are free numbers in `Retriever`.
- `Touch`, `RegisterMemoryType`, the inbox and the extraction log: no command
  calls them, and no other table depends on them. `SupersedeBySource`, which the
  log goes with, is modelled.
- Reads that only print: get, list, stats, counts, the REM phase, diary and
  report.
- Extraction engine, Ollama client: one HTTP call each and the parsing of its
  answer, no state. `CheckAvailable` and the pulling of models likewise.
- URL validation, path validation, taxonomy, systemd units: stateless
  predicates on strings, tables and templates.
- Configuration: only that `config.yaml` is written unless it exists or `--force` is
  given.
- Schema migrations: run by a library; the schema they leave is assumed. What
  matters of it is that `relations.target_id` is no foreign key.
- Installer, plugins, skills: scripts and documents around the command line.
- FTS5, sqlite-vec and SQLite itself: external. A statement is atomic, may fail
  on a lock, and what it wrote is durable. The k-NN query returns the nearest
  first. The text index is kept by triggers, in the statement that writes the
  row, and so is the table itself; `rebuildFTSIfEmpty` is left out with it.

## Plan

What is left, in this order:

1. The decay of one cycle as a theorem for locked calls too: what was read below
   the floor is invalidated or the call failed.
2. The extraction hook, once a command calls it: log, `SupersedeBySource` and the
   additions that follow as one operation in several statements.
