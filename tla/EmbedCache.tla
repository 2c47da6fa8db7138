----------------------------- MODULE EmbedCache -----------------------------
(***************************************************************************)
(* EmbeddingEngine.Embed (internal/embed) as the goroutines of a program    *)
(* call it: a cache behind a read/write lock, the embedding model behind    *)
(* HTTP, and the vectors, which are Go slices and therefore references.     *)
(*                                                                          *)
(* The vector of a text is written as the text.  Which entry the LRU cache  *)
(* evicts is the library's choice, and open here.                           *)
(***************************************************************************)
EXTENDS Integers, FiniteSets

CONSTANTS
    Texts,
    Threads,
    Slices,           \* addresses of vectors; enough for all that are alive
    MaxCacheSize,     \* of the configuration
    DefaultMaxCache,  \* taken when MaxCacheSize is not positive (2048)
    None,             \* no text, no slice, no vector
    WrongDim,         \* a vector of another dimension than configured
    Overwritten       \* a vector its caller wrote into

ASSUME ValuesAssumption ==
    /\ None \notin Texts \cup Slices \cup {WrongDim, Overwritten}
    /\ {WrongDim, Overwritten} \cap Texts = {}
    /\ WrongDim # Overwritten

ASSUME SlicesAssumption == Slices \subseteq Nat
ASSUME SizeAssumption == MaxCacheSize \in Int /\ DefaultMaxCache \in Nat \ {0}

VARIABLES
    cache,     \* slice cached for each text
    heap,      \* vector in each slice; None when nothing refers to it
    pc, text,  \* where each goroutine is, and the text it asked for
    val,       \* slice it holds meanwhile: `val` or `result.Embedding`
    out,       \* slice its last call returned
    readers, writer   \* holders of the lock

vars == <<cache, heap, pc, text, val, out, readers, writer>>

\* No slice anything refers to ever has a vector of the wrong dimension.
Vectors == Texts \cup {Overwritten}

TypeOK ==
    /\ cache \in [Texts -> Slices \cup {None}]
    /\ heap \in [Slices -> Vectors \cup {None}]
    /\ pc \in [Threads -> {"idle", "rlock", "get", "request", "lock", "add", "copy"}]
    /\ text \in [Threads -> Texts \cup {None}]
    /\ val \in [Threads -> Slices \cup {None}]
    /\ out \in [Threads -> Slices \cup {None}]
    /\ readers \subseteq Threads
    /\ writer \in Threads \cup {None}

\* NewEmbeddingEngine.  The LRU library refuses a size that is not positive.
CacheSize == IF MaxCacheSize <= 0 THEN DefaultMaxCache ELSE MaxCacheSize

Init ==
    /\ cache = [x \in Texts |-> None]
    /\ heap = [s \in Slices |-> None]
    /\ pc = [t \in Threads |-> "idle"]
    /\ text = [t \in Threads |-> None]
    /\ val = [t \in Threads |-> None]
    /\ out = [t \in Threads |-> None]
    /\ readers = {} /\ writer = None

Cached == {x \in Texts : cache[x] # None}

\* The slices something refers to, and the garbage collector on the others.
Live == ({cache[x] : x \in Texts} \cup {val[t] : t \in Threads}
            \cup {out[t] : t \in Threads}) \ {None}

Collect(h) == heap' = [s \in Slices |-> IF s \in Live' THEN h[s] ELSE None]

\* make: which free slice it is makes no difference, so the least.
Fresh == {s \in Slices \ Live : \A r \in Slices \ Live : s <= r}

Goto(t, from, to) == pc[t] = from /\ pc' = [pc EXCEPT ![t] = to]
-----------------------------------------------------------------------------
\* A goroutine calls Embed; it lets go of the vector of its last call.
Call(t) ==
    /\ Goto(t, "idle", "rlock")
    /\ \E x \in Texts : text' = [text EXCEPT ![t] = x]
    /\ out' = [out EXCEPT ![t] = None]
    /\ UNCHANGED <<cache, val, readers, writer>>
    /\ Collect(heap)

\* Seeded fault: the lock is taken for the whole call, the request included.
ReadLockWhole(t) ==
    /\ Goto(t, "rlock", "get")
    /\ \A u \in Threads : pc[u] \in {"idle", "rlock"}
    /\ readers' = readers \cup {t}
    /\ UNCHANGED <<cache, heap, text, val, out, writer>>

\* A writer that waits keeps new readers out.
ReadLock(t) ==
    /\ Goto(t, "rlock", "get")
    /\ writer = None /\ \A u \in Threads : pc[u] # "lock"
    /\ readers' = readers \cup {t}
    /\ UNCHANGED <<cache, heap, text, val, out, writer>>

\* The lookup and RUnlock.  What was found is copied without the lock.
Get(t) ==
    /\ Goto(t, "get", IF text[t] \in Cached THEN "copy" ELSE "request")
    /\ val' = [val EXCEPT ![t] = cache[text[t]]]
    /\ readers' = readers \ {t}
    /\ UNCHANGED <<cache, heap, text, out, writer>>

\* Seeded fault: a call whose request fails starts over.
RequestFailsRetries(t) ==
    /\ Goto(t, "request", "rlock")
    /\ UNCHANGED <<cache, heap, text, val, out, readers, writer>>

\* The request fails, times out or is cancelled, or its answer has another
\* status, is no JSON, is empty, or has the wrong dimension.
RequestFails(t) ==
    /\ Goto(t, "request", "idle")
    /\ text' = [text EXCEPT ![t] = None]
    /\ UNCHANGED <<cache, heap, val, out, readers, writer>>

\* Seeded fault: the dimension is not checked.
AnswerAny(t) ==
    /\ Goto(t, "request", "lock")
    /\ \E s \in Fresh, v \in {text[t], WrongDim} :
        /\ val' = [val EXCEPT ![t] = s]
        /\ heap' = [heap EXCEPT ![s] = v]
    /\ UNCHANGED <<cache, text, out, readers, writer>>

\* The answer is decoded into a new slice.
Answer(t) ==
    /\ Goto(t, "request", "lock")
    /\ \E s \in Fresh :
        /\ val' = [val EXCEPT ![t] = s]
        /\ heap' = [heap EXCEPT ![s] = text[t]]
    /\ UNCHANGED <<cache, text, out, readers, writer>>

Lock(t) ==
    /\ Goto(t, "lock", "add")
    /\ writer = None /\ readers = {}
    /\ writer' = t
    /\ UNCHANGED <<cache, heap, text, val, out, readers>>

\* cache.Add and Unlock.  A new entry evicts one when the cache is full.
Add(t) ==
    /\ Goto(t, "add", "copy")
    /\ LET x == text[t]
           full == x \notin Cached /\ Cardinality(Cached) >= CacheSize
       IN \E evicted \in IF full THEN Cached ELSE {None} :
            cache' = [y \in Texts |-> IF y = x THEN val[t]
                                      ELSE IF y = evicted THEN None ELSE cache[y]]
    /\ writer' = None
    /\ UNCHANGED <<text, val, out, readers>>
    /\ Collect(heap)

\* Seeded fault: the slice in the cache itself is returned.
CopyNothing(t) ==
    /\ Goto(t, "copy", "idle")
    /\ out' = [out EXCEPT ![t] = val[t]]
    /\ text' = [text EXCEPT ![t] = None]
    /\ val' = [val EXCEPT ![t] = None]
    /\ UNCHANGED <<cache, readers, writer>>
    /\ Collect(heap)

\* Both ways of Embed end with a copy "to prevent mutation".
Copy(t) ==
    /\ Goto(t, "copy", "idle")
    /\ \E s \in Fresh :
        /\ out' = [out EXCEPT ![t] = s]
        /\ text' = [text EXCEPT ![t] = None]
        /\ val' = [val EXCEPT ![t] = None]
        /\ UNCHANGED <<cache, readers, writer>>
        /\ Collect([heap EXCEPT ![s] = heap[val[t]]])

\* "Callers MUST NOT modify the returned slice", but they may.
Overwrite(t) ==
    /\ out[t] # None
    /\ heap' = [heap EXCEPT ![out[t]] = Overwritten]
    /\ UNCHANGED <<cache, pc, text, val, out, readers, writer>>
-----------------------------------------------------------------------------
\* What Embed does by itself, and what the model does for it.
OwnStep(t) == ReadLock(t) \/ Get(t) \/ Lock(t) \/ Add(t) \/ Copy(t)
ModelStep(t) == Answer(t) \/ RequestFails(t)

Next == \E t \in Threads : Call(t) \/ Overwrite(t) \/ OwnStep(t) \/ ModelStep(t)

\* A goroutine goes on, and one that waits for the lock gets it: RWMutex lets
\* the readers that wait in before the next writer, and keeps new readers out
\* while a writer waits.  The model need not answer.
Fairness == \A t \in Threads : /\ WF_vars(OwnStep(t))
                               /\ SF_vars(ReadLock(t)) /\ SF_vars(Lock(t))

Spec == Init /\ [][Next]_vars /\ Fairness
-----------------------------------------------------------------------------
(* Properties.                                                              *)

\* The cache never answers with anything but the model's vector for the text,
\* whatever callers do with the vectors they were given, and however calls for
\* one text, evictions and copies overlap.
CacheTrue == \A x \in Cached : heap[cache[x]] = x

\* The engine implements the service without a cache: a caller cannot tell a
\* hit from a miss, nor what other callers do with their vectors.
Service == INSTANCE EmbedService
               WITH asked <- text,
                    reply <- [t \in Threads |->
                                 IF out[t] = None THEN None ELSE heap[out[t]]]

RefinesService == Service!Spec

\* A model that hangs keeps nobody else waiting: whatever other goroutines
\* wait for, a call returns or gets as far as its own request.
NobodyLockedOut ==
    \A t \in Threads : pc[t] # "idle" ~> pc[t] \in {"idle", "request"}

\* Every request ends, for the client has a timeout; then every call returns.
CallsReturn ==
    (\A t \in Threads : WF_vars(ModelStep(t)))
        => \A t \in Threads : text[t] # None ~> text[t] = None
=============================================================================
