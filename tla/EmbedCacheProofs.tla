-------------------------- MODULE EmbedCacheProofs --------------------------
(***************************************************************************)
(* Theorems of EmbedCache: for any texts, any number of goroutines and any *)
(* cache size the cache answers truly, and the engine implements the       *)
(* service without a cache.                                                *)
(***************************************************************************)
EXTENDS EmbedCache, TLAPS

(* What a goroutine holds between its steps: a text during a call, and from *)
(* the answer, or the hit, on a slice with the vector of that text.  The    *)
(* cache may have dropped that slice since; nobody writes into it.          *)
Held == \A t \in Threads :
    /\ pc[t] = "idle" <=> text[t] = None
    /\ pc[t] \in {"idle", "rlock", "get", "request"} => val[t] = None
    /\ pc[t] \in {"lock", "add", "copy"} => val[t] # None /\ heap[val[t]] = text[t]

(* The slice a caller was given is nobody else's.                          *)
Private == \A t \in Threads : out[t] # None =>
    /\ heap[out[t]] \in Vectors
    /\ \A x \in Texts : cache[x] # out[t]
    /\ \A u \in Threads : val[u] # out[t] /\ (u # t => out[u] # out[t])

IInv == TypeOK /\ CacheTrue /\ Held /\ Private

(* A slice that make returns was referred to by nothing.                   *)
LEMMA FreshFree ==
    ASSUME NEW s \in Fresh
    PROVE  /\ s \in Slices /\ s # None
           /\ \A x \in Texts : cache[x] # s
           /\ \A t \in Threads : val[t] # s /\ out[t] # s
  <1>1. s \in Slices /\ s \notin Live
    BY DEF Fresh
  <1>2. s # None
    BY <1>1, ValuesAssumption
  <1>3. QED
    BY <1>1, <1>2 DEF Live

(* The garbage collector leaves what is still referred to.                 *)
LEMMA Collected ==
    ASSUME TypeOK, NEW h \in [Slices -> Vectors \cup {None}], Collect(h),
           TypeOK' \/ (cache' \in [Texts -> Slices \cup {None}]
                         /\ val' \in [Threads -> Slices \cup {None}]
                         /\ out' \in [Threads -> Slices \cup {None}])
    PROVE  /\ heap' \in [Slices -> Vectors \cup {None}]
           /\ \A x \in Texts : cache'[x] # None => heap'[cache'[x]] = h[cache'[x]]
           /\ \A t \in Threads : val'[t] # None => heap'[val'[t]] = h[val'[t]]
           /\ \A t \in Threads : out'[t] # None => heap'[out'[t]] = h[out'[t]]
  <1>1. heap' = [s \in Slices |-> IF s \in Live' THEN h[s] ELSE None]
    BY DEF Collect
  <1>2. \A x \in Texts : cache'[x] # None => cache'[x] \in Live' \cap Slices
    BY DEF Live, TypeOK
  <1>3. \A t \in Threads : val'[t] # None => val'[t] \in Live' \cap Slices
    BY DEF Live, TypeOK
  <1>4. \A t \in Threads : out'[t] # None => out'[t] \in Live' \cap Slices
    BY DEF Live, TypeOK
  <1>5. QED
    BY <1>1, <1>2, <1>3, <1>4

LEMMA IInvInit == Init => IInv
  BY DEF Init, IInv, TypeOK, CacheTrue, Held, Private, Cached

(* The steps that refer to no new slice and write into none.               *)
LEMMA QuietKeepsIInv ==
    ASSUME IInv, NEW t \in Threads,
           Call(t) \/ ReadLock(t) \/ RequestFails(t) \/ Lock(t)
    PROVE  IInv'
  <1> USE DEF IInv
  <1>1. CASE Call(t)
    <2>1. PICK x \in Texts : text' = [text EXCEPT ![t] = x]
      BY <1>1 DEF Call
    <2>2. /\ pc[t] = "idle" /\ pc' = [pc EXCEPT ![t] = "rlock"]
          /\ out' = [out EXCEPT ![t] = None]
          /\ UNCHANGED <<cache, val, readers, writer>>
          /\ Collect(heap)
      BY <1>1 DEF Call, Goto
    <2>3. /\ heap' \in [Slices -> Vectors \cup {None}]
          /\ \A y \in Texts : cache[y] # None => heap'[cache[y]] = heap[cache[y]]
          /\ \A u \in Threads : val[u] # None => heap'[val[u]] = heap[val[u]]
          /\ \A u \in Threads : out'[u] # None => heap'[out'[u]] = heap[out'[u]]
      BY <2>2, Collected DEF TypeOK
    <2>4. x # None
      BY ValuesAssumption
    <2>5. TypeOK'
      BY <2>1, <2>2, <2>3 DEF TypeOK
    <2>6. CacheTrue'
      BY <2>2, <2>3 DEF CacheTrue, Cached
    <2>7. Held'
      BY <2>1, <2>2, <2>3, <2>4 DEF TypeOK, Held
    <2>8. Private'
      BY <2>2, <2>3 DEF TypeOK, Private
    <2>9. QED
      BY <2>5, <2>6, <2>7, <2>8
  <1>2. CASE ReadLock(t) \/ Lock(t)
    <2>1. /\ UNCHANGED <<cache, heap, text, val, out>>
          /\ \/ pc[t] = "rlock" /\ pc' = [pc EXCEPT ![t] = "get"]
             \/ pc[t] = "lock" /\ pc' = [pc EXCEPT ![t] = "add"]
      BY <1>2 DEF ReadLock, Lock, Goto
    <2>2. TypeOK'
      BY <1>2, <2>1 DEF ReadLock, Lock, TypeOK
    <2>3. CacheTrue' /\ Private'
      BY <2>1 DEF CacheTrue, Cached, Private
    <2>4. Held'
      BY <2>1 DEF TypeOK, Held
    <2>5. QED
      BY <2>2, <2>3, <2>4
  <1>3. CASE RequestFails(t)
    <2>1. /\ UNCHANGED <<cache, heap, val, out, readers, writer>>
          /\ text' = [text EXCEPT ![t] = None]
          /\ pc[t] = "request" /\ pc' = [pc EXCEPT ![t] = "idle"]
      BY <1>3 DEF RequestFails, Goto
    <2>2. TypeOK' /\ CacheTrue' /\ Private'
      BY <2>1 DEF TypeOK, CacheTrue, Cached, Private
    <2>3. Held'
      BY <2>1 DEF TypeOK, Held
    <2>4. QED
      BY <2>2, <2>3
  <1>4. QED
    BY <1>1, <1>2, <1>3

(* A hit refers to the slice of the cache, a miss to none.                 *)
LEMMA GetKeepsIInv ==
    ASSUME IInv, NEW t \in Threads, Get(t)
    PROVE  IInv'
  <1> USE DEF IInv
  <1>1. /\ UNCHANGED <<cache, heap, text, out, writer>>
        /\ val' = [val EXCEPT ![t] = cache[text[t]]]
        /\ readers' = readers \ {t}
        /\ pc[t] = "get"
        /\ pc' = [pc EXCEPT ![t] = IF text[t] \in Cached THEN "copy" ELSE "request"]
    BY DEF Get, Goto
  <1>2. text[t] \in Texts
    BY <1>1 DEF TypeOK, Held
  <1>3. TypeOK' /\ CacheTrue'
    BY <1>1, <1>2 DEF TypeOK, CacheTrue, Cached
  <1>4. Held'
    <2>1. text[t] \in Cached => cache[text[t]] # None /\ heap[cache[text[t]]] = text[t]
      BY DEF CacheTrue, Cached
    <2>2. text[t] \notin Cached => cache[text[t]] = None
      BY <1>2 DEF Cached
    <2>3. QED
      BY <1>1, <2>1, <2>2 DEF TypeOK, Held
  <1>5. Private'
    BY <1>1, <1>2 DEF TypeOK, Private
  <1>6. QED
    BY <1>3, <1>4, <1>5

(* The answer comes in a slice of its own.                                 *)
LEMMA AnswerKeepsIInv ==
    ASSUME IInv, NEW t \in Threads, Answer(t)
    PROVE  IInv'
  <1> USE DEF IInv
  <1>1. PICK s \in Fresh : /\ val' = [val EXCEPT ![t] = s]
                           /\ heap' = [heap EXCEPT ![s] = text[t]]
    BY DEF Answer
  <1>2. /\ UNCHANGED <<cache, text, out, readers, writer>>
        /\ pc[t] = "request" /\ pc' = [pc EXCEPT ![t] = "lock"]
    BY DEF Answer, Goto
  <1>3. text[t] \in Texts
    BY <1>2 DEF TypeOK, Held
  <1>4. TypeOK'
    BY <1>1, <1>2, <1>3, FreshFree DEF TypeOK, Vectors
  <1>5. CacheTrue'
    BY <1>1, <1>2, FreshFree DEF TypeOK, CacheTrue, Cached
  <1>6. Held'
    <2>1. \A u \in Threads \ {t} : val'[u] = val[u] /\ pc'[u] = pc[u] /\ val[u] # s
      BY <1>1, <1>2, FreshFree DEF TypeOK
    <2>2. \A u \in Threads \ {t} : val[u] # None => heap'[val[u]] = heap[val[u]]
      BY <1>1, <2>1 DEF TypeOK
    <2>3. val'[t] = s /\ s # None /\ heap'[s] = text[t] /\ pc'[t] = "lock"
      BY <1>1, <1>2, FreshFree DEF TypeOK
    <2>4. QED
      BY <1>2, <2>1, <2>2, <2>3 DEF Held
  <1>7. Private'
    BY <1>1, <1>2, FreshFree DEF TypeOK, Private
  <1>8. QED
    BY <1>4, <1>5, <1>6, <1>7

(* The cache takes the slice of the answer, and may drop another.          *)
LEMMA AddKeepsIInv ==
    ASSUME IInv, NEW t \in Threads, Add(t)
    PROVE  IInv'
  <1> USE DEF IInv
  <1>1. PICK evicted : cache' = [y \in Texts |-> IF y = text[t] THEN val[t]
                                   ELSE IF y = evicted THEN None ELSE cache[y]]
    BY DEF Add
  <1>2. /\ UNCHANGED <<text, val, out, readers>> /\ writer' = None
        /\ pc[t] = "add" /\ pc' = [pc EXCEPT ![t] = "copy"]
        /\ Collect(heap)
    BY DEF Add, Goto
  <1>3. text[t] \in Texts /\ val[t] \in Slices /\ val[t] # None /\ heap[val[t]] = text[t]
    BY <1>2 DEF TypeOK, Held
  <1>4. cache' \in [Texts -> Slices \cup {None}]
    BY <1>1, <1>3 DEF TypeOK
  <1>5. /\ heap' \in [Slices -> Vectors \cup {None}]
        /\ \A y \in Texts : cache'[y] # None => heap'[cache'[y]] = heap[cache'[y]]
        /\ \A u \in Threads : val[u] # None => heap'[val[u]] = heap[val[u]]
        /\ \A u \in Threads : out[u] # None => heap'[out[u]] = heap[out[u]]
    BY <1>2, <1>4, Collected DEF TypeOK
  <1>6. TypeOK'
    BY <1>2, <1>4, <1>5 DEF TypeOK
  <1>7. CacheTrue'
    BY <1>1, <1>3, <1>5 DEF CacheTrue, Cached
  <1>8. Held'
    BY <1>2, <1>5 DEF TypeOK, Held
  <1>9. Private'
    <2>1. \A y \in Texts : cache'[y] \in {val[t], None, cache[y]}
      BY <1>1
    <2>2. QED
      BY <1>2, <1>3, <1>5, <2>1 DEF Private
  <1>10. QED
    BY <1>6, <1>7, <1>8, <1>9

(* What the caller is given is a copy.                                     *)
LEMMA CopyKeepsIInv ==
    ASSUME IInv, NEW t \in Threads, Copy(t)
    PROVE  /\ IInv'
           /\ text' = [text EXCEPT ![t] = None]
           /\ out'[t] # None /\ heap'[out'[t]] = text[t]
           /\ \A u \in Threads \ {t} : out'[u] = out[u]
           /\ \A u \in Threads \ {t} : out[u] # None => heap'[out[u]] = heap[out[u]]
  <1> USE DEF IInv
  <1>1. PICK s \in Fresh : /\ out' = [out EXCEPT ![t] = s]
                           /\ Collect([heap EXCEPT ![s] = heap[val[t]]])
    BY DEF Copy
  <1>2. /\ UNCHANGED <<cache, readers, writer>>
        /\ text' = [text EXCEPT ![t] = None]
        /\ val' = [val EXCEPT ![t] = None]
        /\ pc[t] = "copy" /\ pc' = [pc EXCEPT ![t] = "idle"]
    BY <1>1 DEF Copy, Goto
  <1> DEFINE h == [heap EXCEPT ![s] = heap[val[t]]]
  <1>3. text[t] \in Texts /\ val[t] \in Slices /\ heap[val[t]] = text[t]
    BY <1>2 DEF TypeOK, Held
  <1>4. s \in Slices /\ s # None
    BY FreshFree
  <1>5. h \in [Slices -> Vectors \cup {None}] /\ h[s] = text[t]
    BY <1>3, <1>4 DEF TypeOK
  <1>6. \A r \in Slices : r # s => h[r] = heap[r]
    BY <1>4 DEF TypeOK
  <1> HIDE DEF h
  <1>7. /\ heap' \in [Slices -> Vectors \cup {None}]
        /\ \A y \in Texts : cache[y] # None => heap'[cache[y]] = h[cache[y]]
        /\ \A u \in Threads : val'[u] # None => heap'[val'[u]] = h[val'[u]]
        /\ \A u \in Threads : out'[u] # None => heap'[out'[u]] = h[out'[u]]
    <2>1. /\ cache' \in [Texts -> Slices \cup {None}]
          /\ val' \in [Threads -> Slices \cup {None}]
          /\ out' \in [Threads -> Slices \cup {None}]
      BY <1>1, <1>2, <1>4 DEF TypeOK
    <2>2. Collect(h)
      BY <1>1 DEF h
    <2>3. QED
      BY <1>2, <1>5, <2>1, <2>2, Collected
  <1>8. TypeOK'
    BY <1>1, <1>2, <1>4, <1>7 DEF TypeOK
  <1>9. CacheTrue'
    BY <1>2, <1>6, <1>7, FreshFree DEF TypeOK, CacheTrue, Cached
  <1>10. Held'
    <2>1. \A u \in Threads \ {t} : val'[u] = val[u] /\ pc'[u] = pc[u] /\ text'[u] = text[u]
      BY <1>2 DEF TypeOK
    <2>2. \A u \in Threads \ {t} : val[u] # None => heap'[val[u]] = heap[val[u]]
      BY <1>6, <1>7, <2>1, FreshFree DEF TypeOK
    <2>3. val'[t] = None /\ pc'[t] = "idle" /\ text'[t] = None
      BY <1>2 DEF TypeOK
    <2>4. QED
      BY <2>1, <2>2, <2>3 DEF Held
  <1>11. out'[t] = s /\ \A u \in Threads \ {t} : out'[u] = out[u] /\ out[u] # s
    BY <1>1, FreshFree DEF TypeOK
  <1>12. heap'[s] = text[t]
    BY <1>4, <1>5, <1>7, <1>11
  <1>13. \A u \in Threads \ {t} : out[u] # None => heap'[out[u]] = heap[out[u]]
    BY <1>6, <1>7, <1>11 DEF TypeOK
  <1>14. Private'
    <2>1. \A u \in Threads : val'[u] \in {None, val[u]}
      BY <1>2 DEF TypeOK
    <2>2. ASSUME NEW u \in Threads, out'[u] # None, u # t
          PROVE  /\ heap'[out'[u]] \in Vectors
                 /\ \A x \in Texts : cache'[x] # out'[u]
                 /\ \A w \in Threads : val'[w] # out'[u] /\ (w # u => out'[w] # out'[u])
      BY <1>2, <1>11, <1>13, <2>1, <2>2 DEF Private
    <2>3. /\ heap'[out'[t]] \in Vectors
          /\ \A x \in Texts : cache'[x] # out'[t]
          /\ \A w \in Threads : val'[w] # out'[t] /\ (w # t => out'[w] # out'[t])
      BY <1>2, <1>3, <1>4, <1>11, <1>12, <2>1, FreshFree DEF Vectors
    <2>4. QED
      BY <2>2, <2>3 DEF Private
  <1>15. QED
    BY <1>2, <1>4, <1>8, <1>9, <1>10, <1>11, <1>12, <1>13, <1>14

(* A caller writes into a slice that is nobody else's.                     *)
LEMMA OverwriteKeepsIInv ==
    ASSUME IInv, NEW t \in Threads, Overwrite(t)
    PROVE  IInv'
  <1> USE DEF IInv
  <1>1. /\ out[t] # None
        /\ heap' = [heap EXCEPT ![out[t]] = Overwritten]
        /\ UNCHANGED <<cache, pc, text, val, out, readers, writer>>
    BY DEF Overwrite
  <1>2. \A r \in Slices : r # out[t] => heap'[r] = heap[r]
    BY <1>1 DEF TypeOK
  <1>3. TypeOK'
    BY <1>1 DEF TypeOK, Vectors
  <1>4. CacheTrue'
    BY <1>1, <1>2 DEF TypeOK, CacheTrue, Cached, Private
  <1>5. Held'
    BY <1>1, <1>2 DEF TypeOK, Held, Private
  <1>6. Private'
    BY <1>1 DEF TypeOK, Private, Vectors
  <1>7. QED
    BY <1>3, <1>4, <1>5, <1>6

LEMMA IInvNext == IInv /\ [Next]_vars => IInv'
  <1> SUFFICES ASSUME IInv, [Next]_vars PROVE IInv'
    OBVIOUS
  <1>1. CASE UNCHANGED vars
    BY <1>1 DEF vars, IInv, TypeOK, CacheTrue, Cached, Held, Private
  <1>2. ASSUME NEW t \in Threads, Call(t) \/ Overwrite(t) \/ OwnStep(t) \/ ModelStep(t)
        PROVE  IInv'
    BY <1>2, QuietKeepsIInv, GetKeepsIInv, AnswerKeepsIInv, AddKeepsIInv,
       CopyKeepsIInv, OverwriteKeepsIInv DEF OwnStep, ModelStep
  <1>3. QED
    BY <1>1, <1>2 DEF Next

LEMMA Invariant == Spec => []IInv
  BY IInvInit, IInvNext, PTL DEF Spec

(* Every variable keeps its type: among others no slice anybody can reach  *)
(* ever has a vector of the wrong dimension.                               *)
THEOREM TypeCorrect == Spec => []TypeOK
  <1>1. IInv => TypeOK
    BY DEF IInv
  <1>2. QED
    BY <1>1, Invariant, PTL

(* The cache never has another vector for a text than the model's, for any *)
(* number of goroutines, whatever they do with the vectors they are given. *)
THEOREM CacheAlwaysTrue == Spec => []CacheTrue
  <1>1. IInv => CacheTrue
    BY DEF IInv
  <1>2. QED
    BY <1>1, Invariant, PTL

-----------------------------------------------------------------------------
(* What the callers see of a step.                                         *)
Answered == [t \in Threads |-> IF out[t] = None THEN None ELSE heap[out[t]]]

LEMMA CallAsks ==
    ASSUME IInv, NEW t \in Threads, Call(t)
    PROVE  Service!Ask(t)
  <1> USE DEF IInv
  <1>1. PICK x \in Texts : text' = [text EXCEPT ![t] = x]
    BY DEF Call
  <1>2. /\ pc[t] = "idle" /\ out' = [out EXCEPT ![t] = None]
        /\ UNCHANGED <<cache, val>> /\ Collect(heap)
    BY DEF Call, Goto
  <1>3. text[t] = None
    BY <1>2 DEF Held
  <1>4. \A u \in Threads : out'[u] # None => heap'[out'[u]] = heap[out'[u]]
    BY <1>2, Collected DEF TypeOK
  <1>5. Answered' = [Answered EXCEPT ![t] = None]
    BY <1>2, <1>4 DEF TypeOK, Answered
  <1>6. QED
    BY <1>1, <1>3, <1>5 DEF Service!Ask, Answered

LEMMA InnerStepsUnseen ==
    ASSUME IInv, NEW t \in Threads,
           ReadLock(t) \/ Get(t) \/ Answer(t) \/ Lock(t) \/ Add(t)
    PROVE  UNCHANGED <<text, Answered>>
  <1> USE DEF IInv
  <1>1. CASE ReadLock(t) \/ Get(t) \/ Lock(t)
    BY <1>1 DEF ReadLock, Get, Lock, Answered
  <1>2. CASE Answer(t)
    <2>1. PICK s \in Fresh : heap' = [heap EXCEPT ![s] = text[t]]
      BY <1>2 DEF Answer
    <2>2. \A u \in Threads : out[u] # None => heap'[out[u]] = heap[out[u]]
      BY <2>1, FreshFree DEF TypeOK
    <2>3. QED
      BY <1>2, <2>2 DEF Answer, Answered
  <1>3. CASE Add(t)
    <2>1. UNCHANGED <<text, val, out>> /\ Collect(heap)
      BY <1>3 DEF Add
    <2>2. TypeOK'
      BY <1>3, AddKeepsIInv
    <2>3. \A u \in Threads : out'[u] # None => heap'[out'[u]] = heap[out'[u]]
      BY <2>1, <2>2, Collected DEF TypeOK
    <2>4. QED
      BY <2>1, <2>3 DEF Answered
  <1>4. QED
    BY <1>1, <1>2, <1>3

LEMMA ReturnsReply ==
    ASSUME IInv, NEW t \in Threads, RequestFails(t) \/ Copy(t)
    PROVE  Service!Reply(t)
  <1> USE DEF IInv
  <1>1. pc[t] \in {"request", "copy"}
    BY DEF RequestFails, Copy, Goto
  <1>2. text[t] # None
    BY <1>1 DEF Held
  <1>3. CASE RequestFails(t)
    <2>1. text' = [text EXCEPT ![t] = None] /\ Answered' = Answered
      BY <1>3 DEF RequestFails, Answered
    <2>2. QED
      BY <1>2, <2>1 DEF Service!Reply, Answered
  <1>4. CASE Copy(t)
    <2>1. Answered' = [Answered EXCEPT ![t] = text[t]]
      <3>1. /\ out'[t] # None /\ heap'[out'[t]] = text[t]
            /\ \A u \in Threads \ {t} : out'[u] = out[u]
            /\ \A u \in Threads \ {t} : out[u] # None => heap'[out[u]] = heap[out[u]]
        BY <1>4, CopyKeepsIInv
      <3>2. QED
        BY <3>1 DEF Answered
    <2>2. text' = [text EXCEPT ![t] = None]
      BY <1>4, CopyKeepsIInv
    <2>3. QED
      BY <1>2, <2>1, <2>2 DEF Service!Reply, Answered
  <1>5. QED
    BY <1>3, <1>4

LEMMA OverwriteSeenByOne ==
    ASSUME IInv, NEW t \in Threads, Overwrite(t)
    PROVE  Service!Overwrite(t)
  <1> USE DEF IInv
  <1>1. /\ out[t] # None /\ UNCHANGED <<text, out>>
        /\ heap' = [heap EXCEPT ![out[t]] = Overwritten]
    BY DEF Overwrite
  <1>2. heap[out[t]] # None
    BY <1>1, ValuesAssumption DEF Private, Vectors
  <1>3. Answered' = [Answered EXCEPT ![t] = Overwritten]
    BY <1>1 DEF TypeOK, Answered, Private
  <1>4. QED
    BY <1>1, <1>2, <1>3 DEF Service!Overwrite, Answered

(* The engine is the service without a cache, for any number of goroutines  *)
(* and texts: an answer is the model's vector for the text asked for, and   *)
(* changes only when the caller it was given to writes into it.             *)
THEOREM ImplementsService == Spec => RefinesService
  <1>1. Init => Service!Init
    BY DEF Init, Service!Init
  <1>2. IInv /\ [Next]_vars => [Service!Next]_<<text, Answered>>
    <2> SUFFICES ASSUME IInv, [Next]_vars
                 PROVE  Service!Next \/ UNCHANGED <<text, Answered>>
      OBVIOUS
    <2>1. CASE UNCHANGED vars
      BY <2>1 DEF vars, Answered
    <2>2. ASSUME NEW t \in Threads, Call(t) \/ Overwrite(t) \/ OwnStep(t) \/ ModelStep(t)
          PROVE  Service!Next \/ UNCHANGED <<text, Answered>>
      BY <2>2, CallAsks, InnerStepsUnseen, ReturnsReply, OverwriteSeenByOne
         DEF OwnStep, ModelStep, Service!Next
    <2>3. QED
      BY <2>1, <2>2 DEF Next
  <1>3. QED
    BY <1>1, <1>2, Invariant, PTL
       DEF Spec, RefinesService, Service!Spec, Service!vars, Answered
=============================================================================
