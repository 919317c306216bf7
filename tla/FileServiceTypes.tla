--------------------------- MODULE FileServiceTypes ---------------------------
(***************************************************************************)
(* Type correctness of FileService, for any sets of ids, requests and      *)
(* sweepers, any limits and any clock resolution, and what follows from it *)
(* alone: that handlers and sweeps only ever go forward.                   *)
(***************************************************************************)
EXTENDS FileService, FileRecordProofs

USE DEF PutObject, DeleteObject, HasObject, Insert, DeleteRow, HasRow,
        CacheHit, CacheSet, CacheDelete, Publish

(* An upload is given an expiry. *)
LEMMA ExpiryForType ==
    ASSUME NEW ttl \in TTLs, now \in Nat
    PROVE  /\ ExpiryFor(ttl, DefaultTTL, now) \in Expiries
           /\ \/ ExpiryFor(ttl, DefaultTTL, now) = Never
              \/ ExpiryFor(ttl, DefaultTTL, now) > now
  BY ServiceAssumption DEF ExpiryFor, Expiries, Never

(* The members of the enumerations, so that proofs need not expand them. *)
LEMMA Names ==
    /\ {"idle", "done"} \subseteq PCs
    /\ {"put", "insert", "discard", "rollback", "cacheNew", "publishNew"} \subseteq PCs
    /\ {"cacheGet", "getByID", "fill", "check", "open"} \subseteq PCs
    /\ {"deleteGet", "eraseBlob", "eraseCache", "eraseRow", "publishGone"} \subseteq PCs
    /\ "list" \in PCs
    /\ {"ok", "notFound", "tooLarge", "error", "drained"} \subseteq Replies
    /\ NoMeta \in Meta
  BY DEF PCs, Replies, NoMeta, Meta, Expiries

(* The fields of a record. *)
LEMMA MetaFields ==
    ASSUME NEW m \in Meta
    PROVE  m.exp \in Expiries /\ m.size \in Nat
  BY DEF Meta

(* An actor between two calls knows which file it works on.  TypeOK alone   *)
(* is not inductive: the history sets would take in None.                   *)
HasFile == \A p \in Actors : pc[p] \notin {"idle", "done", "list"} => file[p] \in Ids

(* The types hold at the start. *)
LEMMA TypeInit == Init => TypeOK /\ HasFile
  BY ServiceAssumption
     DEF Init, TypeOK, HasFile, PCs, NoMeta, Meta, Expiries, Never, Actors

(* Entering a handler keeps the types. *)
LEMMA TypeStart ==
    ASSUME TypeOK, NEW p \in Reqs, ReqStart(p)
    PROVE  TypeOK'
  <1> USE DEF TypeOK, Begin, Answer, Free, PCs, Replies, Actors,
              backends, call, sweep, history, NoMeta, Meta
  <1>0. Never \in Expiries
    BY DEF Expiries
  <1>1. ASSUME NEW size \in Sizes, RejectUpload(p, size)
        PROVE  TypeOK'
    BY <1>0, <1>1 DEF RejectUpload
  <1>2. ASSUME NEW ttl \in TTLs, NEW size \in Sizes, NEW declared \in {size, Unknown},
               StartUpload(p, ttl, size, declared)
        PROVE  TypeOK'
    <2> DEFINE exp == ExpiryFor(ttl, DefaultTTL, now)
    <2>1. exp \in Expiries /\ size \in Nat
      BY ExpiryForType, ServiceAssumption
    <2> HIDE DEF exp
    <2>2. PICK id \in Ids :
            /\ promised' = [promised EXCEPT ![id] = exp]
            /\ Begin(p, "upload", id, [exp |-> exp, size |-> size], "put")
      BY <1>2 DEF StartUpload, exp
    <2>3. late' \subseteq Reqs /\ UNCHANGED <<landed, acked, requested, deleted>>
      BY <1>2 DEF StartUpload
    <2>4. [exp |-> exp, size |-> size] \in Meta
      BY <2>1
    <2> QED
      BY <2>1, <2>2, <2>3, <2>4
  <1>3. ASSUME NEW o \in {"metadata", "download"}, NEW id \in Ids, StartLookup(p, o, id)
        PROVE  TypeOK'
    BY <1>0, <1>3 DEF StartLookup
  <1>4. ASSUME NEW id \in Ids, StartDelete(p, id)
        PROVE  TypeOK'
    BY <1>0, <1>4 DEF StartDelete
  <1>5. ReqStart(p)
    OBVIOUS
  <1> QED
    BY ONLY <1>1, <1>2, <1>3, <1>4, <1>5 DEF ReqStart

(* A request's steps keep them. *)
LEMMA TypeReqStep ==
    ASSUME TypeOK, HasFile, NEW p \in Reqs, ReqStep(p)
    PROVE  TypeOK'
  <1> USE DEF TypeOK, Goto, Take, Answer, Mishap, Succeeds, Fails, LosesReply, Actors,
              backends, call, sweep, history
  <1> USE Names
  <1>0. pc[p] \notin {"idle", "done", "list"} => file[p] \in Ids
    BY DEF HasFile
  <1>1. CASE UploadPut(p)
    <2>1. meta[p].size \in Nat
      BY MetaFields
    <2>2. store' \in [Ids -> Nat \cup {None}]
      BY <1>1, <2>1 DEF UploadPut
    <2>3. /\ pc' \in [Actors -> PCs]
          /\ meta' \in [Actors -> Meta]
          /\ reply' \in [Actors -> Replies \cup {None}]
          /\ mishaps' \in Nat
      BY <1>1 DEF UploadPut
    <2> QED
      BY <1>1, <2>2, <2>3 DEF UploadPut
  <1>2. CASE UploadInsert(p)
    <2>1. [meta[p] EXCEPT !.exp = AsTimestamp(@)] \in Meta
      BY AsTimestampType DEF Meta
    <2>2. UNCHANGED <<now, store, cache, events, call, cancelled, sweep,
                      promised, acked, requested, deleted, late>>
      BY <1>2 DEF UploadInsert
    <2>3. /\ pc' \in [Actors -> PCs]
          /\ mishaps' \in Nat
          /\ UNCHANGED <<meta, reply>>
      BY <1>2 DEF UploadInsert
    <2>4. db' \in [Ids -> Meta \cup {None}]
      BY <1>2, <2>1 DEF UploadInsert
    <2>5. landed' \subseteq Ids
      BY <1>0, <1>2 DEF UploadInsert
    <2> QED
      BY <2>2, <2>3, <2>4, <2>5
  <1>3. CASE UploadUndo(p)
    BY <1>3 DEF UploadUndo
  <1>4. CASE UploadCache(p)
    BY <1>4 DEF UploadCache
  <1>5. CASE UploadPublish(p)
    BY <1>0, <1>5 DEF UploadPublish
  <1>6. CASE LookupCache(p)
    BY <1>0, <1>6 DEF LookupCache
  <1>7. CASE LookupRow(p)
    BY <1>0, <1>7 DEF LookupRow
  <1>8. CASE LookupFill(p)
    BY <1>8 DEF LookupFill
  <1>9. CASE LookupCheck(p)
    BY <1>9 DEF LookupCheck
  <1>10. CASE DownloadOpen(p)
    BY <1>10 DEF DownloadOpen
  <1>11. CASE DeleteGet(p)
    BY <1>0, <1>11 DEF DeleteGet, DeleteReturns
  <1>12. CASE EraseBlob(p)
    BY <1>12 DEF EraseBlob
  <1>13. CASE EraseCache(p)
    BY <1>13 DEF EraseCache
  <1>14. CASE EraseRow(p)
    BY <1>0, <1>14 DEF EraseRow, DeleteReturns
  <1>15. CASE DeletePublish(p)
    BY <1>0, <1>15 DEF DeletePublish, DeleteReturns
  <1> QED
    BY <1>1, <1>2, <1>3, <1>4, <1>5, <1>6, <1>7, <1>8, <1>9, <1>10, <1>11, <1>12,
       <1>13, <1>14, <1>15 DEF ReqStep

(* Going on with a batch keeps them. *)
LEMMA TypeAdvance ==
    ASSUME TypeOK, NEW s \in Sweepers, NEW rest \in SUBSET Ids, NEW n \in Nat,
           Advance(s, rest, n)
    PROVE  /\ pc' \in [Actors -> PCs]
           /\ file' \in [Actors -> Ids \cup {None}]
           /\ meta' \in [Actors -> Meta]
           /\ reply' \in [Actors -> Replies \cup {None}]
           /\ todo' \in [Sweepers -> SUBSET Ids]
           /\ purged' \in [Sweepers -> Nat]
  <1> USE Names DEF TypeOK, Goto, Answer, Actors
  <1>1. CASE NextRow(s, rest, n)
    BY <1>1 DEF NextRow
  <1>2. CASE rest = {} /\ EndOfBatch(s, n < Batch)
    BY <1>2 DEF EndOfBatch
  <1> QED
    BY <1>1, <1>2 DEF Advance

(* A sweep's steps keep them. *)
LEMMA TypeSweep ==
    ASSUME TypeOK, NEW s \in Sweepers, StartSweep(s) \/ SweepStep(s)
    PROVE  TypeOK'
  <1> USE DEF TypeOK, Goto, Answer, Mishap, Succeeds, Fails, LosesReply, Actors,
              backends, call, sweep, history
  <1> USE Names
  <1>1. CASE StartSweep(s)
    BY <1>1 DEF StartSweep
  <1>2. CASE PurgeList(s)
    <2>1. CASE Fails(s)
               /\ Answer(s, "error") /\ UNCHANGED <<file, todo, purged, due>>
      BY <1>2, <2>1 DEF PurgeList
    <2>2. ASSUME Succeeds(s), due' = [due EXCEPT ![s] = @ \cup ExpiredRows],
                 NEW page \in Pages(ExpiredRows), Advance(s, page, 0)
          PROVE  TypeOK'
      <3>1. page \in SUBSET Ids /\ ExpiredRows \subseteq Ids
        BY DEF Pages, ExpiredRows
      <3> QED
        BY <1>2, <2>2, <3>1, TypeAdvance DEF PurgeList
    <2> QED
      BY <1>2, <2>1, <2>2 DEF PurgeList
  <1>3. CASE EraseBlob(s)
    BY <1>3 DEF EraseBlob
  <1>4. CASE EraseCache(s)
    BY <1>4 DEF EraseCache
  <1>5. CASE EraseRow(s)
    BY <1>5 DEF EraseRow, DeleteReturns
  <1>6. CASE PurgePublish(s)
    <2>1. todo[s] \in SUBSET Ids /\ purged[s] + 1 \in Nat
      OBVIOUS
    <2>2. Advance(s, todo[s], purged[s] + 1)
      BY <1>6 DEF PurgePublish
    <2>3. /\ pc' \in [Actors -> PCs]
          /\ file' \in [Actors -> Ids \cup {None}]
          /\ meta' \in [Actors -> Meta]
          /\ reply' \in [Actors -> Replies \cup {None}]
          /\ todo' \in [Sweepers -> SUBSET Ids]
          /\ purged' \in [Sweepers -> Nat]
      BY <2>1, <2>2, TypeAdvance
    <2>4. events' \in [Ids -> SUBSET {"uploaded", "deleted", "expired"}] /\ mishaps' \in Nat
      BY <1>6 DEF PurgePublish
    <2> HIDE DEF Publish
    <2> QED
      BY <1>6, <2>3, <2>4 DEF PurgePublish
  <1> QED
    BY <1>1, <1>2, <1>3, <1>4, <1>5, <1>6 DEF SweepStep

(* The environment's steps keep them. *)
LEMMA TypeEnvironment ==
    ASSUME TypeOK, Environment
    PROVE  TypeOK'
  <1> USE Names DEF TypeOK, Mishap, backends, call, sweep, history
  <1>1. CASE Tick
    BY <1>1 DEF Tick
  <1>2. ASSUME NEW id \in Ids, Evict(id)
        PROVE  TypeOK'
    BY <1>2 DEF Evict
  <1>3. ASSUME NEW p \in Actors, Cancel(p)
        PROVE  TypeOK'
    BY <1>3 DEF Cancel
  <1>4. ASSUME NEW dead \in SUBSET Actors, Crash(dead)
        PROVE  TypeOK'
    BY <1>4 DEF Crash
  <1>5. ASSUME NEW s \in Sweepers, Restart(s)
        PROVE  TypeOK'
    BY <1>5 DEF Restart
  <1> QED
    BY <1>1, <1>2, <1>3, <1>4, <1>5 DEF Environment

(* An actor in the middle of something has a file in hand. *)
LEMMA HasFileStep ==
    ASSUME TypeOK, HasFile, Next
    PROVE  HasFile'
  <1> USE DEF TypeOK, HasFile, Goto, Take, Answer, Begin, Actors, call
  <1>1. ASSUME NEW p \in Reqs, ReqStart(p)
        PROVE  HasFile'
    BY <1>1 DEF ReqStart, RejectUpload, StartUpload, StartLookup, StartDelete
  <1>2. ASSUME NEW p \in Reqs, ReqStep(p)
        PROVE  HasFile'
    <2>1. /\ UNCHANGED file
          /\ pc[p] \notin {"idle", "done", "list"}
          /\ \E at \in PCs : pc' = [pc EXCEPT ![p] = at]
      BY <1>2, Names
         DEF ReqStep, UploadPut, UploadInsert, UploadUndo, UploadCache, UploadPublish,
             LookupCache, LookupRow, LookupFill, LookupCheck, DownloadOpen, DeleteGet,
             EraseBlob, EraseCache, EraseRow, DeletePublish, DeleteReturns
    <2> QED
      BY <2>1
  <1>3. ASSUME NEW s \in Sweepers, StartSweep(s) \/ SweepStep(s)
        PROVE  HasFile'
    <2>1. CASE StartSweep(s)
      BY <2>1 DEF StartSweep
    <2>2. CASE PurgeList(s)
      <3>1. ASSUME NEW page \in Pages(ExpiredRows), Advance(s, page, 0)
            PROVE  HasFile'
        BY <3>1 DEF Advance, NextRow, EndOfBatch, Pages, ExpiredRows
      <3> QED
        BY <2>2, <3>1 DEF PurgeList
    <2>3. CASE EraseBlob(s) \/ EraseCache(s) \/ EraseRow(s)
      BY <2>3 DEF EraseBlob, EraseCache, EraseRow, DeleteReturns
    <2>4. CASE PurgePublish(s)
      BY <2>4 DEF PurgePublish, Advance, NextRow, EndOfBatch
    <2> QED
      BY <1>3, <2>1, <2>2, <2>3, <2>4 DEF SweepStep
  <1>4. CASE Environment
    BY <1>4 DEF Environment, Tick, Evict, Cancel, Crash, Restart
  <1> QED
    BY <1>1, <1>2, <1>3, <1>4 DEF Next

(* Every step keeps the types. *)
LEMMA TypeStep == TypeOK /\ HasFile /\ [Next]_vars => TypeOK' /\ HasFile'
  <1> SUFFICES ASSUME TypeOK, HasFile, [Next]_vars PROVE TypeOK' /\ HasFile'
    OBVIOUS
  <1>1. CASE UNCHANGED vars
    BY <1>1 DEF TypeOK, HasFile, vars, backends, call, sweep, history
  <1>2. CASE Next
    BY <1>2, TypeStart, TypeReqStep, TypeSweep, TypeEnvironment, HasFileStep DEF Next
  <1> QED
    BY <1>1, <1>2

(* In every state that the service and its backends can reach, every layer  *)
(* holds what its type says: in particular a record in hand, in a row or in *)
(* the cache is never half-made, whatever call failed before.               *)
THEOREM TypeCorrect == Spec => []TypeOK
  <1>1. Spec => [](TypeOK /\ HasFile)
    BY TypeInit, TypeStep, PTL DEF Spec
  <1> QED
    BY <1>1, PTL

-------------------------------------------------------------------------------
(* How far a handler has to go *)

(* The most steps a request makes from here on: a lookup that misses the    *)
(* cache and finds the file expired makes them all, with the nested Delete. *)
StepsLeft(at) ==
    CASE at = "cacheGet"                 -> 9
      [] at = "getByID"                  -> 8
      [] at = "fill"                     -> 7
      [] at = "check"                    -> 6
      [] at = "deleteGet"                -> 5
      [] at \in {"put", "eraseBlob"}     -> 4
      [] at \in {"insert", "eraseCache"} -> 3
      [] at \in {"cacheNew", "eraseRow"} -> 2
      [] at \in {"publishNew", "publishGone", "discard", "rollback", "open"} -> 1
      [] OTHER                           -> 0

(* The calls of the service in the order its code makes them. *)
Follows(a, b) ==
    \/ a = "put"        /\ b \in {"insert", "discard", "done"}
    \/ a = "insert"     /\ b \in {"cacheNew", "rollback"}
    \/ a = "cacheNew"   /\ b = "publishNew"
    \/ a = "cacheGet"   /\ b \in {"check", "getByID"}
    \/ a = "getByID"    /\ b \in {"fill", "done"}
    \/ a = "fill"       /\ b = "check"
    \/ a = "check"      /\ b \in {"deleteGet", "open", "done"}
    \/ a = "deleteGet"  /\ b \in {"eraseBlob", "done"}
    \/ a = "eraseBlob"  /\ b = "eraseCache"
    \/ a = "eraseCache" /\ b = "eraseRow"
    \/ a = "eraseRow"   /\ b \in {"publishGone", "done"}
    \/ a \in {"publishNew", "publishGone", "discard", "rollback", "open"} /\ b = "done"

LEMMA FollowsFalls ==
    ASSUME NEW a, NEW b, Follows(a, b)
    PROVE  StepsLeft(b) < StepsLeft(a)
  BY DEF Follows, StepsLeft

LEMMA CallFollows ==
    ASSUME TypeOK, NEW p \in Reqs, ReqStep(p)
    PROVE  Follows(pc[p], pc'[p])
  <1> USE DEF Follows, Goto, Take, Answer
  <1>0. pc \in [Actors -> PCs] /\ p \in Actors /\ p \notin Sweepers
    BY ServiceAssumption DEF TypeOK, Actors
  <1>1. CASE UploadPut(p) \/ UploadInsert(p) \/ UploadUndo(p)
             \/ UploadCache(p) \/ UploadPublish(p)
    BY <1>0, <1>1 DEF UploadPut, UploadInsert, UploadUndo, UploadCache, UploadPublish
  <1>2. CASE LookupCache(p) \/ LookupRow(p) \/ LookupFill(p) \/ LookupCheck(p)
             \/ DownloadOpen(p)
    BY <1>0, <1>2 DEF LookupCache, LookupRow, LookupFill, LookupCheck, DownloadOpen
  <1>3. CASE DeleteGet(p) \/ EraseBlob(p) \/ EraseCache(p) \/ EraseRow(p)
             \/ DeletePublish(p)
    BY <1>0, <1>3 DEF DeleteGet, EraseBlob, EraseCache, EraseRow, DeletePublish, DeleteReturns
  <1> QED
    BY <1>1, <1>2, <1>3 DEF ReqStep

(* The safety half of RequestsAnswered: whatever its calls return, a        *)
(* handler goes on to a later one and never comes back to an earlier: no    *)
(* retry and no loop, and at most nine steps until it answers.  Others      *)
(* leave it where it is; a crash of its process is all that can stop it.    *)
THEOREM HandlersOnlyAdvance ==
    Spec => [][\A p \in Reqs :
                  /\ ReqStep(p) => StepsLeft(pc'[p]) < StepsLeft(pc[p])
                  /\ ~Free(p) => \/ pc'[p] = pc[p]
                                 \/ pc'[p] = "idle"
                                 \/ ReqStep(p)]_vars
  <1>1. ASSUME TypeOK, Next, NEW p \in Reqs, ~Free(p)
        PROVE  pc'[p] = pc[p] \/ pc'[p] = "idle" \/ ReqStep(p)
    <2> USE ServiceAssumption DEF TypeOK, Actors, Begin, Answer, Goto, Take
    <2>1. ASSUME NEW q \in Reqs, ReqStart(q)
          PROVE  pc'[p] = pc[p]
      BY <1>1, <2>1 DEF ReqStart, RejectUpload, StartUpload, StartLookup, StartDelete
    <2>2. ASSUME NEW q \in Reqs, q # p, ReqStep(q)
          PROVE  pc'[p] = pc[p]
      BY <1>1, <2>2
         DEF ReqStep, UploadPut, UploadInsert, UploadUndo, UploadCache, UploadPublish,
             LookupCache, LookupRow, LookupFill, LookupCheck, DownloadOpen, DeleteGet,
             EraseBlob, EraseCache, EraseRow, DeletePublish, DeleteReturns
    <2>3. ASSUME NEW s \in Sweepers, StartSweep(s) \/ SweepStep(s)
          PROVE  pc'[p] = pc[p]
      BY <1>1, <2>3
         DEF StartSweep, SweepStep, PurgeList, EraseBlob, EraseCache, EraseRow,
             DeleteReturns, PurgePublish, Advance, NextRow, EndOfBatch
    <2>4. ASSUME Environment
          PROVE  pc'[p] = pc[p] \/ pc'[p] = "idle"
      BY <1>1, <2>4 DEF Environment, Tick, Evict, Cancel, Crash, Restart
    <2> QED
      BY <1>1, <2>1, <2>2, <2>3, <2>4 DEF Next
  <1>2. TypeOK /\ [Next]_vars =>
            \A p \in Reqs :
                /\ ReqStep(p) => StepsLeft(pc'[p]) < StepsLeft(pc[p])
                /\ ~Free(p) => \/ pc'[p] = pc[p]
                               \/ pc'[p] = "idle"
                               \/ ReqStep(p)
    <2> SUFFICES ASSUME TypeOK, [Next]_vars, NEW p \in Reqs
                 PROVE  /\ ReqStep(p) => StepsLeft(pc'[p]) < StepsLeft(pc[p])
                        /\ ~Free(p) => \/ pc'[p] = pc[p]
                                       \/ pc'[p] = "idle"
                                       \/ ReqStep(p)
      OBVIOUS
    <2>1. UNCHANGED vars => pc'[p] = pc[p]
      BY DEF vars
    <2> QED
      BY <1>1, <2>1, CallFollows, FollowsFalls
  <1> QED
    BY <1>2, TypeCorrect, PTL DEF Spec

-------------------------------------------------------------------------------
(* How a sweep advances *)

(* What a sweeper that does not end goes on to: the page of rows it listed  *)
(* shrinks by one with every row that is gone, and only a full page leads   *)
(* back to the query.                                                       *)
SweepAdvances(s) ==
    \/ pc'[s] = "done"
    \/ /\ pc[s] = "list" /\ pc'[s] = "eraseBlob" /\ purged'[s] = 0
       /\ file'[s] \in ExpiredRows /\ todo'[s] \subseteq ExpiredRows \ {file'[s]}
    \/ pc[s] = "list" /\ pc'[s] = "list" /\ Batch = 0
    \/ /\ \/ pc[s] = "eraseBlob"  /\ pc'[s] = "eraseCache"
          \/ pc[s] = "eraseCache" /\ pc'[s] = "eraseRow"
          \/ pc[s] = "eraseRow"   /\ pc'[s] = "publishGone" /\ db'[file[s]] = None
       /\ file'[s] = file[s] /\ todo'[s] = todo[s] /\ purged'[s] = purged[s]
    \/ /\ pc[s] = "publishGone" /\ pc'[s] = "eraseBlob"
       /\ file'[s] \in todo[s] /\ todo'[s] = todo[s] \ {file'[s]}
       /\ purged'[s] = purged[s] + 1
    \/ /\ pc[s] = "publishGone" /\ pc'[s] = "list"
       /\ todo[s] = {} /\ purged[s] + 1 >= Batch

LEMMA AdvanceGoesOn ==
    ASSUME TypeOK, NEW s \in Sweepers, NEW rest \in SUBSET Ids, NEW n \in Nat,
           Advance(s, rest, n)
    PROVE  \/ pc'[s] = "done"
           \/ /\ pc'[s] = "eraseBlob" /\ purged'[s] = n
              /\ file'[s] \in rest /\ todo'[s] = rest \ {file'[s]}
           \/ pc'[s] = "list" /\ rest = {} /\ ~(n < Batch)
  <1>0. s \in Actors
    BY DEF Actors
  <1> QED
    BY <1>0 DEF TypeOK, Advance, NextRow, EndOfBatch, Goto, Answer

LEMMA SweepGoesOn ==
    ASSUME TypeOK, HasFile, NEW s \in Sweepers, SweepStep(s)
    PROVE  SweepAdvances(s)
  <1>0. /\ s \in Actors /\ s \notin Reqs /\ Batch \in Nat
        /\ pc \in [Actors -> PCs] /\ db \in [Ids -> Meta \cup {None}]
        /\ todo[s] \in SUBSET Ids /\ purged[s] \in Nat
    BY ServiceAssumption DEF TypeOK, Actors
  <1>1. CASE PurgeList(s)
    <2>1. CASE Answer(s, "error")
      BY <1>0, <2>1 DEF Answer, SweepAdvances
    <2>2. ASSUME NEW page \in Pages(ExpiredRows), Advance(s, page, 0)
          PROVE  SweepAdvances(s)
      <3>1. page \subseteq ExpiredRows
        BY DEF Pages
      <3>2. page \in SUBSET Ids /\ 0 \in Nat
        BY <3>1 DEF ExpiredRows
      <3>3. ~(0 < Batch) => Batch = 0
        BY <1>0
      <3>4. pc[s] = "list"
        BY <1>1 DEF PurgeList
      <3> HIDE DEF ExpiredRows
      <3> QED
        BY <2>2, <3>1, <3>2, <3>3, <3>4, AdvanceGoesOn DEF SweepAdvances
    <2> QED
      BY <1>1, <2>1, <2>2 DEF PurgeList
  <1>2. CASE EraseBlob(s) \/ EraseCache(s)
    BY <1>0, <1>2 DEF EraseBlob, EraseCache, Goto, call, sweep, SweepAdvances
  <1>3. CASE EraseRow(s)
    <2>1. file[s] \in Ids
      BY <1>0, <1>3 DEF EraseRow, HasFile
    <2> QED
      BY <1>0, <1>3, <2>1 DEF EraseRow, Goto, Answer, call, sweep, SweepAdvances
  <1>4. CASE PurgePublish(s)
    <2>1. pc[s] = "publishGone" /\ Advance(s, todo[s], purged[s] + 1)
      BY <1>4 DEF PurgePublish
    <2>2. /\ purged[s] + 1 \in Nat
          /\ ~(purged[s] + 1 < Batch) => purged[s] + 1 >= Batch
      BY <1>0
    <2> QED
      BY <1>0, <2>1, <2>2, AdvanceGoesOn DEF SweepAdvances
  <1> QED
    BY <1>1, <1>2, <1>3, <1>4 DEF SweepStep

(* What a step of another, of a client or of the world does to a sweep.     *)
LEMMA SweepKept ==
    ASSUME TypeOK, Next, NEW s \in Sweepers, ~Free(s)
    PROVE  \/ /\ pc'[s] = pc[s] /\ file'[s] = file[s]
              /\ todo'[s] = todo[s] /\ purged'[s] = purged[s]
           \/ pc'[s] = "idle"
           \/ SweepStep(s)
  <1> DEFINE Kept == /\ pc'[s] = pc[s] /\ file'[s] = file[s]
                     /\ todo'[s] = todo[s] /\ purged'[s] = purged[s]
  <1> USE ServiceAssumption DEF TypeOK, Actors, Begin, Answer, Goto, Take, call, sweep
  <1>1. ASSUME NEW q \in Reqs, ReqStart(q)
        PROVE  Kept
    BY <1>1 DEF ReqStart, RejectUpload, StartUpload, StartLookup, StartDelete
  <1>2. ASSUME NEW q \in Reqs, ReqStep(q)
        PROVE  Kept
    BY <1>2
       DEF ReqStep, UploadPut, UploadInsert, UploadUndo, UploadCache, UploadPublish,
           LookupCache, LookupRow, LookupFill, LookupCheck, DownloadOpen, DeleteGet,
           EraseBlob, EraseCache, EraseRow, DeletePublish, DeleteReturns
  <1>3. ASSUME NEW o \in Sweepers, StartSweep(o)
        PROVE  Kept
    BY <1>3 DEF StartSweep
  <1>4. ASSUME NEW o \in Sweepers, o # s, SweepStep(o)
        PROVE  Kept
    BY <1>4
       DEF SweepStep, PurgeList, EraseBlob, EraseCache, EraseRow, DeleteReturns,
           PurgePublish, Advance, NextRow, EndOfBatch
  <1>5. ASSUME Environment
        PROVE  Kept \/ pc'[s] = "idle"
    BY <1>5 DEF Environment, Tick, Evict, Cancel, Crash, Restart
  <1> QED
    BY <1>1, <1>2, <1>3, <1>4, <1>5 DEF Next

(* The safety half of SweepsEnd: a sweep takes the rows of a page one by    *)
(* one, each for the four steps of its removal, and after it erased a row's *)
(* metadata the row is gone; it lists again only behind a full page.  What  *)
(* others do between its calls moves it nowhere.                            *)
THEOREM SweepsOnlyAdvance ==
    Spec => [][\A s \in Sweepers :
                  /\ SweepStep(s) => SweepAdvances(s)
                  /\ ~Free(s) => \/ /\ pc'[s] = pc[s] /\ file'[s] = file[s]
                                    /\ todo'[s] = todo[s] /\ purged'[s] = purged[s]
                                 \/ pc'[s] = "idle"
                                 \/ SweepStep(s)]_vars
  <1>1. Spec => [](TypeOK /\ HasFile)
    BY TypeInit, TypeStep, PTL DEF Spec
  <1>2. TypeOK /\ HasFile /\ [Next]_vars =>
            \A s \in Sweepers :
                  /\ SweepStep(s) => SweepAdvances(s)
                  /\ ~Free(s) => \/ /\ pc'[s] = pc[s] /\ file'[s] = file[s]
                                    /\ todo'[s] = todo[s] /\ purged'[s] = purged[s]
                                 \/ pc'[s] = "idle"
                                 \/ SweepStep(s)
    <2> SUFFICES ASSUME TypeOK, HasFile, [Next]_vars, NEW s \in Sweepers
                 PROVE  /\ SweepStep(s) => SweepAdvances(s)
                        /\ ~Free(s) => \/ /\ pc'[s] = pc[s] /\ file'[s] = file[s]
                                          /\ todo'[s] = todo[s] /\ purged'[s] = purged[s]
                                       \/ pc'[s] = "idle"
                                       \/ SweepStep(s)
      OBVIOUS
    <2>1. UNCHANGED vars => /\ pc'[s] = pc[s] /\ file'[s] = file[s]
                            /\ todo'[s] = todo[s] /\ purged'[s] = purged[s]
      BY DEF vars, call, sweep
    <2> QED
      BY <2>1, SweepGoesOn, SweepKept
  <1> QED
    BY <1>1, <1>2, PTL DEF Spec
===============================================================================
