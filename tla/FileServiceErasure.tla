--------------------------- MODULE FileServiceErasure -------------------------
(***************************************************************************)
(* What erasing leaves behind.  A sweep that says it is done has left no   *)
(* row that was expired when it looked, whatever fails; and while nothing  *)
(* fails, bytes and row of a file are not parted and the bytes of a file   *)
(* whose deletion was reported are out of reach.                           *)
(***************************************************************************)
EXTENDS FileServiceSafety, FiniteSetTheorems

USE DEF PutObject, DeleteObject, HasObject, Insert, DeleteRow, HasRow,
        CacheHit, CacheSet, CacheDelete, Publish

(* Of a file that was inserted once, the row and the bytes can only go. *)
LEMMA LandedOnlyGoes ==
    ASSUME IInv, Next, NEW id \in landed
    PROVE  /\ db'[id] = db[id] \/ db'[id] = None
           /\ store'[id] = store[id] \/ store'[id] = None
  <1> USE DEF TypeOK, HasFile, ActorInv, UploadInv, UploadOf, Uploading, Actors, backends, history, Begin
  <1>0. id \in Ids /\ TypeOK /\ HasFile /\ UploadInv
    BY DEF IInv
  <1>1. ASSUME NEW p \in Reqs, ReqStart(p)
        PROVE  UNCHANGED <<db, store>>
    BY <1>1 DEF ReqStart, RejectUpload, StartUpload, StartLookup, StartDelete
  <1>2. ASSUME NEW p \in Reqs, UploadPut(p) \/ UploadInsert(p)
        PROVE  db'[id] = db[id] /\ store'[id] = store[id]
    <2>1. file[p] \in Ids /\ file[p] \notin landed
      BY <1>0, <1>2 DEF UploadPut, UploadInsert
    <2> QED
      BY <1>0, <1>2, <2>1 DEF UploadPut, UploadInsert
  <1>3. ASSUME NEW p \in Actors, EraseBlob(p) \/ EraseRow(p) \/ UploadUndo(p)
        PROVE  /\ db'[id] = db[id] \/ db'[id] = None
               /\ store'[id] = store[id] \/ store'[id] = None
    BY <1>0, <1>3 DEF EraseBlob, EraseRow, UploadUndo
  <1>4. ASSUME NEW p \in Reqs,
               \/ UploadCache(p) \/ UploadPublish(p) \/ LookupCache(p) \/ LookupRow(p)
               \/ LookupFill(p) \/ LookupCheck(p) \/ DownloadOpen(p) \/ DeleteGet(p)
               \/ EraseCache(p) \/ DeletePublish(p)
        PROVE  UNCHANGED <<db, store>>
    BY <1>4 DEF UploadCache, UploadPublish, LookupCache, LookupRow, LookupFill, LookupCheck,
                DownloadOpen, DeleteGet, EraseCache, DeletePublish
  <1>5. ASSUME NEW s \in Sweepers,
               StartSweep(s) \/ PurgeList(s) \/ EraseCache(s) \/ PurgePublish(s)
        PROVE  UNCHANGED <<db, store>>
    BY <1>5 DEF StartSweep, PurgeList, EraseCache, PurgePublish
  <1>6. CASE Environment
    BY <1>6 DEF Environment, Tick, Evict, Cancel, Crash, Restart
  <1> QED
    BY <1>1, <1>2, <1>3, <1>4, <1>5, <1>6 DEF Next, ReqStep, SweepStep

-------------------------------------------------------------------------------
(* Draining *)

(* A row that a sweep has listed as expired stays so until it goes. *)
DueInv ==
    \A s \in Sweepers : \A id \in due[s] :
        id \in landed /\ (db[id] # None => SqlExpired(db[id].exp, now + Skew))

(* The rows that were expired at some listing of s and are still there. *)
Left(s) == {id \in due[s] : db[id] # None}

(* A sweep in the middle of a batch: either the batch is a full one, all of *)
(* which is purged, in hand or to do, or it holds every row that is left.   *)
BatchInv ==
    \A s \in Sweepers : pc[s] \in Erasing =>
        \/ Cardinality(todo[s]) + purged[s] + 1 = Batch
        \/ Left(s) \subseteq todo[s] \cup {file[s]}

DrainInv == DueInv /\ BatchInv /\ DrainedMeansDrained

(* A step leaves a sweeper where it is, kills it, or is its own. *)
Still(s) ==
    /\ pc'[s] = pc[s] /\ reply'[s] = reply[s] /\ file'[s] = file[s]
    /\ todo'[s] = todo[s] /\ purged'[s] = purged[s] /\ due'[s] = due[s]

LEMMA SweeperStep ==
    ASSUME TypeOK, Next, NEW s \in Sweepers
    PROVE  \/ Still(s)
           \/ pc'[s] = "idle" /\ due'[s] = due[s]
           \/ StartSweep(s) \/ SweepStep(s)
  <1> USE ServiceAssumption DEF TypeOK, Still, Actors, Begin, Answer, Goto, Take, call, sweep
  <1>1. ASSUME NEW p \in Reqs, ReqStart(p)
        PROVE  Still(s)
    BY <1>1 DEF ReqStart, RejectUpload, StartUpload, StartLookup, StartDelete
  <1>2. ASSUME NEW p \in Reqs, ReqStep(p)
        PROVE  Still(s)
    BY <1>2 DEF ReqStep, UploadPut, UploadInsert, UploadUndo, UploadCache, UploadPublish,
                LookupCache, LookupRow, LookupFill, LookupCheck, DownloadOpen, DeleteGet,
                EraseBlob, EraseCache, EraseRow, DeletePublish, DeleteReturns
  <1>3. ASSUME NEW q \in Sweepers, q # s, StartSweep(q) \/ SweepStep(q)
        PROVE  Still(s)
    <2>1. CASE StartSweep(q) \/ EraseBlob(q) \/ EraseCache(q) \/ EraseRow(q)
      BY <1>3, <2>1 DEF StartSweep, EraseBlob, EraseCache, EraseRow, DeleteReturns
    <2>2. CASE PurgeList(q) \/ PurgePublish(q)
      BY <1>3, <2>2 DEF PurgeList, PurgePublish, Advance, NextRow, EndOfBatch
    <2> QED
      BY <1>3, <2>1, <2>2 DEF SweepStep
  <1>4. CASE Environment
    BY <1>4 DEF Environment, Tick, Evict, Cancel, Crash, Restart
  <1> QED
    BY <1>1, <1>2, <1>3, <1>4 DEF Next

(* A page is a full one or all there is, and it is finite. *)
LEMMA PageFacts ==
    ASSUME NEW page \in Pages(ExpiredRows)
    PROVE  /\ page \subseteq ExpiredRows /\ IsFiniteSet(page)
           /\ Cardinality(page) = Batch \/ page = ExpiredRows
  <1>1. page \subseteq ExpiredRows /\ ExpiredRows \subseteq Ids
    BY DEF Pages, ExpiredRows
  <1>2. IsFiniteSet(page)
    BY <1>1, FS_Subset, ServiceAssumption
  <1> QED
    BY <1>1, <1>2 DEF Pages

(* Going on with the set rest of a batch of which n rows are purged. *)
LEMMA AdvanceDrains ==
    ASSUME TypeOK, NEW s \in Sweepers, NEW rest \in SUBSET Ids, NEW n \in Nat,
           Advance(s, rest, n),
           UNCHANGED db,
           \/ Cardinality(rest) + n = Batch
           \/ Left(s)' \subseteq rest
    PROVE  /\ pc'[s] \in Erasing =>
                \/ Cardinality(todo'[s]) + purged'[s] + 1 = Batch
                \/ Left(s)' \subseteq todo'[s] \cup {file'[s]}
           /\ pc'[s] = "done" /\ reply'[s] = "drained" => Left(s)' = {}
  <1> USE DEF TypeOK, Actors, Goto, Answer
  <1>0. IsFiniteSet(rest)
    BY FS_Subset, ServiceAssumption
  <1>1. CASE NextRow(s, rest, n)
    <2>1. PICK id \in rest : /\ file'[s] = id /\ todo'[s] = rest \ {id}
                             /\ purged'[s] = n /\ pc'[s] = "eraseBlob"
      BY <1>1 DEF NextRow
    <2>2. Cardinality(rest \ {id}) = Cardinality(rest) - 1 /\ Cardinality(rest) \in Nat
      BY <1>0, FS_RemoveElement, FS_CardinalityType
    <2>3. rest \subseteq todo'[s] \cup {file'[s]}
      BY <2>1
    <2>4. Cardinality(rest) + n = Batch => Cardinality(todo'[s]) + purged'[s] + 1 = Batch
      BY <2>1, <2>2
    <2> QED
      BY <2>1, <2>3, <2>4
  <1>2. CASE rest = {} /\ EndOfBatch(s, n < Batch)
    <2>1. pc'[s] = (IF n < Batch THEN "done" ELSE "list")
      BY <1>2 DEF EndOfBatch
    <2>2. Cardinality(rest) = 0
      BY <1>2, FS_EmptySet
    <2>3. n < Batch => Left(s)' = {}
      BY <1>2, <2>2, ServiceAssumption
    <2> QED
      BY <2>1, <2>3 DEF Erasing
  <1> QED
    BY <1>1, <1>2 DEF Advance

(* A row that the sweeper's query finds it finds until the row is gone. *)
LEMMA DueRowStays ==
    ASSUME IInv, TypeOK', Next, NEW id \in landed, db'[id] # None,
           db[id] # None => SqlExpired(db[id].exp, now + Skew)
    PROVE  SqlExpired(db'[id].exp, now' + Skew) /\ db[id] # None
  <1>0. TypeOK
    BY DEF IInv
  <1>1. now \in Nat /\ now' \in Nat /\ now <= now' /\ id \in Ids
    BY <1>0, Monotone DEF TypeOK
  <1>2. db'[id] = db[id]
    BY LandedOnlyGoes
  <1>3. db[id].exp \in Expiries
    BY <1>0, <1>1, <1>2, MetaFields DEF TypeOK
  <1>4. SqlExpired(db[id].exp, now + Skew) /\ db[id] # None
    BY <1>2
  <1>5. SqlExpired(db[id].exp, now' + Skew)
    BY <1>1, <1>3, <1>4, SkewAssumption, SqlExpiredStays
  <1> QED
    BY <1>2, <1>4, <1>5

(* Every step keeps what a sweep needs to know to be done. *)
LEMMA DrainStep ==
    ASSUME IInv, DrainInv, Next
    PROVE  DrainInv'
  <1>0. TypeOK /\ TypeOK' /\ RowInv /\ EraseInv /\ landed \subseteq Ids
    BY TypeStep DEF IInv, LayerInv, ActorInv, TypeOK
  <1>1. now \in Nat /\ now' \in Nat /\ now <= now' /\ landed \subseteq landed'
    BY <1>0, Monotone DEF TypeOK
  <1>2. ASSUME NEW id \in landed, db'[id] # None,
               db[id] # None => SqlExpired(db[id].exp, now + Skew)
        PROVE  SqlExpired(db'[id].exp, now' + Skew) /\ db[id] # None
    BY <1>0, <1>2, DueRowStays
  <1> DEFINE Due(s) == \A id \in due'[s] :
                           id \in landed'
                           /\ (db'[id] # None => SqlExpired(db'[id].exp, now' + Skew))
             InBatch(s) == pc'[s] \in Erasing =>
                              \/ Cardinality(todo'[s]) + purged'[s] + 1 = Batch
                              \/ Left(s)' \subseteq todo'[s] \cup {file'[s]}
             Drained(s) == pc'[s] = "done" /\ reply'[s] = "drained" => Left(s)' = {}
  <1>3. ASSUME NEW s \in Sweepers, due'[s] = due[s]
        PROVE  Due(s) /\ Left(s)' \subseteq Left(s)
    BY <1>0, <1>1, <1>2, <1>3 DEF DrainInv, DueInv, Left
  <1>4. ASSUME NEW s \in Sweepers
        PROVE  Due(s) /\ InBatch(s) /\ Drained(s)
    <2>1. CASE Still(s)
      BY <1>3, <2>1 DEF Still, DrainInv, BatchInv, DrainedMeansDrained, Left
    <2>2. CASE pc'[s] = "idle" /\ due'[s] = due[s]
      BY <1>3, <2>2 DEF Erasing
    <2>3. CASE StartSweep(s)
      BY <1>0, <2>3 DEF StartSweep, Erasing, TypeOK, Actors
    <2>4. CASE EraseBlob(s) \/ EraseCache(s) \/ EraseRow(s)
      <3>1. due'[s] = due[s] /\ todo' = todo /\ purged' = purged /\ file' = file
        BY <2>4 DEF EraseBlob, EraseCache, EraseRow, sweep, call
      <3>2. pc[s] \in Erasing /\ ~(pc'[s] = "done" /\ reply'[s] = "drained")
        BY <1>0, <2>4 DEF EraseBlob, EraseCache, EraseRow, Goto, Answer, DeleteReturns,
                          Erasing, TypeOK, Actors
      <3> QED
        BY <1>3, <3>1, <3>2 DEF DrainInv, BatchInv
    <2>5. CASE PurgeList(s)
      <3>1. UNCHANGED <<now, db, landed>>
        BY <2>5 DEF PurgeList, backends, history
      <3>2. CASE Answer(s, "error") /\ UNCHANGED <<file, todo, purged, due>>
        BY <1>0, <1>3, <3>2 DEF Answer, Erasing, TypeOK, Actors
      <3>3. ASSUME due' = [due EXCEPT ![s] = @ \cup ExpiredRows],
                   NEW page \in Pages(ExpiredRows), Advance(s, page, 0)
            PROVE  Due(s) /\ InBatch(s) /\ Drained(s)
        <4>1. due'[s] = due[s] \cup ExpiredRows
          BY <1>0, <3>3 DEF TypeOK
        <4>2. Due(s)
          BY <1>0, <3>1, <4>1 DEF DrainInv, DueInv, ExpiredRows, RowInv
        <4>3. Left(s)' \subseteq ExpiredRows
          BY <1>0, <3>1, <4>1 DEF DrainInv, DueInv, ExpiredRows, Left
        <4>4. Cardinality(page) \in Nat /\ page \in SUBSET Ids
          BY PageFacts, FS_CardinalityType DEF ExpiredRows
        <4>5. Cardinality(page) + 0 = Batch \/ Left(s)' \subseteq page
          BY <4>3, <4>4, PageFacts
        <4>6. InBatch(s) /\ Drained(s)
          BY <1>0, <3>1, <3>3, <4>4, <4>5, AdvanceDrains
        <4> QED
          BY <4>2, <4>6
      <3> QED
        BY <2>5, <3>2, <3>3 DEF PurgeList
    <2>6. CASE PurgePublish(s)
      <3>1. UNCHANGED <<db, due>> /\ pc[s] = "publishGone" /\ Advance(s, todo[s], purged[s] + 1)
        BY <2>6 DEF PurgePublish
      <3>2. todo[s] \in SUBSET Ids /\ purged[s] + 1 \in Nat /\ purged[s] \in Nat
        BY <1>0 DEF TypeOK
      <3>3. file[s] \notin Left(s) /\ Left(s)' = Left(s)
        BY <1>0, <3>1 DEF EraseInv, EraseOf, Erasing, Left, Actors
      <3>4. Cardinality(todo[s]) \in Nat
        BY <3>2, FS_Subset, FS_CardinalityType, ServiceAssumption
      <3>5. Cardinality(todo[s]) + (purged[s] + 1) = Batch \/ Left(s)' \subseteq todo[s]
        <4>1. \/ Cardinality(todo[s]) + purged[s] + 1 = Batch
              \/ Left(s) \subseteq todo[s] \cup {file[s]}
          BY <3>1 DEF DrainInv, BatchInv, Erasing
        <4> QED
          BY <3>2, <3>3, <3>4, <4>1
      <3>6. InBatch(s) /\ Drained(s)
        BY <1>0, <3>1, <3>2, <3>5, AdvanceDrains
      <3> QED
        BY <1>3, <3>1, <3>6
    <2> QED
      BY <1>0, <2>1, <2>2, <2>3, <2>4, <2>5, <2>6, SweeperStep DEF SweepStep
  <1> QED
    BY <1>4 DEF DrainInv, DueInv, BatchInv, DrainedMeansDrained, Left

(* A sweep that ends without an error has removed every row that was        *)
(* expired at any of its listings, for any batch size, whichever rows each  *)
(* LIMIT left out, whatever failed and whoever else swept or deleted: the   *)
(* loop's test for a short batch is sound.                                  *)
THEOREM SweepsDrain == Spec => []DrainedMeansDrained
  <1>1. Init => DrainInv
    BY DEF Init, DrainInv, DueInv, BatchInv, DrainedMeansDrained, Erasing, Actors
  <1>2. IInv /\ DrainInv /\ [Next]_vars => DrainInv'
    <2> SUFFICES ASSUME IInv, DrainInv, [Next]_vars PROVE DrainInv'
      OBVIOUS
    <2>1. CASE UNCHANGED vars
      BY <2>1 DEF vars, backends, call, sweep, history, DrainInv, DueInv, BatchInv,
                  DrainedMeansDrained, Left
    <2> QED
      BY <2>1, DrainStep
  <1>3. DrainInv => DrainedMeansDrained
    BY DEF DrainInv
  <1> QED
    BY <1>1, <1>2, <1>3, InvariantHolds, PTL DEF Spec

(* The safety half of ExpiredReaped: nothing takes an expired row off the   *)
(* list of the sweeper's next query but its removal, neither a lookup, an   *)
(* upload, a lost call or a crash nor the way in which the database's clock *)
(* differs from ours.                                                       *)
THEOREM ExpiredStaysListed ==
    Spec => [][\A id \in ExpiredRows : id \in ExpiredRows' \/ db'[id] = None]_vars
  <1>1. ASSUME IInv, IInv', [Next]_vars, NEW id \in ExpiredRows
        PROVE  id \in ExpiredRows' \/ db'[id] = None
    <2>1. /\ id \in Ids /\ id \in landed /\ db[id] # None
          /\ SqlExpired(db[id].exp, now + Skew)
      BY <1>1 DEF ExpiredRows, IInv, LayerInv, RowInv
    <2>2. CASE Next
      <3>1. db'[id] # None => SqlExpired(db'[id].exp, now' + Skew)
        BY <1>1, <2>1, <2>2, DueRowStays DEF IInv
      <3> QED
        BY <2>1, <3>1 DEF ExpiredRows
    <2>3. CASE UNCHANGED vars
      BY <2>1, <2>3 DEF vars, backends, ExpiredRows
    <2> QED
      BY <1>1, <2>2, <2>3
  <1>2. IInv /\ IInv' /\ [Next]_vars =>
            \A id \in ExpiredRows : id \in ExpiredRows' \/ db'[id] = None
    BY <1>1
  <1> QED
    BY <1>2, InvariantHolds, PTL DEF Spec

(* What a sweeper does that asks for batches of no rows. *)
ReapsNothing ==
    \A s \in Sweepers :
        /\ pc[s] \in {"idle", "list", "done"}
        /\ pc[s] = "done" => reply[s] = "error"

LEMMA ZeroBatchStep ==
    ASSUME Batch = 0, TypeOK, ReapsNothing, Next
    PROVE  ReapsNothing'
  <1> SUFFICES ASSUME NEW s \in Sweepers
               PROVE  /\ pc'[s] \in {"idle", "list", "done"}
                      /\ pc'[s] = "done" => reply'[s] = "error"
    BY DEF ReapsNothing
  <1>0. /\ pc[s] \in {"idle", "list", "done"}
        /\ pc[s] = "done" => reply[s] = "error"
        /\ s \in Actors
    BY DEF ReapsNothing, Actors
  <1>1. CASE Still(s) \/ pc'[s] = "idle"
    BY <1>0, <1>1 DEF Still
  <1>2. CASE StartSweep(s)
    BY <1>0, <1>2 DEF StartSweep, TypeOK
  <1>3. CASE SweepStep(s)
    <2>1. PurgeList(s)
      BY <1>0, <1>3 DEF SweepStep, EraseBlob, EraseCache, EraseRow, PurgePublish
    <2>2. CASE Answer(s, "error")
      BY <1>0, <2>2 DEF Answer, TypeOK
    <2>3. ASSUME NEW page \in Pages(ExpiredRows), Advance(s, page, 0)
          PROVE  pc'[s] = "list"
      <3>1. IsFiniteSet(page)
        BY PageFacts
      <3>2. page = {}
        BY <3>1, FS_EmptySet, FS_CardinalityType DEF Pages
      <3>3. EndOfBatch(s, 0 < Batch)
        BY <2>3, <3>2 DEF Advance, NextRow
      <3> QED
        BY <1>0, <3>3 DEF EndOfBatch, Goto, TypeOK
    <2> QED
      BY <2>1, <2>2, <2>3 DEF PurgeList
  <1> QED
    BY <1>1, <1>2, <1>3, SweeperStep

(* SWEEP_BATCH=0, which the configuration lets pass, is a trap: the query   *)
(* for no rows finds none, and no batch is ever shorter than that.  A sweep *)
(* then asks again and again; it can only fail, never finish, and does not  *)
(* purge one file, however many have expired.                               *)
THEOREM ZeroBatchReapsNothing ==
    ASSUME Batch = 0
    PROVE  Spec => []ReapsNothing
  <1>1. Init => ReapsNothing
    BY DEF Init, ReapsNothing, Actors
  <1>2. IInv /\ ReapsNothing /\ [Next]_vars => ReapsNothing'
    <2> SUFFICES ASSUME IInv, ReapsNothing, [Next]_vars PROVE ReapsNothing'
      OBVIOUS
    <2>1. CASE UNCHANGED vars
      BY <2>1 DEF vars, ReapsNothing
    <2> QED
      BY <2>1, ZeroBatchStep DEF IInv
  <1> QED
    BY <1>1, <1>2, InvariantHolds, PTL DEF Spec

-------------------------------------------------------------------------------
(* While nothing fails *)

(* No context is cancelled and no insert is being undone. *)
NoUndo == Calm => cancelled = {} /\ \A p \in Reqs : pc[p] # "rollback"

(* Whoever has got past store.Delete has left no bytes behind. *)
BytesFirst ==
    Calm => \A p \in Actors :
        pc[p] \in {"eraseCache", "eraseRow", "publishGone"} => store[file[p]] = None

(* A row without bytes is on its way out. *)
BeingErased ==
    Calm => \A id \in Ids :
        db[id] # None /\ store[id] = None =>
            \E p \in Actors : file[p] = id /\ pc[p] \in {"eraseCache", "eraseRow"}

CalmInv == NoUndo /\ BytesFirst /\ NoStrandedBlob /\ BeingErased

(* Uploads keep bytes and row together. *)
LEMMA UploadStaysCalm ==
    ASSUME IInv, CalmInv, Calm, Calm', NEW p \in Reqs,
           \/ UploadPut(p) \/ UploadInsert(p) \/ UploadUndo(p)
           \/ UploadCache(p) \/ UploadPublish(p)
    PROVE  CalmInv'
  <1> USE ServiceAssumption
      DEF Calm, TypeOK, HasFile, Actors, Goto, Answer,
          Succeeds, Fails, LosesReply, Mishap, call, sweep, history
  <1>0. /\ TypeOK /\ HasFile /\ UploadInv /\ EraseInv /\ RowInv
        /\ NoUndo /\ BytesFirst /\ NoStrandedBlob /\ BeingErased
    BY DEF IInv, LayerInv, ActorInv, CalmInv
  <1>1. CASE UploadPut(p)
    <2>1. /\ pc[p] = "put" /\ file[p] \in Ids /\ meta[p].size \in Nat
          /\ store' = [store EXCEPT ![file[p]] = meta[p].size]
          /\ pc' = [pc EXCEPT ![p] = IF OverLimit(meta[p].size) THEN "discard" ELSE "insert"]
          /\ UNCHANGED <<db, file, cancelled>>
      BY <1>0, <1>1, MetaFields DEF UploadPut, NoUndo
    <2>2. meta[p].size # None /\ file[p] \notin landed
      BY <1>0, <2>1 DEF UploadInv, UploadOf, Uploading, Expiries
    <2>3. NoUndo' /\ BytesFirst'
      BY <1>0, <2>1, <2>2 DEF NoUndo, BytesFirst, EraseInv, EraseOf, Erasing
    <2>4. NoStrandedBlob' /\ BeingErased'
      BY <1>0, <2>1, <2>2 DEF NoStrandedBlob, BeingErased
    <2> QED
      BY <2>3, <2>4 DEF CalmInv
  <1>2. CASE UploadInsert(p)
    <2>1. /\ pc[p] = "insert" /\ file[p] \in Ids /\ meta[p] \in Meta
          /\ Insert(file[p], meta[p])
          /\ pc' = [pc EXCEPT ![p] = "cacheNew"]
          /\ UNCHANGED <<store, file, cancelled>>
      BY <1>0, <1>2 DEF UploadInsert, NoUndo
    <2>2. store[file[p]] = meta[p].size /\ meta[p].size \in Nat /\ None \notin Nat
      BY <1>0, <2>1, MetaFields DEF UploadInv, UploadOf, Uploading, Expiries
    <2>3. db'[file[p]] # None /\ \A id \in Ids : id # file[p] => db'[id] = db[id]
      BY <1>0, <2>1, AsTimestampType DEF Meta
    <2>4. NoUndo' /\ BytesFirst'
      BY <1>0, <2>1 DEF NoUndo, BytesFirst
    <2>5. NoStrandedBlob' /\ BeingErased'
      BY <1>0, <2>1, <2>2, <2>3 DEF NoStrandedBlob, BeingErased
    <2> QED
      BY <2>4, <2>5 DEF CalmInv
  <1>3. CASE UploadUndo(p)
    <2>1. /\ pc[p] = "discard" /\ file[p] \in Ids
          /\ store' = [store EXCEPT ![file[p]] = None]
          /\ pc' = [pc EXCEPT ![p] = "done"]
          /\ UNCHANGED <<db, file, cancelled>>
      BY <1>0, <1>3 DEF UploadUndo, NoUndo
    <2>2. db[file[p]] = None
      BY <1>0, <2>1 DEF UploadInv, UploadOf, Uploading, RowInv
    <2>3. NoUndo' /\ BytesFirst'
      BY <1>0, <2>1 DEF NoUndo, BytesFirst
    <2>4. NoStrandedBlob' /\ BeingErased'
      BY <1>0, <2>1, <2>2 DEF NoStrandedBlob, BeingErased
    <2> QED
      BY <2>3, <2>4 DEF CalmInv
  <1>4. CASE UploadCache(p) \/ UploadPublish(p)
    <2>1. /\ pc[p] \in {"cacheNew", "publishNew"}
          /\ pc' = [pc EXCEPT ![p] = IF pc[p] = "cacheNew" THEN "publishNew" ELSE "done"]
          /\ UNCHANGED <<db, store, file, cancelled>>
      BY <1>4 DEF UploadCache, UploadPublish
    <2> QED
      BY <1>0, <2>1 DEF CalmInv, NoUndo, BytesFirst, NoStrandedBlob, BeingErased
  <1> QED
    BY <1>1, <1>2, <1>3, <1>4

(* Erasing takes the bytes first and the row after them. *)
LEMMA EraseStaysCalm ==
    ASSUME IInv, CalmInv, Calm, Calm', NEW p \in Actors,
           EraseBlob(p) \/ EraseCache(p) \/ EraseRow(p)
    PROVE  CalmInv'
  <1> USE ServiceAssumption
      DEF Calm, TypeOK, HasFile, Actors, Goto, Answer, DeleteReturns,
          Succeeds, Fails, LosesReply, Mishap, call, sweep, history
  <1>0. /\ TypeOK /\ HasFile /\ file[p] \in Ids
        /\ NoUndo /\ BytesFirst /\ NoStrandedBlob /\ BeingErased
    BY DEF IInv, CalmInv, EraseBlob, EraseCache, EraseRow, ActorInv, EraseInv, EraseOf, Erasing
  <1>1. CASE EraseBlob(p)
    <2>1. /\ pc[p] = "eraseBlob"
          /\ store' = [store EXCEPT ![file[p]] = None]
          /\ pc' = [pc EXCEPT ![p] = "eraseCache"]
          /\ UNCHANGED <<db, file, cancelled>>
      BY <1>0, <1>1 DEF EraseBlob, NoUndo
    <2> QED
      BY <1>0, <2>1 DEF CalmInv, NoUndo, BytesFirst, NoStrandedBlob, BeingErased
  <1>2. CASE EraseCache(p)
    <2>1. /\ pc[p] = "eraseCache"
          /\ pc' = [pc EXCEPT ![p] = "eraseRow"]
          /\ UNCHANGED <<db, store, file, cancelled>>
      BY <1>0, <1>2 DEF EraseCache, NoUndo
    <2> QED
      BY <1>0, <2>1 DEF CalmInv, NoUndo, BytesFirst, NoStrandedBlob, BeingErased
  <1>3. CASE EraseRow(p)
    <2>1. /\ pc[p] = "eraseRow"
          /\ db' = [db EXCEPT ![file[p]] = None]
          /\ pc' = [pc EXCEPT ![p] = "publishGone"]
          /\ UNCHANGED <<store, file, cancelled>>
      BY <1>0, <1>3 DEF EraseRow, NoUndo
    <2> QED
      BY <1>0, <2>1 DEF CalmInv, NoUndo, BytesFirst, NoStrandedBlob, BeingErased
  <1> QED
    BY <1>1, <1>2, <1>3

(* Steps of p that touch neither bytes nor rows, and do not enter or leave *)
(* the places the invariant speaks of.                                     *)
Aside(p) ==
    /\ UNCHANGED <<db, store>> /\ cancelled' \subseteq cancelled
    /\ pc[p] \notin {"insert", "discard", "eraseCache", "eraseRow"}
    /\ pc'[p] \notin {"rollback", "eraseCache", "eraseRow", "publishGone"}
    /\ \A q \in Actors : q # p => pc'[q] = pc[q] /\ file'[q] = file[q]

LEMMA AsideStaysCalm ==
    ASSUME CalmInv, Calm, NEW p \in Actors, Aside(p)
    PROVE  CalmInv'
  <1>1. NoUndo' /\ BytesFirst'
    BY DEF CalmInv, Aside, NoUndo, BytesFirst, Actors
  <1>2. NoStrandedBlob' /\ BeingErased'
    <2>1. \A q \in Reqs : pc[q] # "rollback"
      BY DEF CalmInv, NoUndo
    <2> QED
      BY <2>1 DEF CalmInv, Aside, NoStrandedBlob, BeingErased, Actors
  <1> QED
    BY <1>1, <1>2 DEF CalmInv

LEMMA CalmStep ==
    ASSUME IInv, CalmInv, Next
    PROVE  CalmInv'
  <1> SUFFICES ASSUME Calm' PROVE CalmInv'
    BY DEF CalmInv, NoUndo, BytesFirst, NoStrandedBlob, BeingErased
  <1> USE ServiceAssumption
      DEF TypeOK, Actors, Calm, Free, Begin, Goto, Take, Answer, DeleteReturns,
          Succeeds, Fails, LosesReply, Mishap, backends, call, sweep, history
  <1>0. TypeOK /\ PcInv
    BY DEF IInv, ActorInv
  <1>1. ASSUME NEW p \in Reqs, ReqStart(p)
        PROVE  CalmInv'
    <2>1. Calm /\ Aside(p)
      BY <1>0, <1>1 DEF Aside, ReqStart, RejectUpload, StartUpload, StartLookup, StartDelete
    <2> QED
      BY <2>1, AsideStaysCalm
  <1>2. ASSUME NEW p \in Reqs,
               \/ UploadPut(p) \/ UploadInsert(p) \/ UploadUndo(p)
               \/ UploadCache(p) \/ UploadPublish(p)
        PROVE  CalmInv'
    <2>1. Calm
      BY <1>0, <1>2 DEF UploadPut, UploadInsert, UploadUndo, UploadCache, UploadPublish
    <2> QED
      BY <1>2, <2>1, UploadStaysCalm
  <1>3. ASSUME NEW p \in Actors, EraseBlob(p) \/ EraseCache(p) \/ EraseRow(p)
        PROVE  CalmInv'
    <2>1. Calm
      BY <1>0, <1>3 DEF EraseBlob, EraseCache, EraseRow
    <2> QED
      BY <1>3, <2>1, EraseStaysCalm
  <1>4. ASSUME NEW p \in Reqs,
               \/ LookupCache(p) \/ LookupRow(p) \/ LookupFill(p) \/ LookupCheck(p)
               \/ DownloadOpen(p) \/ DeleteGet(p) \/ DeletePublish(p)
        PROVE  CalmInv'
    <2>1. Calm /\ Aside(p)
      BY <1>0, <1>4 DEF Aside, LookupCache, LookupRow, LookupFill, LookupCheck, DownloadOpen,
                        DeleteGet, DeletePublish
    <2> QED
      BY <2>1, AsideStaysCalm
  <1>5. ASSUME NEW s \in Sweepers, StartSweep(s) \/ PurgeList(s) \/ PurgePublish(s)
        PROVE  CalmInv'
    <2>1. Calm /\ Aside(s)
      BY <1>0, <1>5 DEF Aside, StartSweep, PurgeList, PurgePublish, Advance, NextRow, EndOfBatch
    <2> QED
      BY <2>1, AsideStaysCalm
  <1>6. CASE Environment
    <2>1. Calm /\ UNCHANGED <<db, store, pc, file>> /\ cancelled' \subseteq cancelled
      BY <1>0, <1>6 DEF Environment, Tick, Evict, Cancel, Crash, Restart
    <2> QED
      BY <2>1 DEF CalmInv, NoUndo, BytesFirst, NoStrandedBlob, BeingErased
  <1> QED
    BY <1>1, <1>2, <1>3, <1>4, <1>5, <1>6 DEF Next, ReqStep, SweepStep

(* While nothing fails, CalmInv holds in every state. *)
LEMMA CalmHolds == Spec => [](IInv /\ CalmInv)
  <1>1. Init => CalmInv
    BY DEF Init, CalmInv, NoUndo, BytesFirst, NoStrandedBlob, BeingErased, Actors
  <1>2. IInv /\ CalmInv /\ [Next]_vars => CalmInv'
    <2> SUFFICES ASSUME IInv, CalmInv, [Next]_vars PROVE CalmInv'
      OBVIOUS
    <2>1. CASE UNCHANGED vars
      BY <2>1 DEF vars, backends, call, Calm, CalmInv, NoUndo, BytesFirst, NoStrandedBlob,
                  BeingErased
    <2> QED
      BY <2>1, CalmStep
  <1> QED
    BY <1>1, <1>2, InvariantHolds, PTL DEF Spec

(* While nothing fails, bytes without a row belong to an upload that is     *)
(* about to insert the row or to remove them (Upload's order of Put and     *)
(* Insert, Delete's and PurgeExpired's of store.Delete and repo.Delete).    *)
THEOREM NoBlobStranded == Spec => []NoStrandedBlob
  <1>1. CalmInv => NoStrandedBlob
    BY DEF CalmInv
  <1> QED
    BY <1>1, CalmHolds, PTL

(* While nothing fails, a row without bytes is on its way out and for a     *)
(* reason, whoever else downloads, deletes or sweeps the file.              *)
THEOREM NoRowDangles == Spec => []NoDanglingRow
  <1>1. IInv /\ CalmInv => NoDanglingRow
    BY DEF IInv, ActorInv, EraseInv, EraseOf, CalmInv, BeingErased, NoDanglingRow, Erasing, MayGo
  <1> QED
    BY <1>1, CalmHolds, PTL

-------------------------------------------------------------------------------
(* After a Delete *)

(* A deletion is reported once the row is gone. *)
DeletedInv == deleted \subseteq landed /\ \A id \in deleted : db[id] = None

(* An upload answers as one. *)
OpInv == \A p \in Reqs : pc[p] \in Uploading => op[p] = "upload"

(* A late lookup is one of a file whose deletion was reported. *)
LateInv == \A p \in late : op[p] \in {"metadata", "download"} => file[p] \in deleted

LateReads == DeletedInv /\ OpInv /\ LateInv /\ DeletedBytesUnreachable

LEMMA DeletedStep ==
    ASSUME IInv, DeletedInv, Next
    PROVE  DeletedInv' /\ deleted \subseteq deleted'
  <1> USE DEF TypeOK, Actors, Begin, history, DeleteReturns
  <1>0. TypeOK /\ EraseInv /\ landed \subseteq landed'
    BY Monotone DEF IInv, ActorInv
  <1>1. \/ UNCHANGED deleted
        \/ \E p \in Reqs : /\ deleted' = deleted \cup {file[p]} /\ UNCHANGED db
                           /\ pc[p] \in Erasing /\ db[file[p]] = None
    <2>1. ASSUME NEW p \in Reqs, ReqStart(p)
          PROVE  UNCHANGED deleted
      BY <2>1 DEF ReqStart, RejectUpload, StartUpload, StartLookup, StartDelete
    <2>2. ASSUME NEW p \in Reqs, DeleteGet(p) \/ DeletePublish(p)
          PROVE  \/ UNCHANGED deleted
                 \/ /\ deleted' = deleted \cup {file[p]} /\ UNCHANGED db
                    /\ pc[p] \in Erasing /\ db[file[p]] = None
      BY <1>0, <2>2 DEF DeleteGet, DeletePublish, EraseInv, EraseOf, Erasing, backends
    <2>3. ASSUME NEW p \in Actors,
                 \/ UploadPut(p) \/ UploadInsert(p) \/ UploadUndo(p) \/ UploadCache(p)
                 \/ UploadPublish(p) \/ LookupCache(p) \/ LookupRow(p) \/ LookupFill(p)
                 \/ LookupCheck(p) \/ DownloadOpen(p)
                 \/ EraseBlob(p) \/ EraseCache(p) \/ EraseRow(p)
          PROVE  UNCHANGED deleted
      BY <2>3 DEF UploadPut, UploadInsert, UploadUndo, UploadCache, UploadPublish, LookupCache,
                  LookupRow, LookupFill, LookupCheck, DownloadOpen, EraseBlob, EraseCache,
                  EraseRow
    <2>4. ASSUME NEW s \in Sweepers, StartSweep(s) \/ PurgeList(s) \/ PurgePublish(s)
          PROVE  UNCHANGED deleted
      BY <2>4 DEF StartSweep, PurgeList, PurgePublish
    <2>5. CASE Environment
      BY <2>5 DEF Environment, Tick, Evict, Cancel, Crash, Restart
    <2> QED
      BY <2>1, <2>2, <2>3, <2>4, <2>5 DEF Next, ReqStep, SweepStep
  <1>2. CASE UNCHANGED deleted
    BY <1>0, <1>2, LandedOnlyGoes DEF DeletedInv
  <1>3. CASE \E p \in Reqs : /\ deleted' = deleted \cup {file[p]} /\ UNCHANGED db
                             /\ pc[p] \in Erasing /\ db[file[p]] = None
    BY <1>0, <1>3 DEF DeletedInv, EraseInv, EraseOf
  <1> QED
    BY <1>1, <1>2, <1>3

(* While nothing fails, the bytes of a deleted file are gone. *)
LEMMA DeletedHasNoBytes ==
    ASSUME IInv, CalmInv, DeletedInv, Calm, NEW id \in deleted
    PROVE  store[id] = None
  <1>1. id \in Ids /\ id \in landed /\ db[id] = None
    BY DEF IInv, TypeOK, DeletedInv
  <1>2. ASSUME store[id] # None
        PROVE  FALSE
    <2>1. PICK p \in Reqs : file[p] = id /\ pc[p] \in {"insert", "discard", "rollback"}
      BY <1>1, <1>2 DEF CalmInv, NoStrandedBlob
    <2>2. pc[p] \in {"insert", "discard"}
      BY <2>1 DEF CalmInv, NoUndo
    <2> QED
      BY <1>1, <2>1, <2>2 DEF IInv, ActorInv, UploadInv, UploadOf, Uploading
  <1> QED
    BY <1>2

(* What the steps of one request may change of what LateReads speaks of. *)
LEMMA LateStep ==
    ASSUME IInv, CalmInv, LateReads, Next
    PROVE  LateReads'
  <1> USE DEF TypeOK, Actors, Calm, Begin, Goto, Take, Answer, backends, call, sweep, history
  <1>0. /\ TypeOK /\ PcInv /\ DeletedInv /\ OpInv /\ LateInv /\ DeletedBytesUnreachable
        /\ DeletedInv' /\ deleted \subseteq deleted' /\ Reqs \cap Sweepers = {}
    BY DeletedStep, ServiceAssumption DEF IInv, ActorInv, LateReads
  <1> DEFINE Good == OpInv' /\ LateInv' /\ DeletedBytesUnreachable'
  <1>1. ASSUME NEW p \in Reqs, ReqStart(p)
        PROVE  Good
    <2>1. ASSUME NEW size \in Sizes, RejectUpload(p, size)
          PROVE  Good
      BY <1>0, <2>1 DEF RejectUpload, OpInv, LateInv, DeletedBytesUnreachable, Uploading
    <2>2. ASSUME NEW ttl \in TTLs, NEW size \in Sizes, NEW declared \in {size, Unknown},
                 StartUpload(p, ttl, size, declared)
          PROVE  Good
      BY <1>0, <2>2 DEF StartUpload, OpInv, LateInv, DeletedBytesUnreachable
    <2>3. ASSUME NEW o \in {"metadata", "download"}, NEW id \in Ids, StartLookup(p, o, id)
          PROVE  Good
      BY <1>0, <2>3 DEF StartLookup, OpInv, LateInv, DeletedBytesUnreachable, Uploading
    <2>4. ASSUME NEW id \in Ids, StartDelete(p, id)
          PROVE  Good
      BY <1>0, <2>4 DEF StartDelete, OpInv, LateInv, DeletedBytesUnreachable, Uploading
    <2> QED
      BY <1>1, <2>1, <2>2, <2>3, <2>4 DEF ReqStart
  <1>2. ASSUME NEW p \in Reqs, DownloadOpen(p)
        PROVE  Good
    <2>1. Calm /\ p \in late /\ op[p] = "download" => store[file[p]] = None
      BY <1>0, DeletedHasNoBytes DEF LateInv
    <2>2. /\ UNCHANGED <<op, file, late, deleted>>
          /\ pc' = [pc EXCEPT ![p] = "done"]
          /\ mishaps' = mishaps \/ mishaps' = mishaps + 1
          /\ \/ reply' = [reply EXCEPT ![p] = "error"]
             \/ /\ mishaps' = mishaps /\ store[file[p]] # None
                /\ reply' = [reply EXCEPT ![p] = "ok"]
      BY <1>2 DEF DownloadOpen, Succeeds, Fails, Mishap
    <2> QED
      BY <1>0, <2>1, <2>2 DEF OpInv, LateInv, DeletedBytesUnreachable, Uploading
  <1>3. ASSUME NEW p \in Reqs,
               \/ UploadPut(p) \/ UploadInsert(p) \/ UploadUndo(p) \/ UploadCache(p)
               \/ UploadPublish(p) \/ LookupCache(p) \/ LookupRow(p) \/ LookupFill(p)
               \/ LookupCheck(p) \/ DeleteGet(p)
               \/ EraseBlob(p) \/ EraseCache(p) \/ EraseRow(p) \/ DeletePublish(p)
        PROVE  Good
    <2>1. /\ UNCHANGED <<op, file, late>>
          /\ mishaps' = mishaps \/ mishaps' = mishaps + 1
      BY <1>3, ServiceAssumption
         DEF UploadPut, UploadInsert, UploadUndo, UploadCache, UploadPublish, LookupCache,
             LookupRow, LookupFill, LookupCheck, DeleteGet, EraseBlob, EraseCache, EraseRow,
             DeletePublish, DeleteReturns, Succeeds, Fails, LosesReply, Mishap
    <2>2. /\ \A q \in Reqs : q # p => pc'[q] = pc[q] /\ reply'[q] = reply[q]
          /\ pc'[p] \in Uploading => pc[p] \in Uploading
          /\ pc'[p] = "done" /\ op[p] = "download" => reply'[p] # "ok"
      BY <1>0, <1>3
         DEF UploadPut, UploadInsert, UploadUndo, UploadCache, UploadPublish, LookupCache,
             LookupRow, LookupFill, LookupCheck, DeleteGet, EraseBlob, EraseCache, EraseRow,
             DeletePublish, DeleteReturns, OpInv, Uploading
    <2> QED
      BY <1>0, <2>1, <2>2 DEF OpInv, LateInv, DeletedBytesUnreachable
  <1>4. ASSUME NEW s \in Sweepers, StartSweep(s) \/ SweepStep(s)
        PROVE  Good
    <2>1. /\ UNCHANGED <<op, late>>
          /\ mishaps' = mishaps \/ mishaps' = mishaps + 1
      BY <1>4 DEF StartSweep, SweepStep, PurgeList, EraseBlob, EraseCache, EraseRow, PurgePublish,
                  DeleteReturns, Succeeds, Fails, LosesReply, Mishap
    <2>2. \A q \in Reqs : pc'[q] = pc[q] /\ reply'[q] = reply[q] /\ file'[q] = file[q]
      BY <1>0, <1>4
         DEF StartSweep, SweepStep, PurgeList, EraseBlob, EraseCache, EraseRow, PurgePublish,
             DeleteReturns, Advance, NextRow, EndOfBatch
    <2> QED
      BY <1>0, <2>1, <2>2 DEF OpInv, LateInv, DeletedBytesUnreachable
  <1>5. ASSUME Environment
        PROVE  Good
    <2>1. /\ UNCHANGED <<op, file, late>>
          /\ mishaps' = mishaps \/ mishaps' = mishaps + 1
          /\ \A q \in Reqs : (pc'[q] = pc[q] /\ reply'[q] = reply[q]) \/ pc'[q] = "idle"
      BY <1>0, <1>5 DEF Environment, Tick, Evict, Cancel, Crash, Restart, Mishap
    <2> QED
      BY <1>0, <2>1 DEF OpInv, LateInv, DeletedBytesUnreachable, Uploading
  <1>6. Good
    BY <1>1, <1>2, <1>3, <1>4, <1>5 DEF Next, ReqStep
  <1> QED
    BY <1>0, <1>6 DEF LateReads

(* While nothing fails, a Download that begins after a Delete of its file   *)
(* has returned nil never gets the bytes, although a racing lookup may have *)
(* put the record back into the cache: the bytes are gone before the row.   *)
THEOREM DeletedStaysUnread == Spec => []DeletedBytesUnreachable
  <1>1. Init => LateReads
    BY DEF Init, LateReads, DeletedInv, OpInv, LateInv, DeletedBytesUnreachable, Uploading, Actors
  <1>2. IInv /\ CalmInv /\ LateReads /\ [Next]_vars => LateReads'
    <2> SUFFICES ASSUME IInv, CalmInv, LateReads, [Next]_vars PROVE LateReads'
      OBVIOUS
    <2>1. CASE UNCHANGED vars
      BY <2>1 DEF vars, backends, call, history, Calm, LateReads, DeletedInv, OpInv, LateInv,
                  DeletedBytesUnreachable
    <2> QED
      BY <2>1, LateStep
  <1>3. LateReads => DeletedBytesUnreachable
    BY DEF LateReads
  <1> QED
    BY <1>1, <1>2, <1>3, CalmHolds, PTL DEF Spec
===============================================================================
