--------------------------- MODULE FileServiceSafety --------------------------
(***************************************************************************)
(* The safety of FileService, proved by one inductive invariant: what each *)
(* layer and each actor between two calls may hold, whatever fails.  From  *)
(* it follows that FileService implements FileCatalog.                     *)
(***************************************************************************)
EXTENDS FileServiceTypes

USE DEF PutObject, DeleteObject, HasObject, Insert, DeleteRow, HasRow,
        CacheHit, CacheSet, CacheDelete, Publish

Uploading == {"put", "insert", "discard", "rollback", "cacheNew", "publishNew"}
LookingUp == {"cacheGet", "getByID", "fill", "check", "open"}
Erasing   == {"deleteGet", "eraseBlob", "eraseCache", "eraseRow", "publishGone"}

(* The files that may be gone, and those past their exact expiry.           *)
MayGo   == {id \in Ids : Doomed(id)}
Overdue == {id \in Ids : Expired(promised[id], now)}

(* The expiries a record of a file may carry: exact where it comes from the *)
(* upload, rounded where it has been through MySQL.                         *)
Known == [id \in Ids |-> {promised[id], AsTimestamp(promised[id])}]

(* The files that need not be kept, or are: a row, and the bytes it counts. *)
Kept == {id \in Ids : id \in MayGo \/ (db[id] # None /\ store[id] = db[id].size)}

PcInv ==
    /\ \A p \in Reqs : pc[p] # "list"
    /\ \A s \in Sweepers : pc[s] \in {"idle", "done", "list"} \cup (Erasing \ {"deleteGet"})

HistoryInv ==
    /\ requested \subseteq acked
    /\ acked \subseteq landed
    /\ \A id \in landed : promised[id] # None

RowInv ==
    \A id \in Ids : db[id] # None => id \in landed /\ db[id].exp = AsTimestamp(promised[id])

CacheInv ==
    \A id \in Ids : cache[id] # None => id \in landed /\ cache[id].exp \in Known[id]

UploadOf(p) ==
    pc[p] \in Uploading =>
        /\ promised[file[p]] # None
        /\ meta[p].exp = promised[file[p]]
        /\ file[p] \notin acked
        /\ pc[p] \in {"put", "insert", "discard"} => file[p] \notin landed
        /\ pc[p] = "insert" => store[file[p]] = meta[p].size
        /\ pc[p] \in {"cacheNew", "publishNew"} => file[p] \in landed /\ file[p] \in Kept

UploadsApart ==
    \A p, q \in Reqs :
        p # q /\ pc[p] \in Uploading /\ pc[q] \in Uploading => file[p] # file[q]

LookupOf(p) ==
    pc[p] \in LookingUp =>
        /\ file[p] \in acked
        /\ pc[p] \in {"fill", "check"} => meta[p].exp \in Known[file[p]]

(* Whoever is about to erase a file may do so. *)
EraseOf(p) ==
    pc[p] \in Erasing =>
        /\ file[p] \in landed
        /\ file[p] \in MayGo
        /\ pc[p] = "publishGone" => db[file[p]] = None

SweepOf(s) ==
    /\ todo[s] \subseteq landed \cap Overdue
    /\ pc[s] \in Erasing => file[s] \in Overdue

AnswerOf(p) ==
    pc[p] = "done" /\ reply[p] = "notFound" => file[p] \in landed \cap MayGo

UploadInv == \A p \in Reqs : UploadOf(p)
LookupInv == \A p \in Reqs : LookupOf(p)
EraseInv  == \A p \in Actors : EraseOf(p)
SweepInv  == \A s \in Sweepers : SweepOf(s)
AnswerInv == \A p \in Reqs : AnswerOf(p)

KeptInv == acked \subseteq Kept

EventInv ==
    \A id \in Ids :
        /\ events[id] \cap {"deleted", "expired"} # {} =>
                db[id] = None /\ id \in landed \cap MayGo
        /\ "expired" \in events[id] => id \in Overdue

LayerInv == HistoryInv /\ RowInv /\ CacheInv /\ KeptInv /\ EventInv

ActorInv ==
    /\ PcInv /\ UploadInv /\ UploadsApart /\ LookupInv
    /\ EraseInv /\ SweepInv /\ AnswerInv

IInv == TypeOK /\ HasFile /\ LayerInv /\ ActorInv

-------------------------------------------------------------------------------
(* History only grows: a promise is never changed, time never runs back. *)
LEMMA Monotone ==
    ASSUME TypeOK, Next
    PROVE  /\ landed \subseteq landed' /\ acked \subseteq acked' /\ requested \subseteq requested'
           /\ now' \in Nat /\ now <= now'
           /\ \A id \in Ids : promised[id] # None => promised'[id] = promised[id]
  <1> USE DEF TypeOK, history, Begin
  <1>1. ASSUME NEW p \in Reqs, ReqStart(p)
        PROVE  /\ UNCHANGED <<now, landed, acked>> /\ requested \subseteq requested'
               /\ \A id \in Ids : promised[id] # None => promised'[id] = promised[id]
    BY <1>1 DEF ReqStart, RejectUpload, StartUpload, StartLookup, StartDelete
  <1>2. ASSUME NEW p \in Reqs, ReqStep(p)
        PROVE  /\ landed \subseteq landed' /\ acked \subseteq acked'
               /\ UNCHANGED <<now, requested, promised>>
    BY <1>2 DEF ReqStep, UploadPut, UploadInsert, UploadUndo, UploadCache, UploadPublish,
                LookupCache, LookupRow, LookupFill, LookupCheck, DownloadOpen, DeleteGet,
                EraseBlob, EraseCache, EraseRow, DeletePublish, DeleteReturns
  <1>3. ASSUME NEW s \in Sweepers, StartSweep(s) \/ SweepStep(s)
        PROVE  UNCHANGED <<now, landed, acked, requested, promised>>
    BY <1>3 DEF StartSweep, SweepStep, PurgeList, EraseBlob, EraseCache, EraseRow,
                DeleteReturns, PurgePublish
  <1>4. CASE Environment
    BY <1>4 DEF Environment, Tick, Evict, Cancel, Crash, Restart
  <1> QED
    BY <1>1, <1>2, <1>3, <1>4 DEF Next

(* What the invariant needs to know of every step. *)
Stays ==
    /\ landed \subseteq landed' /\ acked \subseteq acked'
    /\ \A id \in Ids : promised[id] # None =>
        /\ promised'[id] = promised[id]
        /\ Known'[id] = Known[id]
        /\ id \in MayGo => id \in MayGo'
        /\ id \in Overdue => id \in Overdue'

(* What may go, and what is known of an expiry, stays so in every step. *)
LEMMA NextStays ==
    ASSUME TypeOK, Next
    PROVE  Stays
  <1>1. ASSUME NEW id \in Ids, promised[id] # None
        PROVE  /\ promised'[id] = promised[id]
               /\ Known'[id] = Known[id]
               /\ id \in MayGo => id \in MayGo'
               /\ id \in Overdue => id \in Overdue'
    <2>1. /\ promised'[id] = promised[id] /\ promised[id] \in Expiries
          /\ now \in Nat /\ now' \in Nat /\ now <= now'
          /\ requested \subseteq requested'
      BY <1>1, Monotone DEF TypeOK
    <2>2. AsTimestamp(promised[id]) \in Expiries
      BY <2>1, AsTimestampType
    <2> QED
      BY <2>1, <2>2 DEF MayGo, Overdue, Doomed, Expired, Known, Expiries, Never
  <1> QED
    BY <1>1, Monotone DEF Stays

-------------------------------------------------------------------------------
(* One actor's step *)

ActorOK(p) ==
    /\ p \in Reqs => pc[p] # "list" /\ UploadOf(p) /\ LookupOf(p) /\ AnswerOf(p)
    /\ p \in Sweepers =>
         pc[p] \in {"idle", "done", "list"} \cup (Erasing \ {"deleteGet"}) /\ SweepOf(p)
    /\ EraseOf(p)

LEMMA EveryActor ==
    ASSUME ActorInv, NEW p \in Actors
    PROVE  ActorOK(p)
  BY DEF ActorInv, ActorOK, PcInv, UploadInv, LookupInv, AnswerInv, SweepInv, EraseInv

LEMMA ActorsTogether ==
    ASSUME UploadsApart', \A p \in Actors : ActorOK(p)'
    PROVE  ActorInv'
  BY DEF ActorInv, ActorOK, PcInv, UploadInv, LookupInv, AnswerInv, SweepInv, EraseInv, Actors

(* The step is p's: it leaves the other actors where they are, and the      *)
(* backends change in p's file at most, for which p must be somebody who    *)
(* uploads or erases it.  A row that is gone stays gone, and what is kept    *)
(* stays so unless it is p's own upload, which nobody else knows of.        *)
Own(p) ==
    /\ \A q \in Actors : q # p => /\ pc'[q] = pc[q] /\ file'[q] = file[q]
                                  /\ meta'[q] = meta[q] /\ reply'[q] = reply[q]
    /\ \A q \in Sweepers : q # p => todo'[q] = todo[q]
    /\ \/ UNCHANGED <<landed, acked>>
       \/ /\ pc[p] \in Uploading
          /\ landed' \subseteq landed \cup {file[p]} /\ acked' \subseteq acked \cup {file[p]}
    /\ \/ UNCHANGED store
       \/ /\ pc[p] \in Uploading \cup Erasing
          /\ \A id \in Ids : id # file[p] => store'[id] = store[id]
    /\ \A id \in landed :
         /\ db[id] = None => db'[id] = None
         /\ id \in Kept => id \in Kept' \/ (id = file[p] /\ pc[p] \in Uploading)

(* What is known of a file that was inserted once is known from then on. *)
LEMMA LandedStays ==
    ASSUME IInv, Stays, NEW id \in landed
    PROVE  /\ id \in Ids /\ promised[id] # None /\ promised'[id] = promised[id]
           /\ id \in landed' /\ Known'[id] = Known[id]
           /\ id \in MayGo => id \in MayGo'
           /\ id \in Overdue => id \in Overdue'
  BY DEF IInv, TypeOK, LayerInv, HistoryInv, Stays

(* An actor that a step is not about knows after it what it knew before. *)
LEMMA OthersKeep ==
    ASSUME IInv, Stays, NEW p \in Actors, Own(p), NEW q \in Actors, q # p
    PROVE  ActorOK(q)'
  <1>0. /\ ActorOK(q) /\ UploadsApart /\ EraseOf(p) /\ PcInv /\ acked \subseteq landed
        /\ file[q] \in Ids \/ pc[q] \in {"idle", "done", "list"}
    BY EveryActor DEF IInv, ActorInv, LayerInv, HistoryInv, EraseInv, HasFile
  <1>1. /\ pc'[q] = pc[q] /\ file'[q] = file[q] /\ meta'[q] = meta[q] /\ reply'[q] = reply[q]
        /\ q \in Sweepers => todo'[q] = todo[q]
    BY DEF Own
  <1>2. pc[p] \in Uploading => p \in Reqs
    BY <1>0 DEF PcInv, Actors, Uploading, Erasing
  <1>3. q \in Reqs => UploadOf(q)'
    <2> SUFFICES ASSUME q \in Reqs, pc[q] \in Uploading
                 PROVE  /\ promised'[file[q]] # None
                        /\ meta[q].exp = promised'[file[q]]
                        /\ file[q] \notin acked'
                        /\ pc[q] \in {"put", "insert", "discard"} => file[q] \notin landed'
                        /\ pc[q] = "insert" => store'[file[q]] = meta[q].size
                        /\ pc[q] \in {"cacheNew", "publishNew"} =>
                                file[q] \in landed' /\ file[q] \in Kept'
      BY <1>1 DEF UploadOf
    <2>1. UploadOf(q) /\ file[q] \in Ids
      BY <1>0 DEF ActorOK, Uploading
    <2>2. pc[p] \in Uploading => file[p] # file[q]
      BY <1>0, <1>2 DEF UploadsApart
    <2>3. promised'[file[q]] = promised[file[q]]
      BY <2>1 DEF UploadOf, Stays
    <2>4. file[q] \notin acked' /\ (file[q] \notin landed => file[q] \notin landed')
      BY <2>1, <2>2 DEF UploadOf, Own
    <2>5. pc[q] = "insert" => store'[file[q]] = store[file[q]]
      BY <1>0, <2>1, <2>2 DEF UploadOf, EraseOf, Own
    <2>6. file[q] \in landed /\ file[q] \in Kept => file[q] \in landed' /\ file[q] \in Kept'
      BY <2>2, LandedStays DEF Own
    <2> QED
      BY <2>1, <2>3, <2>4, <2>5, <2>6 DEF UploadOf
  <1>4. q \in Reqs => LookupOf(q)' /\ AnswerOf(q)'
    BY <1>0, <1>1, LandedStays DEF ActorOK, LookupOf, AnswerOf, Stays
  <1>5. ASSUME q \in Sweepers
        PROVE  SweepOf(q)'
    <2>1. /\ SweepOf(q) /\ todo'[q] = todo[q] /\ file'[q] = file[q] /\ pc'[q] = pc[q]
          /\ pc[q] \in Erasing => file[q] \in landed
      BY <1>0, <1>1, <1>5 DEF ActorOK, EraseOf
    <2>2. \A id \in landed : id \in Overdue => id \in Overdue' /\ id \in landed'
      BY LandedStays
    <2> QED
      BY <2>1, <2>2 DEF SweepOf
  <1>6. EraseOf(q)'
    BY <1>0, <1>1, LandedStays DEF ActorOK, EraseOf, Own
  <1> QED
    BY <1>0, <1>1, <1>3, <1>4, <1>5, <1>6 DEF ActorOK

(* So a step of p keeps what is known of all actors if it keeps it of p. *)
LEMMA OwnStep ==
    ASSUME IInv, Stays, NEW p \in Actors, Own(p), ActorOK(p)',
           pc'[p] \in Uploading => pc[p] \in Uploading /\ file'[p] = file[p]
    PROVE  ActorInv'
  <1>1. UploadsApart'
    BY DEF Own, UploadsApart, IInv, ActorInv, Actors
  <1> QED
    BY <1>1, OthersKeep, ActorsTogether

(* The layers, in a step that leaves the rows alone: an entry that is new   *)
(* must be of a known expiry, an event that is new must be true.            *)
LEMMA LayersStay ==
    ASSUME IInv, Stays, UNCHANGED <<db, landed>>,
           requested' \subseteq requested \cup acked, acked' \subseteq landed,
           \A id \in acked' : id \in Kept',
           \A id \in Ids : \/ cache'[id] \in {None, cache[id]}
                           \/ id \in landed /\ cache'[id].exp \in Known[id],
           \A id \in Ids : \/ events'[id] \subseteq events[id] \cup {"uploaded"}
                           \/ /\ db[id] = None /\ id \in landed \cap MayGo
                              /\ "expired" \in events'[id] =>
                                    "expired" \in events[id] \/ id \in Overdue
    PROVE  LayerInv'
  <1>0. HistoryInv /\ RowInv /\ CacheInv /\ EventInv
    BY DEF IInv, LayerInv
  <1>1. \A id \in landed : /\ id \in Ids /\ promised[id] # None /\ promised'[id] = promised[id]
                           /\ Known'[id] = Known[id]
                           /\ id \in MayGo => id \in MayGo'
                           /\ id \in Overdue => id \in Overdue'
    BY LandedStays
  <1>2. HistoryInv'
    BY <1>0, <1>1 DEF HistoryInv, Stays
  <1>3. RowInv'
    BY <1>0, <1>1 DEF RowInv
  <1>4. CacheInv'
    BY <1>0, <1>1 DEF CacheInv
  <1>5. EventInv'
    <2> SUFFICES ASSUME NEW id \in Ids
                 PROVE  /\ events'[id] \cap {"deleted", "expired"} # {} =>
                              db'[id] = None /\ id \in landed' /\ id \in MayGo'
                        /\ "expired" \in events'[id] => id \in Overdue'
      BY DEF EventInv
    <2>1. /\ events[id] \cap {"deleted", "expired"} # {} =>
                db[id] = None /\ id \in landed \cap MayGo
          /\ "expired" \in events[id] => id \in Overdue
      BY <1>0 DEF EventInv
    <2>2. CASE events'[id] \subseteq events[id] \cup {"uploaded"}
      BY <1>1, <2>1, <2>2
    <2>3. CASE /\ db[id] = None /\ id \in landed \cap MayGo
               /\ "expired" \in events'[id] => "expired" \in events[id] \/ id \in Overdue
      BY <1>1, <2>1, <2>3
    <2> QED
      BY <2>2, <2>3
  <1>6. KeptInv'
    BY DEF KeptInv
  <1> QED
    BY <1>2, <1>3, <1>4, <1>5, <1>6 DEF LayerInv

(* Entering a handler keeps the invariant. *)
LEMMA StartKeepsInv ==
    ASSUME IInv, TypeOK', Stays, NEW p \in Reqs, ReqStart(p)
    PROVE  LayerInv' /\ ActorInv'
  <1>0. /\ p \in Actors /\ p \notin Sweepers /\ TypeOK /\ HistoryInv /\ KeptInv
        /\ Uploading \cap {"done", "cacheGet", "deleteGet"} = {}
        /\ LookingUp \cap {"done", "put", "deleteGet"} = {}
        /\ Erasing \cap {"done", "put", "cacheGet"} = {}
    BY ServiceAssumption DEF IInv, LayerInv, Actors, Uploading, LookingUp, Erasing
  <1>1. /\ UNCHANGED <<backends, landed, acked, todo>> /\ requested \subseteq requested'
        /\ \A q \in Actors : q # p => /\ pc'[q] = pc[q] /\ file'[q] = file[q]
                                      /\ meta'[q] = meta[q] /\ reply'[q] = reply[q]
    BY <1>0 DEF ReqStart, RejectUpload, StartUpload, StartLookup, StartDelete, Begin, Answer,
                TypeOK, sweep, history
  <1>2. \A id \in landed : id \in Kept => id \in Kept'
    BY <1>1, LandedStays DEF Kept, backends
  <1>3. Own(p)
    BY <1>1, <1>2 DEF Own, backends
  <1>4. requested' \subseteq requested \cup acked
    BY DEF ReqStart, RejectUpload, StartUpload, StartLookup, StartDelete, Begin, history
  <1>5. LayerInv'
    BY <1>0, <1>1, <1>2, <1>4, LayersStay DEF backends, HistoryInv, KeptInv
  <1>6. ASSUME NEW size \in Sizes, RejectUpload(p, size)
        PROVE  ActorInv'
    <2>1. pc'[p] = "done" /\ reply'[p] = "tooLarge"
      BY <1>0, <1>6 DEF RejectUpload, Answer, TypeOK
    <2>2. ActorOK(p)'
      BY <1>0, <2>1 DEF ActorOK, UploadOf, LookupOf, AnswerOf, EraseOf
    <2> QED
      BY <1>0, <1>3, <2>1, <2>2, OwnStep
  <1>7. ASSUME NEW ttl \in TTLs, NEW size \in Sizes, NEW declared \in {size, Unknown},
               StartUpload(p, ttl, size, declared)
        PROVE  ActorInv'
    <2> DEFINE exp == ExpiryFor(ttl, DefaultTTL, now)
    <2>1. exp \in Expiries /\ exp # None
      BY <1>0, ExpiryForType, ServiceAssumption DEF TypeOK
    <2> HIDE DEF exp
    <2>2. PICK id \in Ids :
            /\ promised[id] = None
            /\ promised' = [promised EXCEPT ![id] = exp]
            /\ Begin(p, "upload", id, [exp |-> exp, size |-> size], "put")
      BY <1>7 DEF StartUpload, exp
    <2>3. /\ pc'[p] = "put" /\ file'[p] = id /\ meta'[p].exp = exp /\ promised'[id] = exp
      BY <1>0, <2>2 DEF Begin, TypeOK
    <2>4. id \notin landed' /\ id \notin acked'
      BY <1>0, <1>1, <2>2 DEF HistoryInv
    <2>5. ActorOK(p)'
      BY <1>0, <2>1, <2>3, <2>4 DEF ActorOK, UploadOf, LookupOf, AnswerOf, EraseOf
    <2>6. UploadInv /\ UploadsApart
      BY DEF IInv, ActorInv
    <2>7. \A q \in Reqs : q # p /\ pc[q] \in Uploading => file[q] # id
      BY <2>2, <2>6 DEF UploadInv, UploadOf
    <2>8. UploadsApart'
      BY <1>0, <1>1, <2>3, <2>6, <2>7 DEF UploadsApart, Actors
    <2> QED
      BY <1>0, <1>3, <2>5, <2>8, OthersKeep, ActorsTogether
  <1>8. ASSUME NEW o \in {"metadata", "download"}, NEW id \in Ids, StartLookup(p, o, id)
        PROVE  ActorInv'
    <2>1. pc'[p] = "cacheGet" /\ file'[p] \in acked'
      BY <1>0, <1>8 DEF StartLookup, Begin, TypeOK
    <2>2. ActorOK(p)'
      BY <1>0, <2>1 DEF ActorOK, UploadOf, LookupOf, AnswerOf, EraseOf
    <2> QED
      BY <1>0, <1>3, <2>1, <2>2, OwnStep
  <1>9. ASSUME NEW id \in Ids, StartDelete(p, id)
        PROVE  ActorInv'
    <2>1. pc'[p] = "deleteGet" /\ file'[p] = id /\ id \in landed' /\ id \in requested'
      BY <1>0, <1>9 DEF StartDelete, Begin, TypeOK, HistoryInv
    <2>2. id \in MayGo'
      BY <2>1 DEF MayGo, Doomed
    <2>3. ActorOK(p)'
      BY <1>0, <2>1, <2>2 DEF ActorOK, UploadOf, LookupOf, AnswerOf, EraseOf
    <2> QED
      BY <1>0, <1>3, <2>1, <2>3, OwnStep
  <1> QED
    BY <1>5, <1>6, <1>7, <1>8, <1>9 DEF ReqStart

(* The steps of Upload keep it. *)
LEMMA UploadKeepsInv ==
    ASSUME IInv, TypeOK', Stays, NEW p \in Reqs,
           \/ UploadPut(p) \/ UploadInsert(p) \/ UploadUndo(p)
           \/ UploadCache(p) \/ UploadPublish(p)
    PROVE  LayerInv' /\ ActorInv'
  <1>0. /\ p \in Actors /\ p \notin Sweepers /\ TypeOK /\ file[p] \in Ids /\ pc[p] \in Uploading
        /\ UploadOf(p) /\ LayerInv
    <2>1. p \in Actors /\ p \notin Sweepers /\ pc[p] \in Uploading
      BY ServiceAssumption
         DEF Actors, Uploading, UploadPut, UploadInsert, UploadUndo, UploadCache, UploadPublish
    <2>2. UploadInv /\ LayerInv /\ TypeOK /\ HasFile
      BY DEF IInv, ActorInv
    <2>3. pc[p] \notin {"idle", "done", "list"}
      BY <2>1 DEF Uploading
    <2> QED
      BY <2>1, <2>2, <2>3 DEF HasFile, UploadInv
  <1>1. /\ pc'[p] \in Uploading \cup {"done"}
        /\ pc'[p] # "done" => meta'[p] = meta[p]
        /\ pc'[p] = "done" => reply'[p] # "notFound"
        /\ UNCHANGED <<file, todo, promised, requested>>
        /\ \A q \in Actors : q # p => /\ pc'[q] = pc[q] /\ meta'[q] = meta[q]
                                      /\ reply'[q] = reply[q]
    <2>1. \/ \E at \in Uploading : Goto(p, at)
          \/ \E a \in {"ok", "error", "tooLarge"} : Answer(p, a)
      BY DEF UploadPut, UploadInsert, UploadUndo, UploadCache, UploadPublish, Uploading
    <2>2. UNCHANGED <<file, todo, promised, requested>>
      BY DEF UploadPut, UploadInsert, UploadUndo, UploadCache, UploadPublish,
             call, sweep, history
    <2>3. "done" \notin Uploading
      BY DEF Uploading
    <2> QED
      BY <1>0, <2>1, <2>2, <2>3 DEF Goto, Answer, TypeOK
  <1>2. /\ "done" \notin Uploading \cup LookingUp \cup Erasing
        /\ Uploading \cap LookingUp = {} /\ Uploading \cap Erasing = {}
        /\ "list" \notin Uploading
    BY DEF Uploading, LookingUp, Erasing
  <1>3. ASSUME pc'[p] \in Uploading => UploadOf(p)', Own(p)
        PROVE  ActorInv'
    <2>1. ActorOK(p)'
      BY <1>0, <1>1, <1>2, <1>3 DEF ActorOK, UploadOf, LookupOf, AnswerOf, EraseOf
    <2> QED
      BY <1>0, <1>1, <1>2, <1>3, <2>1, OwnStep
  <1>4. CASE UploadPut(p) \/ UploadUndo(p)
    <2>1. /\ pc[p] \in {"put", "discard", "rollback"}
          /\ UNCHANGED <<db, cache, events, landed, acked>>
          /\ \A id \in Ids : id # file[p] => store'[id] = store[id]
          /\ pc'[p] \in {"insert", "discard", "done"}
          /\ pc'[p] # "done" => pc[p] = "put" /\ store'[file[p]] = meta[p].size
      BY <1>0, <1>4 DEF UploadPut, UploadUndo, Goto, Answer, TypeOK, history
    <2>2. \A id \in landed : id # file[p] => (id \in Kept => id \in Kept')
      BY <2>1, LandedStays DEF Kept
    <2>3. \A id \in acked' : id \in Kept'
      BY <1>0, <2>1, <2>2 DEF UploadOf, LayerInv, HistoryInv, KeptInv
    <2>4. LayerInv'
      BY <1>0, <1>1, <2>1, <2>3, LayersStay DEF LayerInv, HistoryInv
    <2>5. pc'[p] \in Uploading => UploadOf(p)'
      BY <1>0, <1>1, <1>2, <2>1 DEF UploadOf
    <2>6. Own(p)
      BY <1>0, <1>1, <2>1, <2>2 DEF Own
    <2> QED
      BY <1>3, <2>4, <2>5, <2>6
  <1>5. CASE UploadInsert(p)
    <2> DEFINE row == [meta[p] EXCEPT !.exp = AsTimestamp(@)]
    <2>1. /\ row \in Meta /\ row # None /\ row.exp = AsTimestamp(meta[p].exp)
          /\ row.size = meta[p].size
      <3>1. meta[p] \in Meta
        BY <1>0 DEF TypeOK
      <3>2. row \in Meta /\ row.exp = AsTimestamp(meta[p].exp) /\ row.size = meta[p].size
        BY <3>1, AsTimestampType DEF Meta
      <3> HIDE DEF row
      <3> QED
        BY <3>2, ServiceAssumption
    <2>2. /\ pc[p] = "insert" /\ UNCHANGED <<store, cache, events, acked>>
          /\ \/ db' = [db EXCEPT ![file[p]] = row] /\ landed' = landed \cup {file[p]}
             \/ UNCHANGED <<db, landed>>
      BY <1>5 DEF UploadInsert
    <2>3. /\ pc'[p] \in {"cacheNew", "rollback"}
          /\ pc'[p] = "cacheNew" => db'[file[p]] = row /\ landed' = landed \cup {file[p]}
      BY <1>0, <1>5 DEF UploadInsert, Goto, TypeOK
    <2> HIDE DEF row
    <2>4. \A id \in Ids : id # file[p] => db'[id] = db[id]
      <3>1. db = [id \in Ids |-> db[id]]
        BY <1>0 DEF TypeOK
      <3> QED
        BY <2>2, <3>1
    <2>5. file[p] \notin landed /\ file[p] \notin acked /\ promised[file[p]] # None
      BY <1>0, <2>2 DEF UploadOf
    <2>6. db'[file[p]] = db[file[p]] \/ (db'[file[p]] = row /\ file[p] \in landed')
      BY <1>0, <2>2 DEF TypeOK
    <2>7. landed \subseteq landed' /\ landed' \subseteq landed \cup {file[p]} /\ landed \subseteq Ids
      BY <1>0, <2>2 DEF TypeOK
    <2>8. \A id \in landed : /\ id \in Kept => id \in Kept'
                             /\ id \in MayGo => id \in MayGo'
                             /\ id \in Overdue => id \in Overdue'
      BY <2>2, <2>4, <2>5, LandedStays DEF Kept
    <2>9. HistoryInv' /\ KeptInv'
      BY <1>0, <1>1, <2>2, <2>5, <2>7, <2>8 DEF LayerInv, HistoryInv, KeptInv
    <2>10. RowInv'
      BY <1>0, <1>1, <2>1, <2>4, <2>6, <2>7 DEF LayerInv, RowInv, UploadOf
    <2>11. CacheInv'
      BY <1>0, <2>2, <2>7, LandedStays DEF LayerInv, CacheInv
    <2>12. EventInv'
      BY <1>0, <2>2, <2>4, <2>5, <2>7, <2>8 DEF LayerInv, EventInv
    <2>13. UploadOf(p)'
      <3>1. pc'[p] = "cacheNew" => file[p] \in Kept'
        BY <1>0, <2>1, <2>2, <2>3 DEF UploadOf, Kept
      <3> QED
        BY <1>0, <1>1, <2>2, <2>3, <2>5, <3>1 DEF UploadOf
    <2>14. Own(p)
      BY <1>0, <1>1, <2>2, <2>4, <2>5, <2>7, <2>8 DEF Own
    <2> QED
      BY <1>3, <2>9, <2>10, <2>11, <2>12, <2>13, <2>14 DEF LayerInv
  <1>6. CASE UploadCache(p) \/ UploadPublish(p)
    <2>1. /\ pc[p] \in {"cacheNew", "publishNew"}
          /\ UNCHANGED <<db, store, landed>>
          /\ acked' \subseteq acked \cup {file[p]}
          /\ pc'[p] # "done" => pc'[p] = "publishNew" /\ UNCHANGED acked
          /\ \A id \in Ids : cache'[id] = cache[id] \/ (id = file[p] /\ cache'[id] = meta[p])
          /\ \A id \in Ids : events'[id] \subseteq events[id] \cup {"uploaded"}
      BY <1>0, <1>6 DEF UploadCache, UploadPublish, Goto, Answer, TypeOK, history
    <2>2. file[p] \in landed /\ file[p] \in Kept /\ meta[p].exp \in Known[file[p]]
      BY <1>0, <2>1 DEF UploadOf, Known
    <2>3. \A id \in landed : id \in Kept => id \in Kept'
      BY <2>1, LandedStays DEF Kept
    <2>4. acked' \subseteq landed /\ \A id \in acked' : id \in Kept'
      BY <1>0, <2>1, <2>2, <2>3 DEF LayerInv, HistoryInv, KeptInv
    <2>5. \A id \in Ids : \/ cache'[id] \in {None, cache[id]}
                          \/ id \in landed /\ cache'[id].exp \in Known[id]
      BY <2>1, <2>2
    <2>6. LayerInv'
      BY <1>1, <2>1, <2>4, <2>5, LayersStay
    <2>7. pc'[p] \in Uploading => UploadOf(p)'
      BY <1>0, <1>1, <1>2, <2>1, <2>2, <2>3 DEF UploadOf
    <2>8. Own(p)
      BY <1>0, <1>1, <2>1, <2>3 DEF Own
    <2> QED
      BY <1>3, <2>6, <2>7, <2>8
  <1> QED
    BY <1>4, <1>5, <1>6

(* The steps of Metadata and Download keep it. *)
LEMMA LookupKeepsInv ==
    ASSUME IInv, TypeOK', Stays, NEW p \in Reqs,
           \/ LookupCache(p) \/ LookupRow(p) \/ LookupFill(p) \/ LookupCheck(p)
           \/ DownloadOpen(p)
    PROVE  LayerInv' /\ ActorInv'
  <1>0. /\ p \in Actors /\ p \notin Sweepers /\ TypeOK /\ LayerInv
        /\ pc[p] \in LookingUp /\ LookupOf(p)
    BY ServiceAssumption
       DEF IInv, ActorInv, LookupInv, Actors, LookingUp,
           LookupCache, LookupRow, LookupFill, LookupCheck, DownloadOpen
  <1>1. /\ file[p] \in acked /\ file[p] \in landed /\ file[p] \in Ids
        /\ acked \subseteq landed /\ \A id \in acked : id \in Kept
    BY <1>0 DEF LookupOf, LayerInv, HistoryInv, KeptInv, TypeOK
  <1>2. /\ "done" \notin Uploading \cup LookingUp \cup Erasing
        /\ Uploading \cap LookingUp = {} /\ LookingUp \cap Erasing = {}
        /\ Uploading \cap Erasing = {} /\ "list" \notin LookingUp \cup Erasing
    BY DEF Uploading, LookingUp, Erasing
  <1>3. /\ UNCHANGED <<now, db, store, events, file, todo, promised, landed, acked, requested>>
        /\ \A q \in Actors : q # p => /\ pc'[q] = pc[q] /\ meta'[q] = meta[q]
                                      /\ reply'[q] = reply[q]
    BY <1>0 DEF LookupCache, LookupRow, LookupFill, LookupCheck, DownloadOpen,
                Goto, Take, Answer, TypeOK, backends, call, sweep, history
  <1>4. \A id \in landed : id \in Kept => id \in Kept'
    BY <1>3, LandedStays DEF Kept
  <1>5. Own(p)
    BY <1>3, <1>4 DEF Own
  <1>6. \A id \in Ids : cache'[id] = cache[id] \/ (id = file[p] /\ cache'[id].exp \in Known[id])
    BY <1>0, <1>1 DEF LookupCache, LookupRow, LookupFill, LookupCheck, DownloadOpen,
                      backends, LookupOf, TypeOK
  <1>7. LayerInv'
    BY <1>1, <1>3, <1>4, <1>6, LayersStay
  <1>8. ASSUME \/ pc'[p] \in LookingUp /\ (pc'[p] \in {"fill", "check"} => meta'[p].exp \in Known[file[p]])
               \/ pc'[p] = "deleteGet" /\ file[p] \in MayGo
               \/ pc'[p] = "done" /\ (reply'[p] = "notFound" => file[p] \in MayGo)
        PROVE  ActorInv'
    <2>1. ~(pc'[p] \in Uploading) /\ pc'[p] # "list" /\ pc'[p] # "publishGone"
      BY <1>2, <1>8 DEF Uploading, LookingUp
    <2>2. LookupOf(p)'
      BY <1>1, <1>2, <1>3, <1>8, LandedStays DEF LookupOf, LookingUp
    <2>3. EraseOf(p)' /\ AnswerOf(p)'
      BY <1>1, <1>2, <1>3, <1>8, <2>1, LandedStays DEF EraseOf, AnswerOf
    <2>4. ActorOK(p)'
      BY <1>0, <2>1, <2>2, <2>3 DEF ActorOK, UploadOf
    <2> QED
      BY <1>0, <1>5, <2>1, <2>4, OwnStep
  <1>9. CASE LookupCache(p)
    <2>1. CacheInv
      BY <1>0 DEF LayerInv
    <2>2. \/ pc'[p] = "check" /\ meta'[p] = cache[file[p]] /\ cache[file[p]] # None
          \/ pc'[p] = "getByID"
      BY <1>0, <1>9 DEF LookupCache, Goto, Take, TypeOK
    <2> QED
      BY <1>1, <1>7, <1>8, <2>1, <2>2 DEF CacheInv, LookingUp
  <1>10. CASE LookupRow(p)
    <2>1. RowInv
      BY <1>0 DEF LayerInv
    <2>2. \/ pc'[p] = "fill" /\ meta'[p] = db[file[p]] /\ db[file[p]] # None
          \/ pc'[p] = "done" /\ (reply'[p] = "notFound" => db[file[p]] = None)
      BY <1>0, <1>10 DEF LookupRow, Take, Answer, TypeOK
    <2>3. db[file[p]] # None => db[file[p]].exp \in Known[file[p]]
      BY <1>1, <2>1 DEF RowInv, Known
    <2>4. db[file[p]] = None => file[p] \in MayGo
      BY <1>1 DEF Kept
    <2> QED
      BY <1>7, <1>8, <2>2, <2>3, <2>4 DEF LookingUp
  <1>11. CASE LookupFill(p)
    <2>1. pc[p] = "fill" /\ pc'[p] = "check" /\ meta'[p] = meta[p]
      BY <1>0, <1>11 DEF LookupFill, Goto, TypeOK
    <2> QED
      BY <1>0, <1>7, <1>8, <2>1 DEF LookupOf, LookingUp
  <1>12. CASE LookupCheck(p)
    <2>1. /\ pc[p] = "check"
          /\ \/ pc'[p] = "deleteGet" /\ Expired(meta[p].exp, now)
             \/ pc'[p] = "open"
             \/ pc'[p] = "done" /\ reply'[p] = "ok"
      BY <1>0, <1>12 DEF LookupCheck, Goto, Answer, TypeOK
    <2>2. meta[p].exp = promised[file[p]] \/ meta[p].exp = AsTimestamp(promised[file[p]])
      BY <1>0, <1>1, <2>1 DEF LookupOf, LookingUp, Known
    <2>3. Expired(meta[p].exp, now) => file[p] \in MayGo
      BY <1>1, <2>2 DEF MayGo, Doomed
    <2> QED
      BY <1>7, <1>8, <2>1, <2>3 DEF LookingUp
  <1>13. CASE DownloadOpen(p)
    <2>1. pc'[p] = "done" /\ reply'[p] # "notFound"
      BY <1>0, <1>13 DEF DownloadOpen, Answer, TypeOK
    <2> QED
      BY <1>7, <1>8, <2>1
  <1> QED
    BY <1>9, <1>10, <1>11, <1>12, <1>13

(* What an eraser must still know after its step. *)
LEMMA EraserStep ==
    ASSUME IInv, Stays, NEW p \in Actors, Own(p), file[p] \in landed \cap MayGo,
           file'[p] = file[p], p \in Sweepers => SweepOf(p)',
           \/ pc'[p] \in Erasing /\ (pc'[p] = "publishGone" => db'[file[p]] = None)
           \/ pc'[p] = "done",
           p \in Sweepers => pc'[p] # "deleteGet"
    PROVE  ActorInv'
  <1>0. p \in Sweepers => p \notin Reqs
    BY ServiceAssumption
  <1>1. /\ "done" \notin Uploading \cup LookingUp \cup Erasing /\ "list" \notin Erasing
        /\ Uploading \cap Erasing = {} /\ LookingUp \cap Erasing = {}
    BY DEF Uploading, LookingUp, Erasing
  <1>2. file[p] \in landed' /\ file[p] \in MayGo'
    BY LandedStays
  <1>3. EraseOf(p)' /\ AnswerOf(p)'
    BY <1>1, <1>2 DEF EraseOf, AnswerOf
  <1>4. ActorOK(p)'
    BY <1>0, <1>1, <1>3 DEF ActorOK, UploadOf, LookupOf
  <1> QED
    BY <1>1, <1>4, OwnStep

(* The first and the last step of Delete keep it. *)
LEMMA DeleteKeepsInv ==
    ASSUME IInv, TypeOK', Stays, NEW p \in Reqs, DeleteGet(p) \/ DeletePublish(p)
    PROVE  LayerInv' /\ ActorInv'
  <1>0. /\ p \in Actors /\ p \notin Sweepers /\ TypeOK /\ LayerInv
        /\ pc[p] \in {"deleteGet", "publishGone"} /\ EraseOf(p)
    BY ServiceAssumption DEF IInv, ActorInv, EraseInv, Actors, DeleteGet, DeletePublish
  <1>1. /\ file[p] \in landed \cap MayGo /\ file[p] \in Ids
        /\ pc[p] = "publishGone" => db[file[p]] = None
    BY <1>0 DEF EraseOf, Erasing, TypeOK
  <1>2. /\ UNCHANGED <<now, db, store, cache, file, todo, promised, landed, acked, requested>>
        /\ pc'[p] \in {"eraseBlob", "done"}
        /\ \A q \in Actors : q # p => /\ pc'[q] = pc[q] /\ meta'[q] = meta[q]
                                      /\ reply'[q] = reply[q]
    BY <1>0 DEF DeleteGet, DeletePublish, DeleteReturns, Goto, Answer, TypeOK,
                backends, call, sweep, history
  <1>3. \A id \in landed : id \in Kept => id \in Kept'
    BY <1>2, LandedStays DEF Kept
  <1>4. Own(p)
    BY <1>2, <1>3 DEF Own
  <1>5. \A id \in Ids : \/ events'[id] = events[id]
                        \/ /\ id = file[p] /\ pc[p] = "publishGone"
                           /\ events'[id] = events[id] \cup {"deleted"}
    BY <1>0 DEF DeleteGet, DeletePublish, TypeOK, backends
  <1>6. LayerInv'
    BY <1>0, <1>1, <1>2, <1>3, <1>5, LayersStay DEF LayerInv, HistoryInv, KeptInv
  <1>7. ActorInv'
    BY <1>0, <1>1, <1>2, <1>4, EraserStep DEF Erasing
  <1> QED
    BY <1>6, <1>7

(* The steps that Delete and PurgeExpired share. *)
LEMMA EraseKeepsInv ==
    ASSUME IInv, TypeOK', Stays, NEW p \in Actors,
           EraseBlob(p) \/ EraseCache(p) \/ EraseRow(p)
    PROVE  LayerInv' /\ ActorInv'
  <1>0. /\ TypeOK /\ LayerInv /\ EraseOf(p) /\ (p \in Sweepers => SweepOf(p))
        /\ pc[p] \in {"eraseBlob", "eraseCache", "eraseRow"}
    BY DEF IInv, ActorInv, EraseInv, SweepInv, EraseBlob, EraseCache, EraseRow
  <1>1. file[p] \in landed \cap MayGo /\ file[p] \in Ids /\ pc[p] \in Erasing
    BY <1>0 DEF EraseOf, Erasing, TypeOK
  <1>2. /\ UNCHANGED <<now, events, file, todo, promised, landed, acked, requested>>
        /\ pc'[p] \in {"eraseCache", "eraseRow", "publishGone", "done"}
        /\ pc'[p] = "publishGone" => db'[file[p]] = None
        /\ \A q \in Actors : q # p => /\ pc'[q] = pc[q] /\ meta'[q] = meta[q]
                                      /\ reply'[q] = reply[q]
    BY <1>0, <1>1 DEF EraseBlob, EraseCache, EraseRow, DeleteReturns, Goto, Answer, TypeOK,
                      call, sweep, history
  <1>3. \A id \in Ids : /\ db'[id] = db[id] \/ (id = file[p] /\ db'[id] = None)
                        /\ id # file[p] => store'[id] = store[id]
                        /\ cache'[id] = cache[id] \/ cache'[id] = None
    BY <1>0, <1>1 DEF EraseBlob, EraseCache, EraseRow, TypeOK
  <1>4. \A id \in landed : /\ id \in Ids /\ (id \in Kept => id \in Kept')
                           /\ id \in MayGo => id \in MayGo'
                           /\ id \in Overdue => id \in Overdue'
                           /\ promised[id] # None /\ Known'[id] = Known[id]
    BY <1>1, <1>3, LandedStays DEF Kept
  <1>5. Own(p)
    BY <1>1, <1>2, <1>3, <1>4 DEF Own
  <1>6. HistoryInv' /\ KeptInv'
    BY <1>0, <1>2, <1>4 DEF LayerInv, HistoryInv, KeptInv
  <1>7. RowInv' /\ CacheInv'
    BY <1>0, <1>2, <1>3, <1>4 DEF LayerInv, RowInv, CacheInv
  <1>8. EventInv'
    BY <1>0, <1>2, <1>3, <1>4 DEF LayerInv, EventInv
  <1>9. p \in Sweepers => SweepOf(p)'
    BY <1>0, <1>1, <1>2, <1>4 DEF SweepOf
  <1>10. ActorInv'
    BY <1>1, <1>2, <1>5, <1>9, EraserStep DEF Erasing
  <1> QED
    BY <1>6, <1>7, <1>8, <1>10 DEF LayerInv

(* Going on with a batch whose rows are all overdue. *)
LEMMA AdvanceKeepsInv ==
    ASSUME IInv, TypeOK', Stays, NEW s \in Sweepers, NEW rest \in SUBSET (landed \cap Overdue),
           NEW n \in Nat, Advance(s, rest, n),
           UNCHANGED <<now, db, store, landed, acked, requested, promised>>
    PROVE  ActorInv'
  <1>0. s \in Actors /\ s \notin Reqs /\ TypeOK
    BY ServiceAssumption DEF IInv, Actors
  <1>1. \A q \in Actors : q # s => /\ pc'[q] = pc[q] /\ file'[q] = file[q]
                                   /\ meta'[q] = meta[q] /\ reply'[q] = reply[q]
    BY <1>0 DEF Advance, NextRow, EndOfBatch, Goto, Answer, TypeOK
  <1>2. \A q \in Sweepers : q # s => todo'[q] = todo[q]
    BY <1>0 DEF Advance, NextRow, EndOfBatch, TypeOK
  <1>3. /\ todo'[s] \subseteq rest
        /\ \/ pc'[s] = "eraseBlob" /\ file'[s] \in rest
           \/ pc'[s] \in {"list", "done"}
    BY <1>0 DEF Advance, NextRow, EndOfBatch, Goto, Answer, TypeOK
  <1>4. Own(s)
    BY <1>1, <1>2, LandedStays DEF Own, Kept
  <1>5. \A id \in rest : id \in landed' /\ id \in Overdue' /\ id \in MayGo'
    <2>1. \A id \in rest : id \in MayGo
      BY DEF MayGo, Overdue, Doomed
    <2> QED
      BY <2>1, LandedStays
  <1>6. ActorOK(s)'
    BY <1>0, <1>3, <1>5 DEF ActorOK, EraseOf, SweepOf, Erasing
  <1> QED
    BY <1>0, <1>3, <1>4, <1>6, OwnStep DEF Uploading

(* A sweep's listing and its going from row to row keep it. *)
LEMMA SweepKeepsInv ==
    ASSUME IInv, TypeOK', Stays, NEW s \in Sweepers,
           StartSweep(s) \/ PurgeList(s) \/ PurgePublish(s)
    PROVE  LayerInv' /\ ActorInv'
  <1>0. /\ s \in Actors /\ s \notin Reqs /\ TypeOK /\ LayerInv /\ SweepOf(s) /\ EraseOf(s)
    BY ServiceAssumption DEF IInv, ActorInv, SweepInv, EraseInv, Actors
  <1>1. UNCHANGED <<now, db, store, cache, promised, landed, acked, requested>>
    BY DEF StartSweep, PurgeList, PurgePublish, backends, history
  <1>2. \A id \in landed : id \in Kept => id \in Kept'
    BY <1>1, LandedStays DEF Kept
  <1>3. ASSUME \A id \in Ids :
                 \/ events'[id] = events[id]
                 \/ /\ id = file[s] /\ pc[s] = "publishGone"
                    /\ events'[id] = events[id] \cup {"expired"}
        PROVE  LayerInv'
    <2>1. pc[s] = "publishGone" =>
            file[s] \in landed \cap MayGo /\ file[s] \in Overdue /\ db[file[s]] = None
      BY <1>0 DEF SweepOf, EraseOf, Erasing
    <2>2. \A id \in Ids : \/ events'[id] \subseteq events[id] \cup {"uploaded"}
                          \/ /\ db[id] = None /\ id \in landed \cap MayGo
                             /\ "expired" \in events'[id] =>
                                   "expired" \in events[id] \/ id \in Overdue
      BY <1>3, <2>1
    <2>3. acked' \subseteq landed /\ \A id \in acked' : id \in Kept'
      BY <1>0, <1>1, <1>2 DEF LayerInv, HistoryInv, KeptInv
    <2> QED
      BY <1>1, <2>2, <2>3, LayersStay
  <1>4. ASSUME UNCHANGED <<file, todo>>, pc'[s] \in {"list", "done"},
               \A q \in Actors : q # s => /\ pc'[q] = pc[q] /\ meta'[q] = meta[q]
                                          /\ reply'[q] = reply[q]
        PROVE  ActorInv'
    <2>1. Own(s)
      BY <1>1, <1>2, <1>4 DEF Own
    <2>2. ActorOK(s)'
      BY <1>0, <1>1, <1>4, LandedStays DEF ActorOK, EraseOf, SweepOf, Erasing
    <2> QED
      BY <1>0, <1>4, <2>1, <2>2, OwnStep DEF Uploading
  <1>5. CASE StartSweep(s)
    <2>1. UNCHANGED <<events, file, todo>>
      BY <1>5 DEF StartSweep, backends, call
    <2>2. /\ pc'[s] = "list"
          /\ \A q \in Actors : q # s => /\ pc'[q] = pc[q] /\ meta'[q] = meta[q]
                                        /\ reply'[q] = reply[q]
      BY <1>0, <1>5 DEF StartSweep, TypeOK
    <2> QED
      BY <1>3, <1>4, <2>1, <2>2
  <1>6. CASE PurgeList(s)
    <2>1. UNCHANGED events
      BY <1>6 DEF PurgeList, backends
    <2>2. CASE Answer(s, "error") /\ UNCHANGED <<file, todo>>
      <3>1. /\ pc'[s] = "done"
            /\ \A q \in Actors : q # s => /\ pc'[q] = pc[q] /\ meta'[q] = meta[q]
                                          /\ reply'[q] = reply[q]
        BY <1>0, <2>2 DEF Answer, TypeOK
      <3> QED
        BY <1>3, <1>4, <2>1, <2>2, <3>1
    <2>3. ASSUME NEW page \in Pages(ExpiredRows), Advance(s, page, 0)
          PROVE  ActorInv'
      <3>1. ExpiredRows \subseteq landed \cap Overdue
        <4>1. SUFFICES ASSUME NEW id \in Ids, db[id] # None, SqlExpired(db[id].exp, now + Skew)
                       PROVE  id \in landed /\ Expired(promised[id], now)
          BY DEF ExpiredRows, Overdue
        <4>2. RowInv /\ HistoryInv
          BY <1>0 DEF LayerInv
        <4>3. id \in landed /\ promised[id] # None /\ db[id].exp = AsTimestamp(promised[id])
          BY <4>1, <4>2 DEF RowInv, HistoryInv
        <4>4. promised[id] \in Expiries /\ now \in Nat
          BY <1>0, <4>3 DEF TypeOK
        <4> QED
          BY <4>1, <4>3, <4>4, SkewAssumption, SqlExpiredIsExpired
      <3>2. page \in SUBSET (landed \cap Overdue)
        BY <3>1 DEF Pages
      <3> QED
        BY <1>1, <2>3, <3>2, AdvanceKeepsInv
    <2>4. \/ Answer(s, "error") /\ UNCHANGED <<file, todo>>
          \/ \E page \in Pages(ExpiredRows) : Advance(s, page, 0)
      BY <1>6 DEF PurgeList
    <2> QED
      BY <1>3, <2>1, <2>2, <2>3, <2>4
  <1>7. CASE PurgePublish(s)
    <2>1. pc[s] = "publishGone" /\ Publish(s, "expired") /\ Advance(s, todo[s], purged[s] + 1)
      BY <1>7 DEF PurgePublish
    <2>2. \A id \in Ids : \/ events'[id] = events[id]
                          \/ id = file[s] /\ events'[id] = events[id] \cup {"expired"}
      BY <1>0, <2>1 DEF TypeOK
    <2>3. todo[s] \in SUBSET (landed \cap Overdue) /\ purged[s] + 1 \in Nat
      BY <1>0 DEF SweepOf, TypeOK
    <2> QED
      BY <1>1, <1>3, <2>1, <2>2, <2>3, AdvanceKeepsInv
  <1> QED
    BY <1>5, <1>6, <1>7

(* Time, evictions, lost contexts and crashes keep it. *)
LEMMA EnvironmentKeepsInv ==
    ASSUME IInv, TypeOK', Stays, Environment
    PROVE  LayerInv' /\ ActorInv'
  <1> USE ServiceAssumption
      DEF IInv, LayerInv, ActorInv, TypeOK, HasFile, Stays,
          PcInv, HistoryInv, RowInv, CacheInv, KeptInv, Kept, EventInv,
          UploadInv, UploadsApart, LookupInv, EraseInv, SweepInv, AnswerInv,
          UploadOf, LookupOf, EraseOf, SweepOf, AnswerOf, Uploading, LookingUp, Erasing, Actors,
          Mishap, backends, call, sweep, history
  <1>1. CASE Tick
    BY <1>1 DEF Tick
  <1>2. ASSUME NEW id \in Ids, Evict(id)
        PROVE  LayerInv' /\ ActorInv'
    BY <1>2 DEF Evict
  <1>3. ASSUME NEW p \in Actors, Cancel(p)
        PROVE  LayerInv' /\ ActorInv'
    BY <1>3 DEF Cancel
  <1>4. ASSUME NEW dead \in SUBSET Actors, Crash(dead)
        PROVE  LayerInv' /\ ActorInv'
    BY <1>4 DEF Crash
  <1>5. ASSUME NEW s \in Sweepers, Restart(s)
        PROVE  LayerInv' /\ ActorInv'
    BY <1>5 DEF Restart
  <1> QED
    BY <1>1, <1>2, <1>3, <1>4, <1>5 DEF Environment

-------------------------------------------------------------------------------
(* The invariant holds at the start. *)
LEMMA InvInit == Init => IInv
  <1> SUFFICES ASSUME Init PROVE IInv
    OBVIOUS
  <1>1. TypeOK /\ HasFile
    BY TypeInit
  <1>2. LayerInv
    BY DEF Init, LayerInv, HistoryInv, RowInv, CacheInv, KeptInv, EventInv
  <1>3. ActorInv
    BY DEF Init, ActorInv, PcInv, UploadInv, UploadsApart, LookupInv, EraseInv, SweepInv,
           AnswerInv, UploadOf, LookupOf, EraseOf, SweepOf, AnswerOf, Actors, Uploading, LookingUp, Erasing
  <1> QED
    BY <1>1, <1>2, <1>3 DEF IInv

(* Every step keeps it. *)
LEMMA InvStep == IInv /\ [Next]_vars => IInv'
  <1> SUFFICES ASSUME IInv, [Next]_vars PROVE IInv'
    OBVIOUS
  <1>1. TypeOK /\ HasFile /\ TypeOK' /\ HasFile'
    BY TypeStep DEF IInv
  <1>2. CASE UNCHANGED vars
    <2>1. LayerInv'
      BY <1>2 DEF IInv, vars, backends, history, LayerInv, HistoryInv, RowInv, CacheInv,
                  KeptInv, Kept, EventInv, MayGo, Doomed, Overdue, Known
    <2>2. ActorInv'
      BY <1>2 DEF IInv, vars, backends, call, sweep, history, ActorInv, PcInv, UploadInv,
                  UploadsApart, LookupInv, EraseInv, SweepInv, AnswerInv,
                  UploadOf, LookupOf, EraseOf, SweepOf, AnswerOf, Kept, MayGo, Doomed, Overdue, Known
    <2> QED
      BY <1>1, <2>1, <2>2 DEF IInv
  <1>3. CASE Next
    <2>1. Stays
      BY <1>1, <1>3, NextStays
    <2>2. LayerInv' /\ ActorInv'
      BY <1>1, <1>3, <2>1, StartKeepsInv, UploadKeepsInv, LookupKeepsInv, DeleteKeepsInv,
         EraseKeepsInv, SweepKeepsInv, EnvironmentKeepsInv
         DEF Next, ReqStep, SweepStep, Actors
    <2> QED
      BY <1>1, <2>2 DEF IInv
  <1> QED
    BY <1>2, <1>3

(* The inductive invariant: who may hold what between any two calls. *)
THEOREM InvariantHolds == Spec => []IInv
  BY InvInit, InvStep, PTL DEF Spec

(* No failure, crash, race or sweep takes away a file that a client holds   *)
(* the id of before a client asks for it or it expires: Upload returns only *)
(* once blob and row are both in place, its rollbacks only touch files that *)
(* were never returned, and every path to store.Delete or repo.Delete has   *)
(* seen a request or an expiry.                                             *)
THEOREM FilesAreKept == Spec => []LiveFileKept
  <1>1. IInv => LiveFileKept
    BY DEF IInv, TypeOK, LayerInv, HistoryInv, RowInv, KeptInv, Kept, MayGo, LiveFileKept
  <1> QED
    BY <1>1, InvariantHolds, PTL

(* A lookup that answers ErrNotFound is right to: an error, a cache miss or *)
(* a cancelled context is never taken for a missing file.                   *)
THEOREM NotFoundIsTrue == Spec => []NoFalseNotFound
  <1>1. IInv => NoFalseNotFound
    BY DEF IInv, ActorInv, AnswerInv, AnswerOf, MayGo, NoFalseNotFound
  <1> QED
    BY <1>1, InvariantHolds, PTL

(* Whoever consumes file.deleted and file.expired can rely on the row being *)
(* gone for good, and on an expired file being past its exact expiry.       *)
THEOREM EventsAreTruthful == Spec => []TruthfulEvents
  <1>1. IInv => TruthfulEvents
    BY DEF IInv, LayerInv, EventInv, MayGo, Overdue, TruthfulEvents
  <1> QED
    BY <1>1, InvariantHolds, PTL

(* A lookup leaves the expiry check only by making it. *)
LEMMA OnlyCheckLeavesCheck ==
    ASSUME TypeOK, Next, NEW p \in Reqs, pc[p] = "check", pc'[p] \in {"open", "done"}
    PROVE  LookupCheck(p)
  <1> USE ServiceAssumption DEF TypeOK, Actors, Begin, Answer, Free, Goto, Take
  <1>1. ASSUME NEW q \in Reqs, ReqStart(q)
        PROVE  FALSE
    BY <1>1 DEF ReqStart, RejectUpload, StartUpload, StartLookup, StartDelete
  <1>2. ASSUME NEW q \in Reqs, ReqStep(q)
        PROVE  LookupCheck(p)
    <2>1. \E at \in PCs : pc' = [pc EXCEPT ![q] = at]
      BY <1>2, Names
         DEF ReqStep, UploadPut, UploadInsert, UploadUndo, UploadCache, UploadPublish,
             LookupCache, LookupRow, LookupFill, LookupCheck, DownloadOpen, DeleteGet,
             EraseBlob, EraseCache, EraseRow, DeletePublish, DeleteReturns
    <2>2. q = p
      BY <2>1
    <2> QED
      BY <1>2, <2>2
         DEF ReqStep, UploadPut, UploadInsert, UploadUndo, UploadCache, UploadPublish,
             LookupCache, LookupRow, LookupFill, DownloadOpen, DeleteGet,
             EraseBlob, EraseCache, EraseRow, DeletePublish
  <1>3. ASSUME NEW s \in Sweepers, StartSweep(s) \/ SweepStep(s)
        PROVE  FALSE
    <2>1. \E at \in PCs : pc' = [pc EXCEPT ![s] = at]
      BY <1>3, Names
         DEF StartSweep, SweepStep, PurgeList, EraseBlob, EraseCache, EraseRow,
             DeleteReturns, PurgePublish, Advance, NextRow, EndOfBatch
    <2> QED
      BY <2>1
  <1>4. ASSUME Environment
        PROVE  FALSE
    BY <1>4 DEF Environment, Tick, Evict, Cancel, Crash, Restart
  <1> QED
    BY <1>1, <1>2, <1>3, <1>4 DEF Next

(* Rounding by MySQL, stale cache entries and slow requests together never  *)
(* let a lookup pass the expiry check more than half a second late.         *)
THEOREM LatenessIsBounded == Spec => ServedAtMostHalfSecondLate
  <1> DEFINE OnTime ==
        \A p \in Reqs :
            pc[p] = "check" /\ pc'[p] \in {"open", "done"} =>
                \/ promised[file[p]] = Never
                \/ now <= promised[file[p]] + (TicksPerSecond \div 2)
  <1>1. IInv /\ [Next]_vars => [OnTime]_vars
    <2> SUFFICES ASSUME IInv, Next, NEW p \in Reqs,
                        pc[p] = "check", pc'[p] \in {"open", "done"}
                 PROVE  \/ promised[file[p]] = Never
                        \/ now <= promised[file[p]] + (TicksPerSecond \div 2)
      OBVIOUS
    <2>1. file[p] \in Ids /\ promised[file[p]] \in Expiries /\ now \in Nat
      BY ServiceAssumption
         DEF IInv, TypeOK, ActorInv, LookupInv, LookupOf, LookingUp, LayerInv, HistoryInv, Actors
    <2>2. meta[p].exp \in Known[file[p]]
      BY DEF IInv, ActorInv, LookupInv, LookupOf, LookingUp
    <2>3. ~Expired(meta[p].exp, now)
      <3>1. LookupCheck(p)
        BY OnlyCheckLeavesCheck DEF IInv
      <3> QED
        BY <3>1 DEF LookupCheck, Goto, Answer, IInv, TypeOK, Actors
    <2>4. SUFFICES ASSUME promised[file[p]] # Never
                   PROVE  now <= promised[file[p]] + (TicksPerSecond \div 2)
      OBVIOUS
    <2>5. promised[file[p]] \in Nat
      BY <2>1, <2>4 DEF Expiries
    <2>6. /\ AsTimestamp(promised[file[p]]) \in Nat
          /\ AsTimestamp(promised[file[p]]) <= promised[file[p]] + (TicksPerSecond \div 2)
      BY <2>4, <2>5, RoundFacts DEF AsTimestamp
    <2>7. \/ meta[p].exp = promised[file[p]]
          \/ meta[p].exp = AsTimestamp(promised[file[p]])
      BY <2>1, <2>2 DEF Known
    <2>8. TicksPerSecond \div 2 \in Nat
      BY TicksAssumption
    <2> QED
      BY <2>1, <2>3, <2>5, <2>6, <2>7, <2>8 DEF Expired, Never
  <1>2. Spec => [][OnTime]_vars
    BY <1>1, InvariantHolds, PTL DEF Spec
  <1> QED
    BY <1>2 DEF ServedAtMostHalfSecondLate

-------------------------------------------------------------------------------
(* The catalogue's expiry test is the service's. *)
LEMMA CatalogExpired ==
    ASSUME NEW exp, NEW t
    PROVE  /\ Catalog!Expired(exp, t) <=> Expired(exp, t)
           /\ Catalog!AsTimestamp(exp) = AsTimestamp(exp)
           /\ Catalog!Never = Never
  BY DEF Expired, Never, AsTimestamp, RoundSec, FloorSec,
         Catalog!Expired, Catalog!Never, Catalog!AsTimestamp, Catalog!RoundSec, Catalog!FloorSec

(* An empty service is an empty catalogue. *)
LEMMA CatalogInit == Init => Catalog!Init
  BY DEF Init, Catalog!Init, lifeBar

(* Only two calls change the catalogue: repo.Insert and repo.Delete. *)
LEMMA RowsChangeOnlyHere ==
    ASSUME TypeOK, Next,
           \A p \in Reqs : ~UploadInsert(p),
           \A p \in Actors : ~EraseRow(p)
    PROVE  UNCHANGED <<db, landed>>
  <1> USE DEF backends, history, Begin, Actors
  <1>1. ASSUME NEW p \in Reqs, ReqStart(p)
        PROVE  UNCHANGED <<db, landed>>
    BY <1>1 DEF ReqStart, RejectUpload, StartUpload, StartLookup, StartDelete
  <1>2. ASSUME NEW p \in Reqs, ReqStep(p)
        PROVE  UNCHANGED <<db, landed>>
    BY <1>2 DEF ReqStep, UploadPut, UploadUndo, UploadCache, UploadPublish,
                LookupCache, LookupRow, LookupFill, LookupCheck, DownloadOpen, DeleteGet,
                EraseBlob, EraseCache, DeletePublish, DeleteReturns
  <1>3. ASSUME NEW s \in Sweepers, StartSweep(s) \/ SweepStep(s)
        PROVE  UNCHANGED <<db, landed>>
    BY <1>3 DEF StartSweep, SweepStep, PurgeList, EraseBlob, EraseCache, PurgePublish
  <1>4. CASE Environment
    BY <1>4 DEF Environment, Tick, Evict, Cancel, Crash, Restart
  <1> QED
    BY <1>1, <1>2, <1>3, <1>4 DEF Next

(* repo.Insert adds a file that was not in the catalogue before. *)
LEMMA InsertAppears ==
    ASSUME IInv, NEW p \in Reqs, UploadInsert(p)
    PROVE  \/ Catalog!Appear(file[p])
           \/ UNCHANGED Catalog!catalogVars
  <1>1. /\ file[p] \in Ids /\ file[p] \notin landed /\ promised[file[p]] # None
        /\ pc[p] = "insert"
    BY DEF UploadInsert, IInv, HasFile, ActorInv, UploadInv, UploadOf, Uploading, Actors
  <1>2. UNCHANGED <<now, promised, requested>>
    BY DEF UploadInsert
  <1>3. CASE UNCHANGED <<db, landed>>
    BY <1>2, <1>3 DEF Catalog!catalogVars, lifeBar
  <1>4. CASE /\ landed' = landed \cup {file[p]}
             /\ db' = [db EXCEPT ![file[p]] = [meta[p] EXCEPT !.exp = AsTimestamp(@)]]
    <2>1. [meta[p] EXCEPT !.exp = AsTimestamp(@)] # None
      BY AsTimestampType, ServiceAssumption DEF IInv, TypeOK, Meta, Actors
    <2>2. lifeBar' = [lifeBar EXCEPT ![file[p]] = "live"]
      BY <1>1, <1>4, <2>1 DEF lifeBar, IInv, TypeOK
    <2>3. lifeBar[file[p]] = "absent"
      BY <1>1 DEF lifeBar
    <2> QED
      BY <1>1, <1>2, <2>2, <2>3 DEF Catalog!Appear
  <1> QED
    BY <1>3, <1>4 DEF UploadInsert

(* repo.Delete takes a file out of the catalogue that may be taken out. *)
LEMMA EraseVanishes ==
    ASSUME IInv, NEW p \in Actors, EraseRow(p)
    PROVE  \/ Catalog!Vanish(file[p])
           \/ UNCHANGED Catalog!catalogVars
  <1>1. file[p] \in landed /\ file[p] \in Ids /\ Doomed(file[p])
    BY DEF EraseRow, IInv, TypeOK, ActorInv, EraseInv, EraseOf, Erasing, MayGo
  <1>2. UNCHANGED <<now, promised, requested, landed>>
    BY DEF EraseRow, DeleteReturns, history
  <1>3. CASE UNCHANGED db
    BY <1>2, <1>3 DEF Catalog!catalogVars, lifeBar
  <1>4. CASE db' = [db EXCEPT ![file[p]] = None] /\ db[file[p]] = None
    <2>1. db' = db
      BY <1>4 DEF IInv, TypeOK
    <2> QED
      BY <1>2, <2>1 DEF Catalog!catalogVars, lifeBar
  <1>5. CASE db' = [db EXCEPT ![file[p]] = None] /\ db[file[p]] # None
    <2>1. db \in [Ids -> Meta \cup {None}] /\ db'[file[p]] = None
      BY <1>1, <1>5 DEF IInv, TypeOK
    <2>2. \A id \in Ids : id # file[p] => db'[id] = db[id]
      BY <1>5, <2>1
    <2>3. lifeBar' = [lifeBar EXCEPT ![file[p]] = "gone"]
      BY ONLY <1>1, <1>2, <2>1, <2>2 DEF lifeBar
    <2>4. lifeBar[file[p]] = "live"
      BY ONLY <1>1, <1>5 DEF lifeBar
    <2> QED
      BY <1>1, <1>2, <2>3, <2>4, CatalogExpired DEF Catalog!Vanish, Doomed
  <1> QED
    BY <1>3, <1>4, <1>5 DEF EraseRow

(* The other steps leave the catalogue's files alone and either pass time,  *)
(* make a promise, note a client's wish, or change nothing it knows of.     *)
LEMMA OthersFollowCatalog ==
    ASSUME IInv, Next, UNCHANGED <<db, landed>>
    PROVE  [Catalog!Next]_(Catalog!catalogVars)
  <1>0. lifeBar' = lifeBar
    BY DEF lifeBar
  <1>1. ASSUME UNCHANGED <<now, promised, requested>>
        PROVE  UNCHANGED Catalog!catalogVars
    BY <1>0, <1>1 DEF Catalog!catalogVars
  <1>2. ASSUME NEW p \in Reqs, ReqStart(p)
        PROVE  [Catalog!Next]_(Catalog!catalogVars)
    <2>1. ASSUME NEW size \in Sizes, RejectUpload(p, size)
          PROVE  UNCHANGED <<now, promised, requested>>
      BY <2>1 DEF RejectUpload, history
    <2>2. ASSUME NEW ttl \in TTLs, NEW size \in Sizes, NEW declared \in {size, Unknown},
                 StartUpload(p, ttl, size, declared)
          PROVE  \E id \in Ids : Catalog!Promise(id)
      <3> DEFINE exp == ExpiryFor(ttl, DefaultTTL, now)
      <3>1. exp \in Expiries /\ (exp = Never \/ exp > now)
        BY ExpiryForType DEF IInv, TypeOK
      <3> HIDE DEF exp
      <3>2. PICK id \in Ids : promised[id] = None /\ promised' = [promised EXCEPT ![id] = exp]
        BY <2>2 DEF StartUpload, exp
      <3>3. UNCHANGED <<now, requested>>
        BY <2>2 DEF StartUpload, Begin
      <3>4. promised'[id] = exp
        BY <3>2 DEF IInv, TypeOK
      <3>5. exp = Catalog!Never \/ (exp \in Nat /\ exp > now)
        BY <3>1, CatalogExpired DEF Expiries
      <3> QED
        BY <1>0, <3>2, <3>3, <3>4, <3>5 DEF Catalog!Promise
    <2>3. ASSUME NEW o \in {"metadata", "download"}, NEW id \in Ids, StartLookup(p, o, id)
          PROVE  UNCHANGED <<now, promised, requested>>
      BY <2>3 DEF StartLookup, Begin
    <2>4. ASSUME NEW id \in Ids, StartDelete(p, id)
          PROVE  Catalog!Want(id)
      <3>1. /\ UNCHANGED <<now, promised>> /\ id \in acked
            /\ requested' = requested \cup {id}
        BY <2>4 DEF StartDelete, Begin
      <3>2. id \in landed
        BY <3>1 DEF IInv, LayerInv, HistoryInv
      <3>3. lifeBar[id] # "absent"
        BY <3>2 DEF lifeBar
      <3> QED
        BY <1>0, <3>1, <3>3 DEF Catalog!Want
    <2> QED
      BY <1>1, <1>2, <2>1, <2>2, <2>3, <2>4 DEF ReqStart, Catalog!Next
  <1>3. ASSUME NEW p \in Reqs, ReqStep(p)
        PROVE  UNCHANGED <<now, promised, requested>>
    BY <1>3 DEF ReqStep, UploadPut, UploadInsert, UploadUndo, UploadCache, UploadPublish,
                LookupCache, LookupRow, LookupFill, LookupCheck, DownloadOpen, DeleteGet,
                EraseBlob, EraseCache, EraseRow, DeletePublish, DeleteReturns, history
  <1>4. ASSUME NEW s \in Sweepers, StartSweep(s) \/ SweepStep(s)
        PROVE  UNCHANGED <<now, promised, requested>>
    BY <1>4 DEF StartSweep, SweepStep, PurgeList, EraseBlob, EraseCache, EraseRow,
                DeleteReturns, PurgePublish, history
  <1>5. CASE Environment
    <2>1. CASE Tick
      BY <1>0, <2>1 DEF Tick, history, Catalog!Pass, Catalog!Next
    <2>2. CASE ~Tick
      BY <1>1, <1>5, <2>2 DEF Environment, Evict, Cancel, Crash, Restart, history
    <2> QED
      BY <2>1, <2>2
  <1> QED
    BY <1>1, <1>2, <1>3, <1>4, <1>5 DEF Next

(* Every step of the service is a step of the catalogue or none. *)
LEMMA CatalogStep == IInv /\ [Next]_vars => [Catalog!Next]_(Catalog!catalogVars)
  <1> SUFFICES ASSUME IInv, [Next]_vars
               PROVE  [Catalog!Next]_(Catalog!catalogVars)
    OBVIOUS
  <1>1. CASE UNCHANGED vars
    BY <1>1 DEF vars, backends, history, Catalog!catalogVars, lifeBar
  <1>2. ASSUME NEW p \in Reqs, UploadInsert(p)
        PROVE  [Catalog!Next]_(Catalog!catalogVars)
    <2>1. file[p] \in Ids
      BY <1>2 DEF UploadInsert, IInv, HasFile, Actors
    <2> QED
      BY <1>2, <2>1, InsertAppears DEF Catalog!Next
  <1>3. ASSUME NEW p \in Actors, EraseRow(p)
        PROVE  [Catalog!Next]_(Catalog!catalogVars)
    <2>1. file[p] \in Ids
      BY <1>3 DEF EraseRow, IInv, HasFile
    <2> QED
      BY <1>3, <2>1, EraseVanishes DEF Catalog!Next
  <1>4. CASE Next /\ (\A p \in Reqs : ~UploadInsert(p)) /\ (\A p \in Actors : ~EraseRow(p))
    BY <1>4, RowsChangeOnlyHere, OthersFollowCatalog DEF IInv
  <1> QED
    BY <1>1, <1>2, <1>3, <1>4

(* Whatever the backends do, a client sees the life of each file as the     *)
(* catalogue describes it: the row appears once, with the promise made at   *)
(* upload, goes only on request or on expiry, and never comes back.         *)
THEOREM ServiceImplementsCatalog == Spec => ImplementsCatalog
  <1>1. Spec => Catalog!Init /\ [][Catalog!Next]_(Catalog!catalogVars)
    BY CatalogInit, CatalogStep, InvariantHolds, PTL DEF Spec
  <1> QED
    BY <1>1 DEF ImplementsCatalog, Catalog!Spec
===============================================================================
