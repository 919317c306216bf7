----------------------------- MODULE FileService ------------------------------
(***************************************************************************)
(* service.Service over its four backends (MySQL rows, S3 blobs, the Redis *)
(* metadata cache and the event publisher), called by any number of        *)
(* concurrent requests and sweepers.                                       *)
(*                                                                         *)
(* One step is one call to a backend, or the code between two of them, so  *)
(* the calls of concurrent actors interleave in every order.  A call may   *)
(* succeed, fail without effect (a fault, or the context it was given is   *)
(* cancelled) or take effect and still be reported as failed.  An actor    *)
(* may lose its context or be killed between any two steps, and Redis may  *)
(* drop any entry at any time.                                             *)
(***************************************************************************)
EXTENDS FileRecord, FiniteSets

CONSTANTS
    Ids,           \* the UUIDs an upload may mint
    Reqs,          \* request handlers, HTTP or gRPC
    Sweepers,      \* in-process reapers and "dropcrate sweep" runs
    TTLs,          \* lifetimes a client may ask for (ticks; <0 never, 0 default)
    DefaultTTL,    \* DEFAULT_TTL (ticks; 0 = permanent)
    Sizes,         \* body lengths
    MaxUpload,     \* MAX_UPLOAD_BYTES (0 = unlimited)
    Batch,         \* SWEEP_BATCH
    Skew,          \* the clock of the MySQL server less ours (ticks)
    Mishaps,       \* which of "fault", "cancel", "crash" may happen
    MaxMishaps,    \* bound: how many of them in one behaviour
    MaxTime        \* bound: the last tick of the clock

ASSUME ServiceAssumption ==
    /\ TTLs \subseteq Int
    /\ DefaultTTL \in Nat
    /\ Sizes \subseteq Nat
    /\ MaxUpload \in Nat
    /\ Batch \in Nat
    /\ Mishaps \subseteq {"fault", "cancel", "crash"}
    /\ MaxMishaps \in Nat
    /\ MaxTime \in Nat
    /\ None \notin Ids
    /\ None \notin Expiries
    /\ None \notin Meta
    /\ None \notin {"ok", "notFound", "tooLarge", "error", "drained"}
    /\ Reqs \cap Sweepers = {}
    /\ IsFiniteSet(Ids)

(* The database's clock may be behind by any amount, but at most half a     *)
(* second ahead: NoMoreSkew of FileRecordProofs shows that the query for    *)
(* expired rows can do with no more.                                        *)
ASSUME SkewAssumption == Skew \in Int /\ Skew <= TicksPerSecond \div 2

Actors == Reqs \cup Sweepers

VARIABLES
    now,           \* the clock
    db,            \* db[id]: the row of table files, or None
    store,         \* store[id]: the length of object files/<id>, or None
    cache,         \* cache[id]: the record under key file:<id>, or None
    events,        \* events[id]: the types of the events published for id
    pc,            \* pc[p]: the next call of actor p
    op,            \* op[p]: the use case p runs
    file,          \* file[p]: the id p works on
    meta,          \* meta[p]: the record of that file p holds
    reply,         \* reply[p]: what p returned, None while it runs
    cancelled,     \* the actors whose context is cancelled
    todo,          \* todo[s]: the rest of the batch sweeper s has listed
    purged,        \* purged[s]: how many of that batch are purged
    mishaps,       \* how many mishaps there have been
    promised,      \* promised[id]: the expiry the uploader was given, None
                   \*   until the id is minted
    landed,        \* history: ids whose row was ever inserted
    acked,         \* history: ids returned to a client
    requested,     \* history: ids some client has asked to delete
    deleted,       \* history: ids whose deletion was reported as done
    late,          \* history: requests that began after their file's deletion
                   \*   was reported as done
    due            \* history: due[s]: the rows that were expired at some
                   \*   listing of the sweep s runs

backends == <<db, store, cache, events>>
call     == <<op, file>>
sweep    == <<todo, purged, due>>
history  == <<promised, landed, acked, requested, deleted, late>>

vars == <<now, backends, pc, call, meta, reply, cancelled, sweep, mishaps, history>>

Replies == {"ok", "notFound", "tooLarge", "error", "drained"}

PCs == {"idle", "done",
        "put", "insert", "discard", "rollback", "cacheNew", "publishNew",
        "cacheGet", "getByID", "fill", "check", "open",
        "deleteGet", "eraseBlob", "eraseCache", "eraseRow", "publishGone",
        "list"}

Init ==
    /\ now = 0
    /\ db = [id \in Ids |-> None]
    /\ store = [id \in Ids |-> None]
    /\ cache = [id \in Ids |-> None]
    /\ events = [id \in Ids |-> {}]
    /\ pc = [p \in Actors |-> "idle"]
    /\ op = [p \in Actors |-> IF p \in Sweepers THEN "sweep" ELSE "none"]
    /\ file = [p \in Actors |-> None]
    /\ meta = [p \in Actors |-> NoMeta]
    /\ reply = [p \in Actors |-> None]
    /\ cancelled = {}
    /\ todo = [s \in Sweepers |-> {}]
    /\ purged = [s \in Sweepers |-> 0]
    /\ due = [s \in Sweepers |-> {}]
    /\ mishaps = 0
    /\ promised = [id \in Ids |-> None]
    /\ landed = {} /\ acked = {} /\ requested = {} /\ deleted = {} /\ late = {}

(***************************************************************************)
(* The outcome of a backend call.                                          *)
(***************************************************************************)
Mishap(kind) ==
    /\ kind \in Mishaps
    /\ mishaps < MaxMishaps
    /\ mishaps' = mishaps + 1

(* The call takes effect and says so. *)
Succeeds(p) == p \notin cancelled /\ UNCHANGED mishaps

(* The call has no effect and returns an error. *)
Fails(p) ==
    \/ p \in cancelled /\ UNCHANGED mishaps
    \/ p \notin cancelled /\ Mishap("fault")

(* The call takes effect, but the reply is lost and it returns an error.    *)
(* (Where the code drops the error this is no different from a success.)    *)
LosesReply(p) == p \notin cancelled /\ Mishap("fault")

(***************************************************************************)
(* The backends' calls.  Deleting what is not there is not an error.       *)
(***************************************************************************)
PutObject(id, size) == store' = [store EXCEPT ![id] = size]

DeleteObject(id) == store' = [store EXCEPT ![id] = None]

HasObject(id) == store[id] # None

Insert(id, m) == db' = [db EXCEPT ![id] = [m EXCEPT !.exp = AsTimestamp(@)]]

DeleteRow(id) == db' = [db EXCEPT ![id] = None]

HasRow(id) == db[id] # None

CacheHit(id) == cache[id] # None

CacheSet(id, m) == cache' = [cache EXCEPT ![id] = m]

CacheDelete(id) == cache' = [cache EXCEPT ![id] = None]

(* Asynchronous and best effort: the event may get lost, on a cancelled     *)
(* context or on the way to the broker, and nobody is told.                 *)
Publish(p, type) ==
    \/ events' = [events EXCEPT ![file[p]] = @ \cup {type}] /\ UNCHANGED mishaps
    \/ Fails(p) /\ UNCHANGED events

(***************************************************************************)
(* Control of one actor.                                                   *)
(***************************************************************************)
Free(p) == pc[p] \in {"idle", "done"}

Goto(p, at) == pc' = [pc EXCEPT ![p] = at] /\ UNCHANGED <<meta, reply>>

(* p goes on with record m in hand. *)
Take(p, m, at) ==
    /\ pc' = [pc EXCEPT ![p] = at]
    /\ meta' = [meta EXCEPT ![p] = m]
    /\ UNCHANGED reply

Answer(p, r) ==
    /\ pc' = [pc EXCEPT ![p] = "done"]
    /\ meta' = [meta EXCEPT ![p] = NoMeta]
    /\ reply' = [reply EXCEPT ![p] = r]

(* A handler is entered with a fresh context. *)
Begin(p, o, id, m, at) ==
    /\ Free(p)
    /\ pc' = [pc EXCEPT ![p] = at]
    /\ op' = [op EXCEPT ![p] = o]
    /\ file' = [file EXCEPT ![p] = id]
    /\ meta' = [meta EXCEPT ![p] = m]
    /\ reply' = [reply EXCEPT ![p] = None]
    /\ cancelled' = cancelled \ {p}
    /\ UNCHANGED <<now, backends, sweep, mishaps>>

(***************************************************************************)
(* Upload                                                                  *)
(***************************************************************************)
OverLimit(size) == MaxUpload > 0 /\ size > MaxUpload

(* The body of a streamed upload has no declared length. *)
Unknown == -1

RejectUpload(p, size) ==
    /\ Free(p)
    /\ OverLimit(size)
    /\ Answer(p, "tooLarge")
    /\ op' = [op EXCEPT ![p] = "upload"]
    /\ file' = [file EXCEPT ![p] = None]
    /\ cancelled' = cancelled \ {p}
    /\ UNCHANGED <<now, backends, sweep, mishaps, history>>

StartUpload(p, ttl, size, declared) ==
    LET exp == ExpiryFor(ttl, DefaultTTL, now) IN
    /\ ~OverLimit(declared)
    /\ \E id \in Ids :
        /\ promised[id] = None
        /\ promised' = [promised EXCEPT ![id] = exp]
        /\ Begin(p, "upload", id, [exp |-> exp, size |-> size], "put")
    /\ late' = late \ {p}
    /\ UNCHANGED <<landed, acked, requested, deleted>>

UploadPut(p) ==
    LET write == PutObject(file[p], meta[p].size) IN
    /\ pc[p] = "put"
    /\ \/ /\ Succeeds(p)
          /\ write
          /\ Goto(p, IF OverLimit(meta[p].size) THEN "discard" ELSE "insert")
       \/ Fails(p) /\ UNCHANGED store /\ Answer(p, "error")
       \/ LosesReply(p) /\ write /\ Answer(p, "error")
    /\ UNCHANGED <<now, db, cache, events, call, cancelled, sweep, history>>

(* Mutant: an Insert that fails is taken for one that succeeded. *)
UploadInsertIgnoringError(p) ==
    /\ pc[p] = "insert"
    /\ \/ /\ Succeeds(p)
          /\ Insert(file[p], meta[p])
          /\ landed' = landed \cup {file[p]}
       \/ Fails(p) /\ UNCHANGED <<db, landed>>
    /\ Goto(p, "cacheNew")
    /\ UNCHANGED <<now, store, cache, events, call, cancelled, sweep,
                   promised, acked, requested, deleted, late>>

UploadInsert(p) ==
    LET write == Insert(file[p], meta[p]) /\ landed' = landed \cup {file[p]} IN
    /\ pc[p] = "insert"
    /\ \/ Succeeds(p) /\ write /\ Goto(p, "cacheNew")
       \/ Fails(p) /\ UNCHANGED <<db, landed>> /\ Goto(p, "rollback")
       \/ LosesReply(p) /\ write /\ Goto(p, "rollback")
    /\ UNCHANGED <<now, store, cache, events, call, cancelled, sweep,
                   promised, acked, requested, deleted, late>>

(* Both clean-ups ignore the error of store.Delete. *)
UploadUndo(p) ==
    /\ pc[p] \in {"discard", "rollback"}
    /\ \/ Succeeds(p) /\ DeleteObject(file[p])
       \/ Fails(p) /\ UNCHANGED store
    /\ Answer(p, IF pc[p] = "discard" THEN "tooLarge" ELSE "error")
    /\ UNCHANGED <<now, db, cache, events, call, cancelled, sweep, history>>

UploadCache(p) ==
    /\ pc[p] = "cacheNew"
    /\ \/ Succeeds(p) /\ CacheSet(file[p], meta[p])
       \/ Fails(p) /\ UNCHANGED cache
    /\ Goto(p, "publishNew")
    /\ UNCHANGED <<now, db, store, events, call, cancelled, sweep, history>>

UploadPublish(p) ==
    /\ pc[p] = "publishNew"
    /\ Publish(p, "uploaded")
    /\ Answer(p, "ok")
    /\ acked' = acked \cup {file[p]}
    /\ UNCHANGED <<now, db, store, cache, call, cancelled, sweep,
                   promised, landed, requested, deleted, late>>

(***************************************************************************)
(* Metadata and Download                                                   *)
(***************************************************************************)
(* Ids are unguessable: a client can only name one it was given. *)
StartLookup(p, o, id) ==
    /\ id \in acked
    /\ Begin(p, o, id, NoMeta, "cacheGet")
    /\ late' = IF id \in deleted THEN late \cup {p} ELSE late \ {p}
    /\ UNCHANGED <<promised, landed, acked, requested, deleted>>

LookupCache(p) ==
    /\ pc[p] = "cacheGet"
    /\ \/ Succeeds(p) /\ CacheHit(file[p]) /\ Take(p, cache[file[p]], "check")
       \/ Succeeds(p) /\ ~CacheHit(file[p]) /\ Goto(p, "getByID")
       \/ Fails(p) /\ Goto(p, "getByID")
    /\ UNCHANGED <<now, backends, call, cancelled, sweep, history>>

(* Mutant: sql.ErrNoRows is not told from a row. *)
LookupRowUnchecked(p) ==
    /\ pc[p] = "getByID"
    /\ \/ Succeeds(p) /\ Take(p, db[file[p]], "fill")
       \/ Fails(p) /\ Answer(p, "error")
    /\ UNCHANGED <<now, backends, call, cancelled, sweep, history>>

(* Mutant: every error of GetByID becomes ErrNotFound. *)
LookupRowErrorAsMissing(p) ==
    /\ pc[p] = "getByID"
    /\ \/ Succeeds(p) /\ HasRow(file[p]) /\ Take(p, db[file[p]], "fill")
       \/ Succeeds(p) /\ ~HasRow(file[p]) /\ Answer(p, "notFound")
       \/ Fails(p) /\ Answer(p, "notFound")
    /\ UNCHANGED <<now, backends, call, cancelled, sweep, history>>

(* Mutant: a failed GetByID is retried for ever on the same context. *)
LookupRowRetrying(p) ==
    /\ pc[p] = "getByID"
    /\ \/ Succeeds(p) /\ HasRow(file[p]) /\ Take(p, db[file[p]], "fill")
       \/ Succeeds(p) /\ ~HasRow(file[p]) /\ Answer(p, "notFound")
       \/ Fails(p) /\ Goto(p, "getByID")
    /\ UNCHANGED <<now, backends, call, cancelled, sweep, history>>

LookupRow(p) ==
    /\ pc[p] = "getByID"
    /\ \/ Succeeds(p) /\ HasRow(file[p]) /\ Take(p, db[file[p]], "fill")
       \/ Succeeds(p) /\ ~HasRow(file[p]) /\ Answer(p, "notFound")
       \/ Fails(p) /\ Answer(p, "error")
    /\ UNCHANGED <<now, backends, call, cancelled, sweep, history>>

LookupFill(p) ==
    /\ pc[p] = "fill"
    /\ \/ Succeeds(p) /\ CacheSet(file[p], meta[p])
       \/ Fails(p) /\ UNCHANGED cache
    /\ Goto(p, "check")
    /\ UNCHANGED <<now, db, store, events, call, cancelled, sweep, history>>

(* Mutant: Download does not check the expiry. *)
LookupCheckMetadataOnly(p) ==
    /\ pc[p] = "check"
    /\ IF op[p] = "download" THEN Goto(p, "open")
       ELSE IF Expired(meta[p].exp, now) THEN Goto(p, "deleteGet")
       ELSE Answer(p, "ok")
    /\ UNCHANGED <<now, backends, call, cancelled, sweep, mishaps, history>>

(* Mutant: !now.Before(expiry) in place of now.After(expiry). *)
LookupCheckNotBefore(p) ==
    /\ pc[p] = "check"
    /\ IF meta[p].exp # Never /\ now >= meta[p].exp THEN Goto(p, "deleteGet")
       ELSE IF op[p] = "download" THEN Goto(p, "open")
       ELSE Answer(p, "ok")
    /\ UNCHANGED <<now, backends, call, cancelled, sweep, mishaps, history>>

(* An expired record turns the lookup into a nested Delete. *)
LookupCheck(p) ==
    /\ pc[p] = "check"
    /\ IF Expired(meta[p].exp, now) THEN Goto(p, "deleteGet")
       ELSE IF op[p] = "download" THEN Goto(p, "open")
       ELSE Answer(p, "ok")
    /\ UNCHANGED <<now, backends, call, cancelled, sweep, mishaps, history>>

(* A missing object is an ordinary error here, not ErrNotFound. *)
DownloadOpen(p) ==
    /\ pc[p] = "open"
    /\ \/ Succeeds(p) /\ Answer(p, IF HasObject(file[p]) THEN "ok" ELSE "error")
       \/ Fails(p) /\ Answer(p, "error")
    /\ UNCHANGED <<now, backends, call, cancelled, sweep, history>>

(***************************************************************************)
(* Delete, on its own or nested in a lookup that found the file expired:   *)
(* there its result is dropped and the lookup returns ErrNotFound.         *)
(***************************************************************************)
StartDelete(p, id) ==
    /\ id \in acked
    /\ Begin(p, "delete", id, NoMeta, "deleteGet")
    /\ requested' = requested \cup {id}
    /\ late' = late \ {p}
    /\ UNCHANGED <<promised, landed, acked, deleted>>

DeleteReturns(p, r) ==
    /\ Answer(p, IF op[p] = "delete" THEN r ELSE "notFound")
    /\ deleted' = IF op[p] = "delete" /\ r = "ok"
                  THEN deleted \cup {file[p]} ELSE deleted
    /\ UNCHANGED <<promised, landed, acked, requested, late>>

DeleteGet(p) ==
    /\ pc[p] = "deleteGet"
    /\ \/ Succeeds(p) /\ HasRow(file[p]) /\ Goto(p, "eraseBlob") /\ UNCHANGED history
       \/ Succeeds(p) /\ ~HasRow(file[p]) /\ DeleteReturns(p, "ok")
       \/ Fails(p) /\ DeleteReturns(p, "error")
    /\ UNCHANGED <<now, backends, call, cancelled, sweep>>

(* Mutant: the call to store.Delete is missing. *)
EraseBlobSkipped(p) ==
    /\ pc[p] = "eraseBlob"
    /\ Goto(p, "eraseCache")
    /\ UNCHANGED <<now, backends, call, cancelled, sweep, mishaps, history>>

(* The three removals, the same and in the same order in Delete and in      *)
(* PurgeExpired: the errors of the first two are ignored.                   *)
EraseBlob(p) ==
    /\ pc[p] = "eraseBlob"
    /\ \/ Succeeds(p) /\ DeleteObject(file[p])
       \/ Fails(p) /\ UNCHANGED store
    /\ Goto(p, "eraseCache")
    /\ UNCHANGED <<now, db, cache, events, call, cancelled, sweep, history>>

EraseCache(p) ==
    /\ pc[p] = "eraseCache"
    /\ \/ Succeeds(p) /\ CacheDelete(file[p])
       \/ Fails(p) /\ UNCHANGED cache
    /\ Goto(p, "eraseRow")
    /\ UNCHANGED <<now, db, store, events, call, cancelled, sweep, history>>

(* Mutant: the call to repo.Delete is missing. *)
EraseRowSkipped(p) ==
    /\ pc[p] = "eraseRow"
    /\ Goto(p, "publishGone")
    /\ UNCHANGED <<now, backends, call, cancelled, sweep, mishaps, history>>

(* Mutant: the error of repo.Delete is ignored like the others. *)
EraseRowIgnoringError(p) ==
    /\ pc[p] = "eraseRow"
    /\ \/ Succeeds(p) /\ DeleteRow(file[p])
       \/ Fails(p) /\ UNCHANGED db
    /\ Goto(p, "publishGone")
    /\ UNCHANGED <<now, store, cache, events, call, cancelled, sweep, history>>

(* An error here ends the Delete, or the whole sweep. *)
EraseRow(p) ==
    LET erase == DeleteRow(file[p])
        giveUp == IF p \in Sweepers THEN Answer(p, "error") /\ UNCHANGED history
                                    ELSE DeleteReturns(p, "error")
    IN
    /\ pc[p] = "eraseRow"
    /\ \/ Succeeds(p) /\ erase /\ Goto(p, "publishGone") /\ UNCHANGED history
       \/ Fails(p) /\ UNCHANGED db /\ giveUp
       \/ LosesReply(p) /\ erase /\ giveUp
    /\ UNCHANGED <<now, store, cache, events, call, cancelled, sweep>>

DeletePublish(p) ==
    /\ pc[p] = "publishGone"
    /\ Publish(p, "deleted")
    /\ DeleteReturns(p, "ok")
    /\ UNCHANGED <<now, db, store, cache, call, cancelled, sweep>>

(***************************************************************************)
(* PurgeExpired, and the loop around it that Sweeper.sweep and the sweep   *)
(* command share: list a batch, purge it, and list again until a batch     *)
(* comes back short.                                                       *)
(***************************************************************************)
StartSweep(s) ==
    /\ Free(s)
    /\ pc' = [pc EXCEPT ![s] = "list"]
    /\ reply' = [reply EXCEPT ![s] = None]
    /\ due' = [due EXCEPT ![s] = {}]
    /\ UNCHANGED <<now, backends, call, meta, cancelled, todo, purged, mishaps, history>>

(* The query reads the database's clock, not the server's. *)
ExpiredRows == {id \in Ids : db[id] # None /\ SqlExpired(db[id].exp, now + Skew)}

(* LIMIT without ORDER BY: any rows, as many as there are up to the limit. *)
Pages(rows) ==
    {page \in SUBSET rows : \/ Cardinality(page) = Batch
                            \/ Cardinality(page) < Batch /\ page = rows}

(* What follows the last row of a batch, parameterised by the loop's test. *)
EndOfBatch(s, short) ==
    /\ todo' = [todo EXCEPT ![s] = {}]
    /\ purged' = [purged EXCEPT ![s] = 0]
    /\ UNCHANGED file
    /\ IF short THEN Answer(s, "drained") ELSE Goto(s, "list")

NextRow(s, rest, n) ==
    \E id \in rest :
        /\ file' = [file EXCEPT ![s] = id]
        /\ todo' = [todo EXCEPT ![s] = rest \ {id}]
        /\ purged' = [purged EXCEPT ![s] = n]
        /\ Goto(s, "eraseBlob")

(* Mutant: a full batch counts as short. *)
AdvanceFullIsShort(s, rest, n) ==
    \/ NextRow(s, rest, n)
    \/ rest = {} /\ EndOfBatch(s, n <= Batch)

(* Mutant: an off-by-one the other way, so the last batch is never short. *)
AdvanceNeverShort(s, rest, n) ==
    \/ NextRow(s, rest, n)
    \/ rest = {} /\ EndOfBatch(s, n + 1 < Batch)

(* n rows of the batch are purged and the set rest of it is left. *)
Advance(s, rest, n) ==
    \/ NextRow(s, rest, n)
    \/ rest = {} /\ EndOfBatch(s, n < Batch)

PurgeList(s) ==
    /\ pc[s] = "list"
    /\ \/ /\ Succeeds(s)
          /\ due' = [due EXCEPT ![s] = @ \cup ExpiredRows]
          /\ \E page \in Pages(ExpiredRows) : Advance(s, page, 0)
       \/ /\ Fails(s)
          /\ Answer(s, "error")
          /\ UNCHANGED <<file, todo, purged, due>>
    /\ UNCHANGED <<now, backends, op, cancelled, history>>

PurgePublish(s) ==
    /\ pc[s] = "publishGone"
    /\ Publish(s, "expired")
    /\ Advance(s, todo[s], purged[s] + 1)
    /\ UNCHANGED <<now, db, store, cache, op, cancelled, due, history>>

(***************************************************************************)
(* The environment.                                                        *)
(***************************************************************************)
Tick ==
    /\ now < MaxTime
    /\ now' = now + 1
    /\ UNCHANGED <<backends, pc, call, meta, reply, cancelled, sweep, mishaps, history>>

(* Redis drops an entry: its TTL is over, memory is short, Redis restarts. *)
Evict(id) ==
    /\ cache[id] # None
    /\ cache' = [cache EXCEPT ![id] = None]
    /\ UNCHANGED <<now, db, store, events, pc, call, meta, reply, cancelled,
                   sweep, mishaps, history>>

(* A client disconnects, or a signal stops the in-process sweeper. *)
Cancel(p) ==
    /\ p \notin cancelled
    /\ ~Free(p)
    /\ Mishap("cancel")
    /\ cancelled' = cancelled \cup {p}
    /\ UNCHANGED <<now, backends, pc, call, meta, reply, sweep, history>>

(* A process dies with every handler and sweeper that runs in it. *)
Crash(dead) ==
    /\ \E p \in dead : ~Free(p)
    /\ Mishap("crash")
    /\ pc' = [p \in Actors |-> IF p \in dead THEN "idle" ELSE pc[p]]
    /\ reply' = [p \in Actors |-> IF p \in dead THEN None ELSE reply[p]]
    /\ meta' = [p \in Actors |-> IF p \in dead THEN NoMeta ELSE meta[p]]
    /\ cancelled' = cancelled \ dead
    /\ todo' = [s \in Sweepers |-> IF s \in dead THEN {} ELSE todo[s]]
    /\ purged' = [s \in Sweepers |-> IF s \in dead THEN 0 ELSE purged[s]]
    /\ UNCHANGED <<now, backends, call, due, history>>

(* The server is started again after a signal stopped its sweeper. *)
Restart(s) ==
    /\ Free(s)
    /\ s \in cancelled
    /\ cancelled' = cancelled \ {s}
    /\ UNCHANGED <<now, backends, pc, call, meta, reply, sweep, mishaps, history>>

(***************************************************************************)
(* The specification.                                                      *)
(***************************************************************************)
ReqStart(p) ==
    \/ \E size \in Sizes : RejectUpload(p, size)
    \/ \E ttl \in TTLs, size \in Sizes : \E declared \in {size, Unknown} :
            StartUpload(p, ttl, size, declared)
    \/ \E o \in {"metadata", "download"}, id \in Ids : StartLookup(p, o, id)
    \/ \E id \in Ids : StartDelete(p, id)

ReqStep(p) ==
    \/ UploadPut(p) \/ UploadInsert(p) \/ UploadUndo(p)
    \/ UploadCache(p) \/ UploadPublish(p)
    \/ LookupCache(p) \/ LookupRow(p) \/ LookupFill(p) \/ LookupCheck(p)
    \/ DownloadOpen(p)
    \/ DeleteGet(p) \/ EraseBlob(p) \/ EraseCache(p) \/ EraseRow(p)
    \/ DeletePublish(p)

SweepStep(s) ==
    \/ PurgeList(s) \/ EraseBlob(s) \/ EraseCache(s) \/ EraseRow(s)
    \/ PurgePublish(s)

Environment ==
    \/ Tick
    \/ \E id \in Ids : Evict(id)
    \/ \E p \in Actors : Cancel(p)
    \/ \E dead \in SUBSET Actors : Crash(dead)
    \/ \E s \in Sweepers : Restart(s)

Next ==
    \/ \E p \in Reqs : ReqStart(p) \/ ReqStep(p)
    \/ \E s \in Sweepers : StartSweep(s) \/ SweepStep(s)
    \/ Environment

Spec == Init /\ [][Next]_vars

(* Handlers and sweeps run to their end and the ticker keeps firing.  Run's *)
(* select may prefer the ticker to a cancelled context, but not for ever,   *)
(* and a stopped server is started again.  Nothing makes clients call,      *)
(* backends fail or the clock advance.                                      *)
Fairness ==
    /\ \A p \in Reqs : WF_vars(ReqStep(p))
    /\ \A s \in Sweepers : /\ WF_vars(SweepStep(s))
                           /\ WF_vars(StartSweep(s))
                           /\ SF_vars(Restart(s))

FairSpec == Spec /\ Fairness

(***************************************************************************)
(* Properties.                                                             *)
(***************************************************************************)
TypeOK ==
    /\ now \in Nat
    /\ db \in [Ids -> Meta \cup {None}]
    /\ store \in [Ids -> Nat \cup {None}]
    /\ cache \in [Ids -> Meta \cup {None}]
    /\ events \in [Ids -> SUBSET {"uploaded", "deleted", "expired"}]
    /\ pc \in [Actors -> PCs]
    /\ op \in [Actors -> {"none", "upload", "metadata", "download", "delete", "sweep"}]
    /\ file \in [Actors -> Ids \cup {None}]
    /\ meta \in [Actors -> Meta]
    /\ reply \in [Actors -> Replies \cup {None}]
    /\ cancelled \subseteq Actors
    /\ todo \in [Sweepers -> SUBSET Ids]
    /\ purged \in [Sweepers -> Nat]
    /\ due \in [Sweepers -> SUBSET Ids]
    /\ mishaps \in Nat
    /\ promised \in [Ids -> Expiries \cup {None}]
    /\ landed \subseteq Ids /\ acked \subseteq Ids /\ requested \subseteq Ids
    /\ deleted \subseteq Ids /\ late \subseteq Reqs

(* Nothing has gone wrong so far: no fault, no lost context, no crash. *)
Calm == mishaps = 0

(* The file may be taken away: a client asked for it, or one of the two     *)
(* expiries the layers keep, exact in the cache and rounded in MySQL, is    *)
(* over.                                                                    *)
Doomed(id) ==
    \/ id \in requested
    \/ Expired(promised[id], now)
    \/ Expired(AsTimestamp(promised[id]), now)

(* A file whose id a client was given keeps its row, with the expiry it was *)
(* promised up to rounding, and its bytes, all of them, until someone asks  *)
(* to delete it or it expires, whatever fails meanwhile (Upload's order of  *)
(* Put, Insert and rollback; every caller of store.Delete and repo.Delete). *)
LiveFileKept ==
    \A id \in acked :
        ~Doomed(id) =>
            /\ db[id] # None
            /\ db[id].exp = AsTimestamp(promised[id])
            /\ store[id] = db[id].size

(* Metadata and Download report ErrNotFound for a file they were given the  *)
(* id of only if that file may be gone: no error, miss or race is mistaken  *)
(* for absence.                                                             *)
NoFalseNotFound ==
    \A p \in Reqs :
        pc[p] = "done" /\ reply[p] = "notFound" => Doomed(file[p])

(* A file.deleted or file.expired event is published only once the row is   *)
(* gone for good and for a reason; file.expired only past the exact expiry  *)
(* although the sweeper compares rounded times (StorageKeysExpiredBefore).  *)
TruthfulEvents ==
    \A id \in Ids :
        /\ events[id] \cap {"deleted", "expired"} # {} =>
                db[id] = None /\ id \in landed /\ Doomed(id)
        /\ "expired" \in events[id] => Expired(promised[id], now)

(* While nothing fails, bytes without a row belong to an upload on its way  *)
(* to Insert or to a clean-up: no interleaving of uploads, deletes and      *)
(* sweeps strands a blob.                                                   *)
NoStrandedBlob ==
    Calm => \A id \in Ids :
        store[id] # None /\ db[id] = None =>
            \E p \in Reqs : file[p] = id /\ pc[p] \in {"insert", "discard", "rollback"}

(* While nothing fails, a row without bytes is being erased by someone, and *)
(* that row's file may be gone.                                             *)
NoDanglingRow ==
    Calm => \A id \in Ids :
        db[id] # None /\ store[id] = None =>
            /\ Doomed(id)
            /\ \E p \in Actors : file[p] = id /\ pc[p] \in {"eraseCache", "eraseRow"}

(* While nothing fails, a Download that begins after a Delete of the file   *)
(* has returned nil never gets the bytes, whatever the cache still says.    *)
DeletedBytesUnreachable ==
    Calm => \A p \in late :
        ~(op[p] = "download" /\ pc[p] = "done" /\ reply[p] = "ok")

(* A sweep that ends without an error has removed every row that was        *)
(* expired at any of its listings, whichever rows LIMIT left out and        *)
(* whatever else deletes rows meanwhile ("until one comes back short,       *)
(* meaning no expired files remain").                                       *)
DrainedMeansDrained ==
    \A s \in Sweepers :
        pc[s] = "done" /\ reply[s] = "drained" =>
            \A id \in due[s] : db[id] = None

(* A lookup passes the expiry check at most half a second after the expiry  *)
(* its uploader was told, whether the record came from the cache or MySQL.  *)
ServedAtMostHalfSecondLate ==
    [][\A p \in Reqs :
        pc[p] = "check" /\ pc'[p] \in {"open", "done"} =>
            \/ promised[file[p]] = Never
            \/ now <= promised[file[p]] + (TicksPerSecond \div 2)]_vars

(***************************************************************************)
(* FileService implements FileCatalog: a file is in the catalogue exactly  *)
(* while its row is in MySQL.                                              *)
(***************************************************************************)
lifeBar ==
    [id \in Ids |-> IF id \notin landed THEN "absent"
                    ELSE IF db[id] # None THEN "live" ELSE "gone"]

Catalog == INSTANCE FileCatalog
    WITH clock <- now, promise <- promised, life <- lifeBar, wanted <- requested

(* Every step of the service is a step of the catalogue or leaves it alone: *)
(* no row is removed before its time or twice, none comes back, and the     *)
(* expiry promised at upload never changes (Insert, Delete, PurgeExpired).  *)
ImplementsCatalog == Catalog!Spec

(* Every request is answered. *)
RequestsAnswered == \A p \in Reqs : ~Free(p) ~> Free(p)

(* Every sweep ends, also when its last page is exactly full, when it runs  *)
(* beside deletes of what it has listed, and when a file whose upload took  *)
(* longer than its lifetime lands, already expired, while it drains.        *)
SweepsEnd == \A s \in Sweepers : ~Free(s) ~> Free(s)

(* Every expired row is removed, by a sweep if not by a lookup. *)
ExpiredReaped == \A id \in Ids : id \in ExpiredRows ~> db[id] = None

(***************************************************************************)
(* What the repository says of the service and its code does not ensure.   *)
(***************************************************************************)
(* "If the metadata write fails, the orphaned blob is cleaned up" (Upload's *)
(* comment): an upload that failed left no bytes behind.                    *)
FailedUploadLeavesNoBlob ==
    \A p \in Reqs :
        op[p] = "upload" /\ pc[p] = "done" /\ reply[p] = "error" => store[file[p]] = None

(* "Delete removes a file's bytes, metadata, and cache entry": a lookup     *)
(* that begins after a Delete has returned nil does not find the file.      *)
DeletedMeansNotFound ==
    \A p \in late :
        ~(op[p] = "metadata" /\ pc[p] = "done" /\ reply[p] = "ok")

(* "Expired files are treated as gone the moment they are requested": no    *)
(* lookup passes the expiry check after the expiry its uploader was told.   *)
GoneOnceExpired ==
    [][\A p \in Reqs :
        pc[p] = "check" /\ pc'[p] \in {"open", "done"} =>
            ~Expired(promised[file[p]], now)]_vars

(* "sweep deletes every file whose expiry has passed - bytes, cache entry,  *)
(* and metadata": when a sweep reports success their bytes are gone.        *)
SweptBytesGone ==
    \A s \in Sweepers :
        pc[s] = "done" /\ reply[s] = "drained" =>
            \A id \in due[s] : store[id] = None
===============================================================================
