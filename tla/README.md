# dropcrate in TLA+

A model of dropcrate, a file-drop service: clients upload a file over HTTP or
gRPC and are given an id; the bytes go to object storage, the metadata to MySQL
and a Redis cache; files expire and a sweeper reclaims them. The modules here
model the code under `src/`, TLC checks them on small instances, and TLAPS
proves the central properties for every instance.

## The system

| Component | State | Operations | Hard behaviour |
|---|---|---|---|
| `service.Service` | none of its own | `Upload`, `Metadata`, `Download`, `Delete`, `PurgeExpired` | each is a chain of calls to four backends without a transaction; each call may fail, and chains of different requests interleave |
| `files.Repository` (MySQL) | table `files` | `Insert`, `GetByID`, `Delete`, `StorageKeysExpiredBefore` | expiry rounded to a second, `NOW()` truncated, `LIMIT` without order |
| `storage.S3Storage` | a bucket, objects `files/<id>` | `ensureBucket`, `Ping`, `Put`, `Get`, `Delete` | an effect without a reply; a body of unknown length; bytes that vanish while they are read |
| `cache.MetadataCache` (Redis) | entries `file:<id>` | `Get`, `Set`, `Delete` | errors are misses; entries vanish, or outlive the row |
| `events.Kafka` | queued messages | `Publish`, `Close` | best effort, one topic per type, a flush at the end |
| `sweeper.Sweeper`, `dropcrate sweep` | ticker | loop over `PurgeExpired` until a short batch | several at once, cut short by errors and signals |
| `rpc.Server` | a pipe, a feeder goroutine and two flags per upload | `Upload`, `Download`, `GetMetadata`, `Delete` | two goroutines at a pipe, client resets, the size limit |
| `api.API` | none | routes, multipart upload, TTL parsing, signed links, readiness | limits and statuses at the boundary, a response whose status is sent before its bytes |
| `auth`, `urlsign` | keys | check a key, sign and verify a link | whole-second validity |
| `database.Migrate` | `schema_migrations` | apply in order, record | crash between the two, concurrent migrators |
| `config.Load` | none | the environment's text to settings | unset, blank and unparsable values |
| `cmd.buildDeps`, `cmd.runServe` | goroutines, pools | start, signal, drain, close | many early returns, goroutines nobody waits for, order and time of the shutdown |

The transports call the service; the service calls the repository, the store,
the cache and the publisher; the sweeper and the sweep command call
`PurgeExpired`. All shared state is in the backends. A request's context is
cancelled when its client goes away, the in-process sweeper's by a signal.

What makes each part correct:

- a file a client was given the id of is kept, whole, until it is asked to go or
  expires; nothing that was removed comes back;
- "not found" is never a disguised error; an event is never false;
- bytes and row are not parted while nothing fails;
- a sweep that says it is done is; expired rows go in the end; requests end;
- a streamed upload is all or nothing, and its status says what happened;
- a migration that is recorded was applied, in order, and migrating again
  completes the schema whatever happened before;
- a change needs a key, a link opens one file for its time, a file lives as long
  as its upload asked, and a status tells whose fault an error was;
- a download that looks complete is; a server that says it is ready has stores
  that answer;
- a process serves only on stores it has, releases them on every way out, and
  shuts down without harm to the requests it let in.

## Modules

| Module | Models | Proofs in |
|---|---|---|
| `FileRecord` | the record, expiry arithmetic, MySQL's rounding | `FileRecordProofs` |
| `FileService` | the service over its backends, requests, sweepers, failures | `FileServiceTypes`, `FileServiceSafety`, `FileServiceErasure` |
| `FileCatalog` | what the service promises about one file (abstract) | `FileServiceSafety` (last part) |
| `UploadStream` | handler, feeder and pipe of one gRPC upload | `UploadStreamProofs` |
| `Migrate` | `dropcrate migrate`, several at once and again | `MigrateProofs` |
| `Config` | `config.Load`, used by the next two | |
| `Lifecycle` | one `dropcrate serve` process from its environment to its exit code | `LifecycleProofs` |
| `Gateway` | what a client sees of HTTP and gRPC: keys, links, lifetimes, limits, statuses, bodies, readiness | `GatewayProofs` |
| `MCFileService`, `MCMigrate`, `MCLifecycle`, `MCGateway` | values and symmetry for TLC | |

### FileRecord and FileService

Time is counted in ticks, `TicksPerSecond` to the second: the server's clock has
ticks, MySQL only whole seconds. `AsTimestamp` is what an expiry becomes in the
`expires_at` column. MySQL's clock is `Skew` ticks ahead of the server's, or
behind it.

`db`, `store`, `cache` and `events` are the four backends, per id. Each request
and sweeper has a program counter whose value names its next backend call; one
action is one call and the code up to the next. Rows of the table below are the
actions of one use case in the order of the code.

| Code | Actions |
|---|---|
| `Upload` | `RejectUpload`, `StartUpload`, `UploadPut`, `UploadInsert`, `UploadUndo` (both clean-ups), `UploadCache`, `UploadPublish` |
| `Metadata`, `Download` | `StartLookup`, `LookupCache`, `LookupRow`, `LookupFill`, `LookupCheck`, `DownloadOpen` |
| `Delete`, alone or nested in an expired lookup | `StartDelete`, `DeleteGet`, `EraseBlob`, `EraseCache`, `EraseRow`, `DeletePublish` |
| `PurgeExpired` and the loop around it | `StartSweep`, `PurgeList`, the three `Erase` actions, `PurgePublish` |
| environment | `Tick`, `Evict`, `Cancel`, `Crash`, `Restart` |

A call succeeds, fails without effect, or takes effect and is reported as failed
(`Succeeds`, `Fails`, `LosesReply`); on a cancelled context it fails, except
that an event may still be queued. `Publish` may also lose the event silently;
with the no-op publisher all of them are lost. `Crash(dead)` kills the actors of
one process. `promised`, `landed`, `acked`, `requested`, `deleted`, `late` and
`due` are history: no action's effect on the backends depends on them, except
that an id is minted once (a UUID) and that clients only name ids they were
given.

`FileCatalog` is the abstract specification: an id is promised an expiry,
appears at most once, vanishes only when wanted or expired, and never returns.
The refinement maps a file to "live" while its row is in MySQL.

### UploadStream

`handler` is `Server.Upload` with `service.Upload` inside it, `feeder` the
goroutine it starts. The pipe follows `io.Pipe`: a write is an `offer` that
reads take in parts, it returns when all of it is read or the read end is
closed, and a reader sees the end or the error the write end was closed with. A
flag is set in one step and the pipe closed in the next, so the handler may run
in between. What the client sends is chosen when the feeder receives it; it may
reset the stream at any time. `FeedRefused` is a message that grpc-go does not
accept, above all one longer than its default limit of 4 MiB, which the server
does not change: to the feeder that is an error like a broken stream, so the
handler returns `Internal` and not `ResourceExhausted`. What `service.Upload` does after the body is read
is one step here, with the outcomes `FileService` allows.

### Migrate

Each migrator is one `dropcrate migrate` process and each SQL statement of
`database.Migrate` one action: `Create`, `Load`, `Apply` and `Record`. `GoOn` is
the code between them: the loop's head, with the sorted file names as numbers,
which skips what was loaded as recorded. Each migrator has the files of its own
release, so an older and a newer binary can race. A statement works, or an error
ends the migrator with the statement's effect or without it; `Record` also fails
when another migrator has inserted the row. Migrating stops at the first error
and is started again by `Start`. Applying a file again does no harm in the
model: the one migration there is says `CREATE TABLE IF NOT EXISTS`. A later one
that fails the second time would break `Converges` after a crash between `Apply`
and `Record`; the other properties do not depend on it.

### Config and Lifecycle

`Load` maps an environment, a function from variable names to what their text
is, to the settings another module branches on. Only a duration that does not
parse is an error; a limit that does not parse is the default, and blank list
entries are dropped.

`main` is the next statement of `buildDeps` and `runServe`, then of the deferred
calls in the order Go runs them; `Return` is an early return and names the first
deferred call that is due. `opened` is what was acquired and not yet closed. The
three goroutines have a variable each: `server` for the two listeners and
`sweeper`; `errCh` is the channel of the same name. `bound` is the servers whose
listener is open: main opens the gRPC one, the HTTP goroutine its own, and no
deferred call closes either. A server is "early" when `GracefulStop` was called
before its goroutine came to `Serve`, which then closes the listener at once, if
the process lives so long. A request is an interval: `Accept` to `Finish`,
whenever its client lets it.

| Code | Actions |
|---|---|
| `config.Load`, `buildDeps`, `tracing.Setup`, `net.Listen` | `LoadConfig`, `OpenDB`, `CheckBucket`, `MakeBucket`, `PingCache`, `SetupTracing`, `Listen` |
| the `select` of `runServe` and what follows it | `TakeError`, `TakeSignal`, `GrpcStopped`, `HttpStopped` |
| deferred calls | `DeferredStop`, `StopTracing`, `CloseKafka` and `Flush` (one `writer.Close`), `CloseCache`, `CloseDB`, `Exit` |
| goroutines | `Serve`, `Die`, `Deliver` (the Kafka writer's), `SweeperTick`, `SweepEnds`, `SweeperStops` |
| the world | `Accept`, `Finish`, `Signal`, `OtherMakesBucket` |

Signals are caught from `signal.NotifyContext` to `stop()`; before and after,
one kills the process, and in between a second one changes nothing. The HTTP
server accepts requests until `Shutdown` is called, which is after
`GracefulStop` has returned. Nobody waits for the sweeper. Another replica that
starts at the same time may make the bucket between this one's check and its
`MakeBucket`, which then fails.

### Gateway

One request at a time, from its headers to the last byte of its response; what
requests do to each other is `FileService`'s subject. Between any two steps of a
handler the clock may tick, a part (MySQL, Redis, S3, the bucket, the disk for
form parts) may go down or come back, the client may hang up and somebody else
may delete the file; between requests the server may be restarted under another
environment. A call to the service is one step with the outcomes that the parts
that are up allow. Statuses have one name for both transports.

| Code | Definitions |
|---|---|
| `auth`, `requireAuth`, the interceptors | `Enabled`, `Valid`, `BearerToken`, `Protected`, `Authorize`; what needs a key is one list for each transport, `guardedRoutes` and `protectedMethods` |
| `parseTTL`, `ttlFromSeconds` | the same names; a duration is `Width` bits wide and wraps |
| `urlsign` | `Query`, `Verify`, over an ideal MAC `sign`; expiry in whole seconds |
| `handleUpload`, `Server.Upload` | `ReadForm` or `RecvInfo`, `Upload`, `Respond` |
| `handleDownload`, `Server.Download` | `VerifyLink` (HTTP only), `Lookup`, `Open`, `SendHead`, then `Read` and `Send` per buffer |
| `handleMetadata`, `handleDelete`, their RPCs | `Lookup`, `Delete` |
| `handleReady` | `Ping`, one store after the other |

`Promise` is what the documents say a `ttl` means, written independently of the
code's conversion; `promised`, a link's `until`, `wasUp` and `wasDown` are
history that no handler reads. A gRPC download asks for no link. An HTTP response
cut short is visible to its client because fewer bytes arrive than its
`Content-Length` declares (`Copied`). What the table cannot hold makes the upload
fail as an internal error (`Insertable`): an expiry beyond January 2038, the end
of `TIMESTAMP`, a file name above 512 characters or a content type above 255,
under MySQL's strict mode, which is its default. A message that grpc-go does not
accept does the same over gRPC (the form "refused"). A failure to
spool the form to disk is answered 400: the handler takes any error that is not
about the length for a missing field.

## Runs

| Run | Instance | Shows |
|---|---|---|
| `mishaps` | 1 id, 2 requests, 1 sweeper, one mishap of any kind, 3 ticks a second | the layers' consistency under races and failures, and the refinement |
| `batches` | 2 ids, 1 request, 2 sweepers, batch 1, sizes 1 and 2 with limit 1, permanent and default lifetimes, no mishap | draining with full batches and competing sweepers |
| `fair` | 2 ids, 1 request, 1 sweeper, batch 1, one mishap, fairness | requests and sweeps end, expired rows go |
| `pipe` | limit 3, up to three chunks of 0 to 2 bytes, one fault, fairness | streamed uploads are all or nothing, explained and settled |
| `rerun` | an older and a newer release, 4 files, two mishaps, fairness | migrations are recorded truthfully, completely and in order, and reruns converge |
| `serve` | 2 RPCs, 1 HTTP request, a sweep, 4 environments, two failures, fairness | every way out releases everything, a shutdown harms nobody, and only a stalled RPC can hold it up |
| `requests` | 1 file and 1 id of nobody's, 3 environments to restart among and one that does not load, sizes 0, 2 and 3 with limit 2, 2 ticks a second, one outage | who may change what, how long links and files live, what statuses mean, no silently short download |
| `orphan`, `stale`, `overdue`, `leak`, `unlimited` | the smallest instance that shows it | the code does not do what a comment or the README says (below) |

Bounds. Ids are independent of each other except in a sweep's batches, so one id
is enough for races on a file and two for batches. Two requests and a sweeper
give every pair of racing use cases on one file, one of them possibly a sweep.
Three ticks a second is the smallest resolution at which rounding goes both
ways. `MaxTime` lets a file expire and the truncated `NOW()` pass it. `mishaps` and
`overdue` have MySQL's clock one tick ahead, which with three a second is as far
as it may be; the other runs have no skew. One mishap
is enough to break every chain at every call. In `fair` the second file may be
listed with the first, a page each, or its upload may start at time 0 and its row
land, already expired, while the sweep erases the first; the last page is exactly
full either way. To keep it small, ids are minted in order there and clients read
and delete the first file only (`BoundedFairSpec`); both restrict what clients
begin, for which there is no fairness. With a limit of 3 and chunks of 0 to 2 the limit is met
exactly, crossed inside a chunk and crossed by a later one. In `rerun` the newer
release adds a file behind and one between the older one's, so a file may be
pending whose successors are recorded. `serve` takes two failures because one
may decide how main leaves and the other happen on the way; two RPCs, so that
one may stall while another is served. In `requests` uploads come with a file name that is too long, without their file,
and over gRPC with a message that is not accepted, too. Its environments are open,
locked and signing, and the latter with both keys changed; the lengths 2 and 3
sit on and above the limit, 0 and the form's framing of 2 on it as well, and 0
is an empty body; 4 seconds overflow the 4 bits of a duration; `MaxTime` = 4
lets a link and a file made late still end, and an expiry exceed the last
timestamp. Two ticks a second are the fewest at which a link's expiry is
truncated and a row's rounded. The proofs remove
these bounds for the properties they cover.

Symmetry (ids, requests, sweepers) is used in `mishaps` and `batches`, which
check no liveness.

Fairness. Handlers and sweeps take their next step (goroutines are scheduled and
backend calls return), the ticker fires again, and a stopped server is started
again. `Restart` is strongly fair because `Run`'s `select` may take the ticker
on a cancelled context several times, but not for ever. Nothing is assumed of
clients, of the clock or of Redis. In `UploadStream` both goroutines are weakly
fair; the client is not, and the gRPC server has no deadline, so nothing is
claimed about a client that stays silent. In `Migrate` a running process goes on
and whoever runs migrations tries again until one succeeds: a failed
`dropcrate migrate` is repeated by an operator or an orchestrator, which is the
use "safe to run repeatedly" is meant for. In `Lifecycle` main and the server
goroutines run, the Kafka writer delivers an event or gives up on it after its
attempts, and a sweep ends; `SweeperStops` is strongly fair for the same reason
as `Restart`. No client has to finish its request, no signal has to come, and
nothing has to fail. `Gateway` states no fairness.

### Where the code and its documents differ

- `orphan`: `Upload`'s comment says that an orphaned blob is cleaned up if the
  metadata write fails. If it fails because the client has disconnected, the
  clean-up runs on the same cancelled context and fails too; no row names the
  blob, so no sweep ever finds it.
- `stale`: "Delete removes a file's bytes, metadata, and cache entry." A lookup
  that read the row before a `Delete` may refill the cache after it; metadata
  requests then find the deleted file until Redis drops the entry. Its bytes are
  gone, though (`DeletedBytesUnreachable`).
- `overdue`: "Expired files are treated as gone the moment they are requested."
  After a cache miss the expiry has been rounded by MySQL, and the file is
  served for up to half a second longer, and no more
  (`ServedAtMostHalfSecondLate`).
- `leak`: `sweep` "deletes every file whose expiry has passed - bytes, cache
  entry, and metadata". If `store.Delete` fails, the row is deleted all the same
  and the sweep succeeds.
- `unlimited`: "0 means unlimited" of the upload limit, and the service and the
  gRPC server do as it says; `handleUpload` gives the 0 to `http.MaxBytesReader`,
  which then refuses every form with 413.

Smaller ones, seen while modelling and built into the models as the code has
them: `S3Storage.Ping` drops `BucketExists`'s answer, so a server without its
bucket is ready; "Stop serving and reaping when an OS signal arrives" is true of
the HTTP server only once the last RPC has ended; `SWEEP_BATCH=0` makes a sweep
spin; a `ttl_seconds` beyond 292 years wraps; a file name or content type that is
too long for its column is answered 500, after its bytes were stored; a chunk
above grpc-go's own limit of 4 MiB ends the handler with `Internal` although
`MAX_UPLOAD_BYTES` may allow it; when one server dies, `runServe` returns without
stopping the other, whose listener (the gRPC one was bound in `runServe` itself)
is closed only by the end of the process.

## Proofs

All are for arbitrary sets of ids, requests and sweepers, any limit, batch and
number of mishaps, and any clock resolution. Every safety invariant, every
action property and the refinement that a passing run checks has a theorem.
They assume of the constants:

- `TicksAssumption`, `ServiceAssumption`, `StreamAssumption`,
  `MigrateAssumption`, `RequestsAssumption`, `GatewayAssumption`: their types,
  finitely many ids, that `None` and the other markers differ from every value,
  that file names are ordered like numbers, and that the two transports'
  requests are different ones;
- `EnvAssumption`: the text of a number in an environment is a number, absent or
  does not parse, and the built-in defaults are numbers;
- `UnsetAssumption`: a header or query that is not there is none with a key or a
  signature in it;
- `SkewAssumption`: MySQL's clock is at most half a second ahead of the server's;
  it may be behind by any amount. The code has nothing that sees to this: it is
  what a deployment owes. It is also exact, `NoMoreSkew`: with one tick more
  some file is listed before its expiry. A session time zone east of UTC is a
  skew of hours;
- `WidthAssumption`: `2^Width = 2 * 2^(Width - 1)`, and it is positive. This is
  arithmetic, true of every width, that the provers have no rule for.

- `FileRecordProofs`: rounding moves an expiry by less than a second, at most
  half of one upwards, and what SQL calls expired is expired on the server's
  exact clock (`SqlExpiredIsExpired`): rounded up or down, the strict comparison
  with the truncated `NOW()` leaves a margin, which half a second of skew uses
  up (`NoMoreSkew`). Rounding keeps the order of two
  expiries (`RoundMonotone`), and a row that SQL has called expired stays so
  (`SqlExpiredStays`).
- `FileServiceTypes`: `TypeOK` is inductive together with `HasFile`, that an
  actor in the middle of a use case has an id in hand. The same two give
  `HandlersOnlyAdvance` and `SweepsOnlyAdvance` (below).
- `FileServiceSafety`: the invariant `IInv` says what every layer may hold
  (`LayerInv`) and what every actor knows between two calls (`ActorInv`).
  `LiveFileKept` is not inductive by itself: that nobody erases a live file
  needs `EraseInv` (whoever is about to erase an id may do so), which needs
  `LookupInv` and `CacheInv` (any expiry found in the cache or in a row is the
  promised one, perhaps rounded), `SweepInv` (everything listed is past its
  exact expiry) and `UploadsApart` (two uploads never share an id). The proof goes
  actor by actor: each part of `ActorInv` is a predicate of one actor (`UploadOf`,
  `LookupOf`, `EraseOf`, `SweepOf`, `AnswerOf`, together `ActorOK`), a step is one
  actor's own, for which its part is shown anew (`OwnStep`), and all the others
  keep what they know (`OthersKeep`). `Stays` is what makes their knowledge last:
  time and requests only grow. From `IInv` follow
  `FilesAreKept`, `NotFoundIsTrue`, `EventsAreTruthful` and `LatenessIsBounded`.
  Only `UploadInsert` and `EraseRow` change the catalogue, and with `IInv` the
  first is `Appear` and the second `Vanish` or a stutter; hence
  `ServiceImplementsCatalog`.
- `FileServiceErasure`: what erasing leaves behind, in three arguments on top of
  `IInv`.
  - `SweepsDrain`. A sweep stops at a batch it counts as short, so the count has
    to be right. `DueInv`: what was once listed as expired is expired until its
    row goes, and no row comes back. `BatchInv`: in the middle of a batch either
    rows purged, in hand and to do add up to `Batch` (so this batch cannot be
    taken for a short one) or every row that is left is in hand or to do. The
    two cases are the two ways out of `LIMIT`, a full page or all there is.
  - `NoBlobStranded` and `NoRowDangles`, while nothing fails. Neither is
    inductive: `BytesFirst` says that whoever has got past `store.Delete` has
    left no bytes, `NoUndo` that no context is cancelled and no insert is undone,
    and `BeingErased` who is about to delete the row that has lost its bytes; the
    last has to survive a second eraser of the same file, which needs
    `BytesFirst` for it too.
  - `DeletedStaysUnread`. A reported deletion means that the row is gone
    (`DeletedInv`), so with `NoStrandedBlob` the bytes are, and a download that
    began afterwards (`LateInv`) cannot open them whatever the cache told it.
- `UploadStreamProofs`: `SInv` accounts for every byte between the client and
  the store (read plus on offer equals sent) and for what each way of closing
  the pipe implies (an error: a reset, a refused message, a flag, or a handler
  that is back); `StreamedFilesAreWhole`, `StatusIsTrue` and `LimitIsKept`
  follow.
- `MigrateProofs`: `MInv` says what a migrator knows at its file (`LoopInv`:
  what it loaded is still recorded, and so is every file before its own, by
  whomever) and, while no mishap and no second migrator has been there
  (`AloneInv`), that it alone runs, has seen all rows behind its file and that
  what is applied is recorded or about to be. `SkippedUnlessDisturbed` needs all
  of the latter: that a file about to be applied has never been applied follows
  only from what is recorded and from nobody else being about to record it.
- `LifecycleProofs`: `Inv` says what is held at each statement of main, at most
  (`HeldAtMost`, for `EverythingReleased`: the way out closes in the reverse
  order of the way in, so each early return meets exactly what is open) and at
  least (`HeldAtLeast`, for `StoresFirst`), when the writer is empty
  (`Flushed`), whose listener can still be open (`PortsFreed`: of a server that
  has ended none, and an error is returned only with both servers shut or one
  dead), what the shutdown has waited for (`Drained`) and why a request
  can have been cut (`CutForAReason`). `ShutdownHarmsNobody` needs the last two
  together: that no RPC runs at `Shutdown` is of use only because none can get
  in any more.
- `GatewayProofs`: `IInv` follows a request through its handler. `PathInv` says
  what it has been checked for by the time it is at a step, `PartsInv` which
  stores it must have seen up or down, `StreamInv` how many bytes a download has
  declared, sent and holds, `RecordInv` and `LinkInv` what every record and link
  still carries of the configuration it was made under. `DownloadsAreWhole` needs
  from `StreamInv` that the reader reports the end at the end of the object only
  and that the declared length is the object's; `BlameHolds` needs all of them,
  and `FaultInv` keeps it true after the request has ended while the world goes
  on. `LimitHolds` and `ReadyIsTrue` are parts of `IInv`; `LinksHold`,
  `WritesNeedKey` and `LifetimesHold` are action properties that follow from it:
  the first because the query a request brings is a link with its expiry changed
  or not (`ReqInv`) and the signature covers the expiry, the second because
  `Refused` is decided before every step that writes, the
  third from `WrapFacts` (a duration that fits is not changed by its width) and
  the rounding lemmas.

Liveness itself is beyond the prover, but most of what an argument for it needs
is a statement about steps: that whoever runs comes nearer to its end with each
of them, that others do not throw it back, and that what it waits for does not
slip away. These are proved, and what is left to TLC is the fairness argument
alone.

| Liveness | Its safety half | What it says |
|---|---|---|
| `RequestsAnswered` | `HandlersOnlyAdvance` | a call leads to a later one (`StepsLeft`, at most nine); no retry, no loop |
| `SweepsEnd` | `SweepsOnlyAdvance` | a page is taken row by row, each row gone after its four steps; only a full page leads back to the query |
| `ExpiredReaped` | `ExpiredStaysListed` | a row the query finds is found again until it is gone |
| `UploadSettles` | `PipeNeverWedges`, `StreamRunsDown` | handler and feeder never wait for each other once the client is through; every step of theirs lowers a count that only another chunk raises |
| `ExitsUnlessStalled`, `ReapingStops` | `NoWayBack` | main goes down its statements, at most seventeen; a signal is not taken back; the last flush gets no new events; a stopped sweeper stays so |
| `Converges` | `RunsOnlyAdvance` | a run goes through its files once and in order; no other migrator moves it; the database keeps what it has |

`SweepsEnd` needs `Batch > 0`. With `SWEEP_BATCH=0`, which `config.Load` lets
pass, `ZeroBatchReapsNothing` shows that no sweep ends but with an error and that
none purges a file.

The types of `UploadStream` and `Migrate` (`StreamTypes`, `MigrateTypes`) are part
of `SInv` and `MInv`.

Every inductive invariant was checked by TLC on the instance of its run before
it was proved, and no leaf of a proof rests on contradictory hypotheses except
where a case is refuted: with the same facts, the provers do not derive `FALSE`.

Only model-checked: liveness (`RequestsAnswered`, `SweepsEnd`, `ExpiredReaped`,
`UploadSettles`, `Converges`, `ExitsUnlessStalled`, `ReapingStops`), which is out
of the prover's reach except for the halves above, and the violations. That a
count which falls with every step reaches zero is an induction, and that a fair
action is taken needs `ENABLED`; neither can be proved here.

## Not modelled

Names, content types and the contents of files, but for a name or type that is
too long; what grpc-go itself tells a client whose message it does not accept;
logging, metrics and tracing
spans, which observe and change nothing; JSON and the wire formats; the
generated protocol code; `/healthz`, which only answers, and grpc-go's health
and reflection services; pool sizes and memory. Addresses and credentials of the
configuration: a wrong one shows as a store that does not answer. Redis' TTL is
any eviction at any time. The skew of the database's clock does not change, and
the clocks of several servers are one. S3's `Put`
stores all or nothing: a failed multipart upload leaves no object. The order of
events across topics, and duplicates. In `Gateway`, an entry of the cache that
outlives its row: that is `stale`, in `FileService`.

## Plan

Done: `FileRecord`, `FileService`, `FileCatalog`, `UploadStream`, `Migrate`,
`Config`, `Lifecycle` and `Gateway`, with theorems for all their safety
properties and for the safety half of their liveness.

Left: an event bus behind `Publish` (topics, order, duplicates), for which the
code under `src/` has the sending side only.
