-------------------------------- MODULE Gateway --------------------------------
(***************************************************************************)
(* What a client sees of either transport: one request, from its headers   *)
(* to the last byte of its response, while the clock runs, backends come   *)
(* and go, others delete files, and the operator restarts the server with  *)
(* another configuration.                                                  *)
(*                                                                         *)
(* The service behind the handlers is FileService's subject; a call of it  *)
(* is one step here, with the outcomes the backends that are up allow.     *)
(* Statuses have one name for both transports: "tooLarge" is 413 over HTTP *)
(* and ResourceExhausted over gRPC, "internal" is 500 and Internal.        *)
(***************************************************************************)
EXTENDS FileRecord, Config

CONSTANTS
    Ids,           \* ids an upload may be given
    Strangers,     \* ids no upload is given
    Fresh,         \* the record of an id that was not given out yet
    Envs,          \* environments the server is started in
    Tokens,        \* tokens a client may present
    Sizes,         \* of files, in units of a read buffer
    Durations,     \* values of the form's ttl that parse, in ticks
    Seconds,       \* values of ttl_seconds
    Pin,           \* the form's ttl is "0" or "never"
    Framing,       \* what the multipart form adds to the size of a file
    Width,         \* bits of a time.Duration
    MaxTimestamp,  \* the last time a TIMESTAMP column can hold
    MaxTime,       \* bound on the clock
    MaxFaults      \* bound on outages

Statuses == {"ok", "badRequest", "unauthenticated", "forbidden", "notFound",
             "tooLarge", "internal", "unavailable", "cut", "canceled"}

ASSUME GatewayAssumption ==
    /\ Ids \cap Strangers = {} /\ Sizes \subseteq Nat /\ Durations \subseteq Int
    /\ Seconds \subseteq Int /\ Framing \in Nat /\ Width \in Nat \ {0}
    /\ MaxTime \in Nat /\ MaxFaults \in Nat /\ MaxTimestamp \in Nat
    /\ {None, Pin, Unset, Malformed} \cap Int = {}
    /\ None \notin Statuses /\ Unset # Pin

(* Arithmetic of the width, for the provers. *)
ASSUME WidthAssumption ==
    2^(Width - 1) \in Nat \ {0} /\ 2^Width = 2 * 2^(Width - 1)

(* Numbers in the environment are numbers, unless they do not parse. *)
ASSUME EnvAssumption ==
    \A v \in {"DEFAULT_TTL", "DOWNLOAD_URL_TTL", "MAX_UPLOAD_BYTES"} :
        /\ Defaults[v] \in Int
        /\ \A e \in Envs : e[v] \in Int \cup {Unset, Malformed}

(* An absent header or query is none that a key could be in. *)
ASSUME UnsetAssumption ==
    \A e \in Envs : Load(e) # Malformed =>
        /\ Unset \notin [scheme : {"bearer"}, token : Load(e).apiKeys]
        /\ Unset \notin [exp : Int, sig : [id : Ids, exp : Int, key : {Load(e).signingKey}]]

VARIABLES
    now,           \* the clock
    cfg,           \* the configuration of the running server
    file,          \* of each id: Fresh, what a lookup finds, or None once deleted
    blob,          \* of each id: the size of its object, or None
    links,         \* the signed links handed out so far
    up,            \* the parts that answer
    faults,        \* outages so far
    req, pc,       \* the request in hand and where its handler is
    status,        \* how it was answered
    gone,          \* its client has hung up
    wasUp, wasDown,\* parts that were up, and down, at some time during it
    body,          \* the open object: its size, or None
    declared,      \* the Content-Length sent, or None
    hand, rerr,    \* what the last Read returned
    sent           \* units the client has received

world  == <<now, cfg, file, blob, links>>
parts  == <<up, faults, wasUp, wasDown, gone>>
stream == <<body, declared, hand, rerr, sent>>
vars   == <<world, parts, stream, req, pc, status>>

(* The stores, the bucket, and the server's disk for form parts. *)
Parts == {"mysql", "redis", "s3", "bucket", "disk"}
Store == {"s3", "bucket"}

(* A call may succeed when what it needs is up, and fail when it is not or  *)
(* when the request's context was cancelled.                                *)
CanWork(P) == P \subseteq up
CanFail(P) == gone \/ ~(P \subseteq up)

-----------------------------------------------------------------------------
(* auth *)

Enabled == cfg.apiKeys \ {Blank} # {}

Valid(token) == token # Blank /\ token \in cfg.apiKeys \ {Blank}

(* Blank stands for the empty token as well. *)
BearerToken(header) ==
    IF header # Unset /\ header.scheme = "bearer" THEN header.token ELSE Blank

(* Mutant: Delete is left out of the list. *)
uploadMethod == {"upload"}

(* The gRPC methods that need a key, and the HTTP routes behind requireAuth. *)
protectedMethods == {"upload", "delete"}
guardedRoutes    == {"upload", "delete"}

Protected(r) == r.op \in IF r.over = "grpc" THEN protectedMethods ELSE guardedRoutes

Refused(r) == Enabled /\ Protected(r) /\ ~Valid(BearerToken(r.header))

-----------------------------------------------------------------------------
(* Lifetimes *)

Wrap(n) == ((n + 2^(Width - 1)) % 2^Width) - 2^(Width - 1)

(* parseTTL; -1 nanosecond is a tick here, any negative value pins. *)
parseTTL(raw) == CASE raw = Unset -> 0 [] raw = Pin -> -1 [] OTHER -> raw

(* Mutant: seconds are taken for ticks. *)
ttlTicks(secs) == IF secs < 0 THEN -1 ELSE Wrap(secs)

ttlFromSeconds(secs) == IF secs < 0 THEN -1 ELSE Wrap(secs * TicksPerSecond)

Ttl(r) == IF r.over = "http" THEN parseTTL(r.ttl) ELSE ttlFromSeconds(r.ttl)

(* MySQL refuses what its columns cannot hold: an expiry that is too late,  *)
(* and a file name or a content type that is too long.                      *)
Storable(exp) == exp = Never \/ RoundSec(exp) <= MaxTimestamp

Insertable(r, exp) == Storable(exp) /\ r.form # "unfit"

(* What the documentation says of the same values, for the properties: an   *)
(* empty ttl is the default, "0", "never" and negative seconds never        *)
(* expire, anything positive counts from creation.  None: nothing is said   *)
(* of it, or it does not fit in a time.Duration.                            *)
Promise(r, t) ==
    LET default == IF cfg.defaultTTL > 0 THEN t + cfg.defaultTTL ELSE Never
        fits(d) == d < 2^(Width - 1) IN
    IF r.over = "http"
    THEN CASE r.ttl = Unset -> default
           [] r.ttl = Pin   -> Never
           [] OTHER         -> IF r.ttl > 0 THEN t + r.ttl ELSE None
    ELSE CASE r.ttl = 0 -> default
           [] r.ttl < 0 -> Never
           [] OTHER     -> IF fits(r.ttl * TicksPerSecond)
                           THEN t + r.ttl * TicksPerSecond ELSE None

-----------------------------------------------------------------------------
(* urlsign *)

Signing == cfg.signingKey # Unset

(* An HMAC that tells apart whatever it is given. *)
sign(id, exp) == [id |-> id, exp |-> exp, key |-> cfg.signingKey]

Unix(t) == t \div TicksPerSecond

(* Mutant: the expiry is rounded after it was signed. *)
QuerySkewed(id, t) ==
    [exp |-> Unix(t + cfg.urlTTL), sig |-> sign(id, t + cfg.urlTTL),
     until |-> t + cfg.urlTTL]

(* Query at time t; until is when the link was meant to end. *)
Query(id, t) ==
    LET exp == Unix(t + cfg.urlTTL) IN
    [exp |-> exp, sig |-> sign(id, exp), until |-> t + cfg.urlTTL]

(* Mutant: the signature does not cover the expiry. *)
SignedIdOnly(id, q) ==
    q # Unset /\ q.exp # Malformed /\ q.sig.id = id /\ q.sig.key = cfg.signingKey

Signed(id, q) == q # Unset /\ q.exp # Malformed /\ q.sig = sign(id, q.exp)

Verify(id, q) == Signed(id, q) /\ Unix(now) <= q.exp

-----------------------------------------------------------------------------
(* Requests *)

Headers ==
    {Unset} \cup [scheme : {"bearer"}, token : Tokens \cup {Blank}]
            \cup [scheme : {"basic"}, token : Tokens]

(* A link as it was handed out, or with its expiry altered. *)
Queries ==
    {Unset} \cup UNION {{[exp |-> e, sig |-> l.sig] : e \in {l.exp, l.exp + 1, Malformed}}
                        : l \in links}

(* An upload with the uuid it will draw.  Its form may lack the file (over  *)
(* gRPC: the info message), name it or its type at too great a length, or   *)
(* (gRPC) hold a later message that grpc-go does not accept.                *)
Uploads ==
    LET id == {i \in Ids : file[i] = Fresh} IN
    [op : {"upload"}, over : {"http"}, id : id, header : Headers,
     form : {"ok", "bad", "unfit"}, size : Sizes, ttl : Durations \cup {Unset, Pin, Malformed}]
    \cup
    [op : {"upload"}, over : {"grpc"}, id : id, header : Headers,
     form : {"ok", "bad", "unfit", "refused"}, size : Sizes, ttl : Seconds]

Reads ==
    [op : {"download"}, over : {"http"}, id : Ids \cup Strangers, query : Queries]
    \cup
    [op : {"download"}, over : {"grpc"}, id : Ids \cup Strangers]
    \cup
    [op : {"metadata"}, over : {"http", "grpc"}, id : Ids \cup Strangers]

Deletes ==
    [op : {"delete"}, over : {"http", "grpc"}, id : Ids \cup Strangers,
     header : Headers]

Probes == [op : {"ready"}, over : {"http"}]

Idle ==
    /\ pc' = "idle" /\ req' = None /\ status' = None /\ gone' = FALSE
    /\ wasUp' = {} /\ wasDown' = {} /\ body' = None /\ declared' = None
    /\ hand' = 0 /\ rerr' = "nil" /\ sent' = 0

Goto(step) == pc' = step /\ UNCHANGED <<req, status>>
End(s)     == pc' = "ended" /\ status' = s /\ UNCHANGED req

Init ==
    /\ now = 0
    /\ cfg \in {Load(e) : e \in Envs} \ {Malformed}
    /\ file = [id \in Ids |-> Fresh]
    /\ blob = [id \in Ids |-> None]
    /\ links = {}
    /\ up = Parts /\ faults = 0 /\ wasUp = {} /\ wasDown = {} /\ gone = FALSE
    /\ req = None /\ pc = "idle" /\ status = None
    /\ body = None /\ declared = None /\ hand = 0 /\ rerr = "nil" /\ sent = 0

Begin(r) ==
    /\ pc = "idle"
    /\ req' = r
    /\ pc' = IF r.op = "ready" THEN "mysql" ELSE "auth"
    /\ wasUp' = up /\ wasDown' = Parts \ up
    /\ UNCHANGED <<world, up, faults, gone, stream, status>>

Handler(r) ==
    CASE r.op = "upload" -> "form"
      [] r.op = "delete" -> "delete"
      [] r.op = "download" /\ r.over = "http" -> "verify"
      [] OTHER -> "lookup"

(* requireAuth, and the interceptors of the gRPC server. *)
Authorize ==
    /\ pc = "auth"
    /\ IF Refused(req) THEN End("unauthenticated") ELSE Goto(Handler(req))
    /\ UNCHANGED <<world, parts, stream>>

-----------------------------------------------------------------------------
(* Upload *)

(* MaxBytesReader takes any limit below zero for zero. *)
BodyTooLong(r) ==
    r.size + Framing > IF cfg.maxUpload > 0 THEN cfg.maxUpload ELSE 0

(* handleUpload as far as the service: the whole form is read first, and    *)
(* whatever else goes wrong with it is reported as a missing field.         *)
ReadForm ==
    /\ pc = "form" /\ req.over = "http"
    /\ \/ CanFail({"disk"}) /\ End("badRequest")
       \/ /\ CanWork({"disk"})
          /\ CASE BodyTooLong(req) -> End("tooLarge")
               [] req.form = "bad" \/ req.ttl = Malformed -> End("badRequest")
               [] OTHER -> Goto("store")
    /\ UNCHANGED <<world, parts, stream>>

(* The first message of an upload stream. *)
RecvInfo ==
    /\ pc = "form" /\ req.over = "grpc"
    /\ \/ (req.form = "bad" \/ gone) /\ End("badRequest")
       \/ req.form # "bad" /\ Goto("store")
    /\ UNCHANGED <<world, parts, stream>>

(* Mutant: the limit itself counts as too large. *)
OverLimitOrAt(size) == cfg.maxUpload > 0 /\ size >= cfg.maxUpload

(* The declared size over HTTP, the bytes counted over gRPC. *)
OverLimit(size) == cfg.maxUpload > 0 /\ size > cfg.maxUpload

(* The limit is checked before anything is stored over HTTP; over gRPC the  *)
(* stream or the store may break before it is reached.                      *)
Upload ==
    /\ pc = "store"
    /\ LET exp == ExpiryFor(Ttl(req), cfg.defaultTTL, now) IN
       \/ OverLimit(req.size) /\ End("tooLarge") /\ UNCHANGED world
       \/ /\ \/ /\ ~OverLimit(req.size)
                /\ CanFail(Store \cup {"mysql"}) \/ ~Insertable(req, exp)
             \/ /\ req.over = "grpc"
                /\ CanFail(Store) \/ req.form = "refused"
          /\ End("internal") /\ UNCHANGED world
       \/ /\ ~OverLimit(req.size) /\ req.form # "refused"
          /\ CanWork(Store \cup {"mysql"}) /\ Insertable(req, exp)
          /\ file' = [file EXCEPT ![req.id] =
                        [exp |-> exp, promised |-> Promise(req, now)]]
          /\ blob' = [blob EXCEPT ![req.id] = req.size]
          /\ IF req.over = "http" THEN Goto("link") ELSE End("ok")
          /\ UNCHANGED <<now, cfg, links>>
    /\ UNCHANGED <<parts, stream>>

(* downloadURL *)
Respond ==
    /\ pc = "link"
    /\ links' = IF Signing THEN links \cup {Query(req.id, now)} ELSE links
    /\ End("ok")
    /\ UNCHANGED <<now, cfg, file, blob, parts, stream>>

-----------------------------------------------------------------------------
(* Reads and deletes *)

Found(id) == id \in Ids /\ file[id] \notin {Fresh, None}

(* respondLookupError does the same. *)
lookupStatus(err) == IF err = "ErrNotFound" THEN "notFound" ELSE "internal"

(* Service.Delete of a file that is there.  When it fails half way, the     *)
(* object may be gone already.                                              *)
Erase(id) ==
    \/ /\ CanWork({"mysql"})
       /\ file' = [file EXCEPT ![id] = None]
       /\ blob' = IF CanWork(Store) THEN [blob EXCEPT ![id] = None] ELSE blob
    \/ /\ CanFail({"mysql"})
       /\ UNCHANGED file
       /\ blob' \in {blob, [blob EXCEPT ![id] = None]}

VerifyLink ==
    /\ pc = "verify"
    /\ IF Signing /\ ~Verify(req.id, req.query) THEN End("forbidden") ELSE Goto("lookup")
    /\ UNCHANGED <<world, parts, stream>>

(* Service.Metadata: the cache may hold the exact expiry, the row holds it  *)
(* rounded, and a cache entry made from the row does too.                   *)
Lookup ==
    /\ pc = "lookup"
    /\ \/ CanFail({"mysql"}) /\ End(lookupStatus("err")) /\ UNCHANGED world
       \/ /\ ~Found(req.id) /\ CanWork({"mysql"})
          /\ End(lookupStatus("ErrNotFound")) /\ UNCHANGED world
       \/ /\ Found(req.id)
          /\ \E exp \in {file[req.id].exp, AsTimestamp(file[req.id].exp)} :
                /\ \/ CanWork({"redis"})
                   \/ CanWork({"mysql"}) /\ exp = AsTimestamp(file[req.id].exp)
                /\ IF Expired(exp, now)
                   THEN /\ End(lookupStatus("ErrNotFound")) /\ Erase(req.id)
                        /\ UNCHANGED <<now, cfg, links>>
                   ELSE /\ IF req.op = "download" THEN Goto("open") ELSE End("ok")
                        /\ UNCHANGED world
    /\ UNCHANGED <<parts, stream>>

(* handleDelete and Delete: an unknown id is no error. *)
Delete ==
    /\ pc = "delete"
    /\ \/ ~Found(req.id) /\ CanWork({"mysql"}) /\ End("ok") /\ UNCHANGED world
       \/ ~Found(req.id) /\ CanFail({"mysql"}) /\ End("internal") /\ UNCHANGED world
       \/ /\ Found(req.id) /\ Erase(req.id)
          /\ End(IF file' = file THEN "internal" ELSE "ok")
          /\ UNCHANGED <<now, cfg, links>>
    /\ UNCHANGED <<parts, stream>>

(* Storage.Get, whose Stat notices a missing object. *)
OpenObject(err) ==
    /\ pc = "open"
    /\ \/ /\ CanFail(Store) \/ blob[req.id] = None
          /\ End(lookupStatus(err)) /\ UNCHANGED body
       \/ /\ CanWork(Store) /\ blob[req.id] # None
          /\ body' = blob[req.id]
          /\ Goto("head")
    /\ UNCHANGED <<world, parts, declared, hand, rerr, sent>>

(* Mutant: an object that cannot be opened is reported as a missing file. *)
OpenNotFound == OpenObject("ErrNotFound")

Open == OpenObject("err")

(* Mutant: a response without Content-Length. *)
SendHeadChunked ==
    /\ pc = "head"
    /\ declared' = None
    /\ Goto("read")
    /\ UNCHANGED <<world, parts, body, hand, rerr, sent>>

(* The headers over HTTP, the info message over gRPC. *)
SendHead ==
    /\ pc = "head"
    /\ \/ req.over = "http" /\ declared' = body /\ Goto("read")
       \/ req.over = "grpc" /\ UNCHANGED declared /\ Goto("read")
       \/ req.over = "grpc" /\ gone /\ UNCHANGED declared /\ End("canceled")
    /\ UNCHANGED <<world, parts, body, hand, rerr, sent>>

(* Body.Read: a buffer full, the end (with the last buffer or after it), or *)
(* an error, with or without data.  The object must still be there when the *)
(* first bytes are asked for.                                               *)
Read ==
    /\ pc = "read"
    /\ \/ /\ sent < body /\ (sent > 0 \/ blob[req.id] # None)
          /\ hand' = 1
          /\ rerr' \in {"nil"} \cup (IF sent + 1 = body THEN {"eof"} ELSE {})
       \/ sent = body /\ hand' = 0 /\ rerr' = "eof"
       \/ /\ CanFail(Store) \/ blob[req.id] = None
          /\ hand' \in 0 .. (IF sent < body /\ sent > 0 THEN 1 ELSE 0)
          /\ rerr' = "err"
    /\ Goto("send")
    /\ UNCHANGED <<world, parts, body, declared, sent>>

(* An HTTP handler only logs a failed copy: the client is told by the       *)
(* connection, which net/http closes when fewer bytes were written than     *)
(* were declared.                                                           *)
Copied(n) == IF declared \in {None, n} THEN "ok" ELSE "cut"

(* What was read is sent before the error is looked at. *)
Send ==
    /\ pc = "send"
    /\ \/ gone /\ hand = 1 /\ UNCHANGED sent /\ End("canceled")
       \/ /\ sent' = sent + hand
          /\ CASE rerr = "nil" -> Goto("read")
               [] rerr # "nil" /\ req.over = "http" -> End(Copied(sent'))
               [] rerr = "eof" /\ req.over = "grpc" -> End("ok")
               [] rerr = "err" /\ req.over = "grpc" -> End("internal")
    /\ UNCHANGED <<world, parts, body, declared, hand, rerr>>

-----------------------------------------------------------------------------
(* handleReady *)

Pinged == {"mysql", "redis", "s3"}

(* Mutant: the probe forgets Redis. *)
NextPing(p) == IF p = "mysql" THEN "s3" ELSE "ended"

(* One store after the other. *)
AfterPing(p) == CASE p = "mysql" -> "redis" [] p = "redis" -> "s3" [] p = "s3" -> "ended"

(* The S3 ping is answered whether or not the bucket is there. *)
Ping ==
    /\ pc \in Pinged
    /\ \/ CanFail({pc}) /\ End("unavailable")
       \/ CanWork({pc}) /\ AfterPing(pc) # "ended" /\ Goto(AfterPing(pc))
       \/ CanWork({pc}) /\ AfterPing(pc) = "ended" /\ End("ok")
    /\ UNCHANGED <<world, parts, stream>>

-----------------------------------------------------------------------------
(* The world around the request *)

Close ==
    /\ pc = "ended" /\ Idle
    /\ UNCHANGED <<world, up, faults>>

HangUp ==
    /\ pc \notin {"idle", "ended"} /\ ~gone
    /\ gone' = TRUE
    /\ UNCHANGED <<world, up, faults, wasUp, wasDown, stream, req, pc, status>>

Tick ==
    /\ now < MaxTime
    /\ now' = now + 1
    /\ UNCHANGED <<cfg, file, blob, links, parts, stream, req, pc, status>>

Outage(p) ==
    /\ p \in up /\ faults < MaxFaults
    /\ up' = up \ {p} /\ faults' = faults + 1
    /\ wasDown' = IF pc = "idle" THEN {} ELSE wasDown \cup {p}
    /\ UNCHANGED <<world, wasUp, gone, stream, req, pc, status>>

Recover(p) ==
    /\ p \in Parts \ up
    /\ up' = up \cup {p}
    /\ wasUp' = IF pc = "idle" THEN {} ELSE wasUp \cup {p}
    /\ UNCHANGED <<world, faults, wasDown, gone, stream, req, pc, status>>

(* The sweeper, or another client. *)
OtherDeletes(id) ==
    /\ Found(id)
    /\ file' = [file EXCEPT ![id] = None]
    /\ blob' = [blob EXCEPT ![id] = None]
    /\ UNCHANGED <<now, cfg, links, parts, stream, req, pc, status>>

Restart(e) ==
    /\ pc = "idle" /\ Load(e) # Malformed
    /\ cfg' = Load(e)
    /\ UNCHANGED <<now, file, blob, links, parts, stream, req, pc, status>>

Next ==
    \/ \E r \in Uploads \cup Reads \cup Deletes \cup Probes : Begin(r)
    \/ Authorize \/ ReadForm \/ RecvInfo \/ Upload \/ Respond
    \/ VerifyLink \/ Lookup \/ Delete \/ Open \/ SendHead \/ Read \/ Send
    \/ Ping \/ Close \/ HangUp \/ Tick
    \/ \E p \in Parts : Outage(p) \/ Recover(p)
    \/ \E id \in Ids : OtherDeletes(id)
    \/ \E e \in Envs : Restart(e)

Spec == Init /\ [][Next]_vars

-----------------------------------------------------------------------------
Pcs == {"idle", "auth", "form", "store", "link", "verify", "lookup", "delete",
        "open", "head", "read", "send", "ended"} \cup Pinged

(* Every variable holds a value of its kind. *)
TypeOK ==
    /\ now \in 0 .. MaxTime
    /\ cfg \in {Load(e) : e \in Envs} \ {Malformed}
    /\ \A id \in Ids : Found(id) =>
          file[id].exp \in Int /\ file[id].promised \in Int \cup {None}
    /\ blob \in [Ids -> Sizes \cup {None}]
    /\ \A l \in links : l.sig.id \in Ids /\ l.exp = l.sig.exp
    /\ up \subseteq Parts /\ wasUp \subseteq Parts /\ wasDown \subseteq Parts
    /\ pc \in Pcs /\ status \in Statuses \cup {None} /\ gone \in BOOLEAN
    /\ body \in Sizes \cup {None} /\ declared \in Sizes \cup {None}
    /\ hand \in 0 .. 1 /\ rerr \in {"nil", "eof", "err"} /\ sent \in Nat
    /\ (pc = "ended") <=> (status # None)

(* With API keys configured, no step of a request over either transport     *)
(* creates or removes a file unless the request carries one of the keys in  *)
(* a bearer header; the one exception is a read that reaps a file whose     *)
(* lifetime is over, which a permanent file's never is.                     *)
MutationNeedsKey ==
    [][\A id \in Ids :
        pc' # pc /\ file'[id] # file[id] =>
            \/ cfg.apiKeys \subseteq {Blank}
            \/ /\ req.op \in {"upload", "delete"} /\ req.header # Unset
               /\ req.header.scheme = "bearer" /\ req.header.token \in cfg.apiKeys
            \/ req.op \in {"download", "metadata"} /\ file'[id] = None
               /\ file[id].exp # Never /\ now > file[id].exp - TicksPerSecond]_vars

(* With a signing key configured, an HTTP download is let in only if it     *)
(* presents, unaltered, a link that the server made for that very file      *)
(* under the key it has now, and less than a second after the time this     *)
(* link was meant to end; and such a link is never turned away before that  *)
(* time.                                                                    *)
LinkWindow ==
    [][pc = "verify" /\ pc' # pc /\ Signing =>
        LET presented(l) == /\ l.sig.id = req.id /\ l.sig.key = cfg.signingKey
                            /\ req.query = [exp |-> l.exp, sig |-> l.sig] IN
        /\ pc' = "lookup" =>
             \E l \in links : presented(l) /\ now < l.until + TicksPerSecond
        /\ pc' = "ended" =>
             ~ \E l \in links : presented(l) /\ now <= l.until]_vars

(* Where a limit is configured, no file above it is accepted by either      *)
(* transport, and no upload is refused for its size unless it, together     *)
(* with its form over HTTP, is above it.                                    *)
LimitKept ==
    pc = "ended" /\ req.op = "upload" /\ cfg.maxUpload > 0 =>
        /\ status = "ok" => req.size <= cfg.maxUpload
        /\ status = "tooLarge" =>
             req.size + (IF req.over = "http" THEN Framing ELSE 0) > cfg.maxUpload

(* A file is found as long as the ttl of its upload asked for, counted from *)
(* its creation, and no longer, up to the half second its expiry loses in   *)
(* the database; "never" is never.  From the text of the ttl over seconds   *)
(* and durations to the row, the cache and the comparison with the clock.   *)
LifetimeAsAsked ==
    [][pc = "lookup" /\ pc' # pc /\ Found(req.id) =>
        LET asked == file[req.id].promised
            late  == TicksPerSecond \div 2
            early == (TicksPerSecond - 1) \div 2 IN
        asked # None =>
            /\ status' = "ok" \/ pc' = "open" => asked = Never \/ now <= asked + late
            /\ status' = "notFound" => asked # Never /\ now > asked - early]_vars

(* The status tells whose fault it was: an error of the client's is         *)
(* reported only for what the client did, or (400) when the server's disk   *)
(* failed while the form was read; "not found" only for a file that is not  *)
(* there or has expired; an internal error only if a store was down during  *)
(* the request or the object was missing, or (an upload's) for what the     *)
(* handlers leave unchecked: an expiry, a name or a content type that the   *)
(* database cannot hold, and a message that grpc-go does not accept.        *)
BlameIsRight ==
    pc = "ended" /\ ~gone =>
        /\ status = "badRequest" =>
             req.form = "bad" \/ req.ttl = Malformed \/ "disk" \in wasDown
        /\ status = "unauthenticated" => ~ \E k \in cfg.apiKeys \ {Blank} :
             req.header = [scheme |-> "bearer", token |-> k]
        /\ status = "notFound" /\ Found(req.id) =>
             file[req.id].exp # Never /\ now > file[req.id].exp - TicksPerSecond
        /\ status \in {"internal", "cut"} =>
             \/ wasDown \cap {"mysql", "s3", "bucket"} # {}
             \/ req.op = "download" /\ blob[req.id] = None
             \/ /\ req.op = "upload"
                /\ \/ req.form \in {"unfit", "refused"}
                   \/ ~Storable(ExpiryFor(Ttl(req), cfg.defaultTTL, now))

(* A download that ends as a success, by status over gRPC and by its        *)
(* Content-Length over HTTP, has delivered every byte of the file, whatever *)
(* failed or was deleted while it was sent.                                 *)
WholeOrBroken ==
    pc = "ended" /\ status = "ok" /\ req.op = "download" => sent = body

(* "every backing store must answer for the service to be ready": a probe   *)
(* that reports ready has had an answer from each of the three, and one     *)
(* that reports the opposite has met one that was down.                     *)
ReadyMeansAllUp ==
    pc = "ended" /\ req.op = "ready" =>
        /\ status = "ok" => Pinged \subseteq wasUp
        /\ status = "unavailable" => gone \/ Pinged \cap wasDown # {}

(* "0 means unlimited": with a limit of zero no upload is too large. *)
ZeroMeansUnlimited == status = "tooLarge" => cfg.maxUpload # 0
===============================================================================
