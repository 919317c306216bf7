---------------------------- MODULE GatewayProofs -----------------------------
(***************************************************************************)
(* What a client is told, proved for every configuration, request and      *)
(* outage: the inductive invariant follows one request through its handler *)
(* while the world changes around it.                                      *)
(***************************************************************************)
EXTENDS Gateway, FileRecordProofs

Streaming == {"head", "read", "send"}

(* A record carries the expiry that was asked for, where anything was said. *)
RecordInv ==
    /\ file \in [Ids -> {Fresh, None} \cup [exp : Expiries, promised : Expiries \cup {None}]]
    /\ \A id \in Ids : Found(id) => file[id].promised \in {file[id].exp, None}

(* A link is one the server made, with any of its keys. *)
LinkInv ==
    \A l \in links :
        /\ l.sig.id \in Ids /\ l.until \in Int
        /\ l.exp = Unix(l.until)
        /\ \E e \in Envs :
             /\ Load(e) # Malformed
             /\ l.sig = [id |-> l.sig.id, exp |-> l.exp, key |-> Load(e).signingKey]

(* What every request brings. *)
ReqInv ==
    pc # "idle" =>
        /\ req.op \in {"upload", "download", "metadata", "delete", "ready"}
        /\ req.over \in {"http", "grpc"}
        /\ req.op = "upload" =>
             /\ req.id \in Ids /\ req.size \in Sizes
             /\ req.form \in {"ok", "bad", "unfit", "refused"}
             /\ req.over = "http" => req.ttl \in Durations \cup {Unset, Pin, Malformed}
             /\ req.over = "grpc" => req.ttl \in Seconds
        /\ req.op = "download" /\ req.over = "http" =>
             req.query = Unset \/ \E l \in links : \E e \in {l.exp, l.exp + 1, Malformed} :
               req.query = [exp |-> e, sig |-> l.sig]

(* What a request has been checked for by the time it is where it is. *)
PathInv ==
    /\ pc = "auth" => req.op # "ready"
    /\ pc \in {"form", "store", "link"} => req.op = "upload" /\ ~Refused(req)
    /\ pc = "store" /\ req.over = "http" => req.ttl # Malformed
    /\ pc = "link" => ~OverLimit(req.size)
    /\ pc = "delete" => req.op = "delete" /\ ~Refused(req)
    /\ pc = "verify" => req.op = "download" /\ req.over = "http"
    /\ pc = "lookup" => req.op \in {"download", "metadata"}
    /\ pc \in {"open"} \cup Streaming => req.op = "download" /\ req.id \in Ids
    /\ pc \in Pinged => req.op = "ready"

(* A request has seen every part that is up as up, and the others as down,  *)
(* and a probe those it has pinged as up.                                   *)
PartsInv ==
    pc # "idle" =>
        /\ up \subseteq wasUp /\ Parts \ up \subseteq wasDown
        /\ pc \in {"redis", "s3"} => "mysql" \in wasUp
        /\ pc = "s3" => "redis" \in wasUp

(* How far a download has got. *)
StreamInv ==
    /\ pc \notin {"read", "send", "ended"} => sent = 0 /\ declared = None
    /\ pc \in Streaming => body # None
    /\ pc \in {"read", "send"} =>
         /\ sent <= body
         /\ req.over = "http" => declared = body
         /\ req.over = "grpc" => declared = None
    /\ pc = "send" =>
         /\ sent + hand <= body
         /\ rerr = "eof" => sent + hand = body
         /\ rerr = "err" /\ ~gone => wasDown \cap Store # {} \/ blob[req.id] = None

(* What an internal error is known to have been about. *)
FaultInv ==
    pc = "ended" /\ status \in {"internal", "cut"} =>
        /\ req.op = "upload" => Ttl(req) \in Int
        /\ req.op = "download" =>
             gone \/ wasDown \cap {"mysql", "s3", "bucket"} # {} \/ req.id \in Ids

IInv ==
    /\ TypeOK /\ RecordInv /\ LinkInv /\ ReqInv /\ PathInv /\ PartsInv /\ StreamInv
    /\ FaultInv /\ LimitKept /\ BlameIsRight /\ WholeOrBroken /\ ReadyMeansAllUp

-------------------------------------------------------------------------------
(* Arithmetic *)

(* A link's expiry in whole seconds and the time it was meant to end. *)
LEMMA UnixFacts ==
    ASSUME NEW t \in Int, NEW u \in Int
    PROVE  /\ Unix(t) \in Int
           /\ t <= u => Unix(t) <= Unix(u)
           /\ Unix(t) <= Unix(u) => t < u + TicksPerSecond
  BY TicksAssumption DEF Unix

(* Whatever overflows is some duration; what fits is itself. *)
LEMMA WrapFacts ==
    ASSUME NEW n \in Int
    PROVE  /\ Wrap(n) \in Int
           /\ n >= 0 /\ n < 2^(Width - 1) => Wrap(n) = n
  <1> DEFINE half == 2^(Width - 1)
  <1>1. half \in Nat \ {0} /\ 2^Width = 2 * half
    BY WidthAssumption
  <1>2. Wrap(n) = ((n + half) % (2 * half)) - half
    BY <1>1 DEF Wrap
  <1> HIDE DEF half
  <1>3. Wrap(n) \in Int /\ (n >= 0 /\ n < half => Wrap(n) = n)
    BY <1>1, <1>2
  <1> QED
    BY <1>3 DEF half

(* What a server that has started is configured with. *)
LEMMA CfgFacts ==
    ASSUME cfg \in {Load(e) : e \in Envs} \ {Malformed}
    PROVE  /\ cfg.maxUpload \in Int /\ cfg.defaultTTL \in Int /\ cfg.urlTTL \in Int
           /\ \E e \in Envs : cfg = Load(e) /\ Load(e) # Malformed
  <1>1. PICK e \in Envs : cfg = Load(e) /\ Load(e) # Malformed
    OBVIOUS
  <1>2. \A v \in {"DEFAULT_TTL", "SWEEP_INTERVAL", "DOWNLOAD_URL_TTL"} :
           getenv(e[v], Defaults[v]) # Malformed
    BY <1>1 DEF Load
  <1>3. /\ getenv(e["DEFAULT_TTL"], Defaults["DEFAULT_TTL"]) \in Int
        /\ getenv(e["DOWNLOAD_URL_TTL"], Defaults["DOWNLOAD_URL_TTL"]) \in Int
    BY <1>2, EnvAssumption DEF getenv
  <1>4. getenvParsed(e["MAX_UPLOAD_BYTES"], Defaults["MAX_UPLOAD_BYTES"]) \in Int
    BY EnvAssumption DEF getenvParsed
  <1> QED
    BY <1>1, <1>2, <1>3, <1>4 DEF Load

(* The lifetime of an upload that has got past its form. *)
LEMMA TtlType ==
    ASSUME ReqInv, PathInv, pc = "store"
    PROVE  Ttl(req) \in Int
  <1>1. CASE req.over = "http"
    BY <1>1, GatewayAssumption DEF ReqInv, PathInv, Ttl, parseTTL
  <1>2. CASE req.over # "http"
    <2>1. req.ttl \in Int
      BY <1>2, GatewayAssumption DEF ReqInv, PathInv
    <2>2. req.ttl * TicksPerSecond \in Int
      BY <2>1, TicksAssumption
    <2> QED
      BY <1>2, <2>1, <2>2, WrapFacts DEF Ttl, ttlFromSeconds
  <1> QED
    BY <1>1, <1>2

(* An expiry is counted from the time of the upload. *)
LEMMA ExpiryType ==
    ASSUME NEW ttl \in Int, NEW base \in Int, NEW t \in Nat
    PROVE  ExpiryFor(ttl, base, t) \in Expiries
  BY DEF ExpiryFor, Expiries, Never

(* The expiry the handlers and the service compute from a request is the    *)
(* one the documentation promises, wherever it promises one.                *)
LEMMA PromiseKept ==
    ASSUME ReqInv, PathInv, pc = "store", NEW t \in Nat, cfg.defaultTTL \in Int
    PROVE  /\ Promise(req, t) \in {ExpiryFor(Ttl(req), cfg.defaultTTL, t), None}
           /\ ExpiryFor(Ttl(req), cfg.defaultTTL, t) \in Expiries
  <1>1. CASE req.over = "http"
    <2>1. /\ req.ttl \in Durations \cup {Unset, Pin} /\ Durations \subseteq Int
          /\ {Unset, Pin} \cap Int = {} /\ Unset # Pin /\ Ttl(req) \in Int
      BY <1>1, TtlType, GatewayAssumption DEF ReqInv, PathInv
    <2> QED
      BY <1>1, <2>1, ExpiryType DEF Promise, Ttl, parseTTL, ExpiryFor
  <1>2. CASE req.over # "http"
    <2> DEFINE d == req.ttl * TicksPerSecond
    <2>0. req.ttl \in Int
      BY <1>2, GatewayAssumption DEF ReqInv, PathInv
    <2>1. req.ttl \in Int /\ d \in Int /\ (req.ttl > 0 => d > 0) /\ (req.ttl = 0 => d = 0)
      BY <2>0, TicksAssumption
    <2>2. 2^(Width - 1) \in Nat \ {0}
      BY WidthAssumption
    <2>3. CASE req.ttl < 0
      BY <1>2, <2>1, <2>3, TtlType, ExpiryType DEF Promise, Ttl, ttlFromSeconds, ExpiryFor
    <2>4. CASE req.ttl = 0
      <3>1. Ttl(req) = 0
        BY <1>2, <2>1, <2>2, <2>4, WrapFacts DEF Ttl, ttlFromSeconds
      <3> QED
        BY <1>2, <2>4, <3>1, ExpiryType DEF Promise, ExpiryFor
    <2>5. CASE req.ttl > 0 /\ d < 2^(Width - 1)
      <3>1. Ttl(req) = d
        BY <1>2, <2>1, <2>5, WrapFacts DEF Ttl, ttlFromSeconds
      <3> QED
        BY <1>2, <2>1, <2>5, <3>1, ExpiryType DEF Promise, ExpiryFor
    <2>6. CASE req.ttl > 0 /\ ~(d < 2^(Width - 1))
      BY <1>2, <2>1, <2>6, TtlType, ExpiryType DEF Promise
    <2> QED
      BY <2>1, <2>3, <2>4, <2>5, <2>6
  <1> QED
    BY <1>1, <1>2

-------------------------------------------------------------------------------
(* The world the requests leave behind. *)

(* Steps that answer or forward a request and change nothing else. *)
Quick == Authorize \/ ReadForm \/ RecvInfo \/ VerifyLink \/ Ping

(* The world around a request. *)
Around ==
    \/ HangUp \/ Tick
    \/ \E p \in Parts : Outage(p) \/ Recover(p)
    \/ \E id \in Ids : OtherDeletes(id)
    \/ \E e \in Envs : Restart(e)

LEMMA RecordStep ==
    ASSUME IInv, Next
    PROVE  RecordInv'
  <1> USE DEF IInv, RecordInv, Found, world
  <1>1. CASE UNCHANGED file
    BY <1>1
  <1>2. ASSUME NEW id, Erase(id) PROVE RecordInv'
    BY <1>2 DEF Erase
  <1>3. CASE Upload
    <2>1. now \in Nat /\ cfg.defaultTTL \in Int /\ pc = "store" /\ req.id \in Ids
      BY <1>3, CfgFacts, GatewayAssumption DEF TypeOK, Upload, ReqInv, PathInv
    <2> DEFINE exp == ExpiryFor(Ttl(req), cfg.defaultTTL, now)
    <2>2. exp \in Expiries /\ Promise(req, now) \in {exp, None}
      BY <2>1, PromiseKept
    <2>3. UNCHANGED file \/ file' = [file EXCEPT ![req.id] =
                                       [exp |-> exp, promised |-> Promise(req, now)]]
      BY <1>3 DEF Upload
    <2> HIDE DEF exp
    <2> QED
      BY <2>1, <2>2, <2>3
  <1>4. CASE Lookup \/ Delete
    BY <1>1, <1>2, <1>4 DEF Lookup, Delete
  <1>5. ASSUME NEW id \in Ids, OtherDeletes(id) PROVE RecordInv'
    BY <1>5 DEF OtherDeletes
  <1> QED
    BY <1>1, <1>3, <1>4, <1>5
       DEF Next, Begin, Authorize, ReadForm, RecvInfo, Respond, VerifyLink, Open, OpenObject,
           SendHead, Read, Send, Ping, Close, HangUp, Tick, Outage, Recover, Restart

LEMMA LinkStep ==
    ASSUME IInv, Next
    PROVE  LinkInv' /\ links \subseteq links'
  <1> USE DEF IInv, LinkInv, Unix, world
  <1>1. CASE UNCHANGED links
    BY <1>1
  <1>2. CASE Respond
    <2>1. PICK e \in Envs : cfg = Load(e) /\ Load(e) # Malformed
      BY CfgFacts DEF TypeOK
    <2>2. now + cfg.urlTTL \in Int /\ req.id \in Ids
      BY <1>2, CfgFacts, GatewayAssumption DEF TypeOK, Respond, ReqInv, PathInv
    <2> QED
      BY <1>2, <2>1, <2>2 DEF Respond, Query, sign
  <1> QED
    BY <1>1, <1>2
       DEF Next, Begin, Authorize, ReadForm, RecvInfo, Upload, VerifyLink, Lookup, Delete,
           Open, OpenObject, SendHead, Read, Send, Ping, Close, HangUp, Tick, Outage, Recover,
           OtherDeletes, Restart

(* How Send goes on. *)
LEMMA SendOutcome ==
    ASSUME IInv, Send
    PROVE  \/ gone /\ UNCHANGED sent /\ End("canceled")
           \/ /\ sent' = sent + hand
              /\ \/ rerr = "nil" /\ Goto("read")
                 \/ rerr # "nil" /\ req.over = "http" /\ End(Copied(sent'))
                 \/ rerr = "eof" /\ req.over = "grpc" /\ End("ok")
                 \/ rerr = "err" /\ req.over = "grpc" /\ End("internal")
  <1>1. rerr \in {"nil", "eof", "err"} /\ req.over \in {"http", "grpc"}
    BY DEF IInv, TypeOK, ReqInv, Send
  <1>2. CASE rerr = "nil"
    BY <1>2 DEF Send
  <1>3. CASE rerr # "nil" /\ req.over = "http"
    BY <1>3 DEF Send
  <1>4. CASE rerr = "eof" /\ req.over = "grpc"
    BY <1>4 DEF Send
  <1>5. CASE rerr = "err" /\ req.over = "grpc"
    BY <1>5 DEF Send
  <1> QED
    BY <1>1, <1>2, <1>3, <1>4, <1>5

(* Every variable keeps its type. *)
LEMMA TypeStep ==
    ASSUME IInv, Next, RecordInv', LinkInv'
    PROVE  TypeOK'
  <1> USE DEF Pcs, Pinged, Statuses, world, parts, stream, Goto, End
  <1>0. /\ TypeOK /\ ReqInv /\ PathInv /\ StreamInv /\ LinkInv /\ RecordInv
        /\ None \notin Statuses /\ Sizes \subseteq Nat /\ None \notin Int /\ MaxTime \in Nat
    BY GatewayAssumption DEF IInv
  <1> DEFINE FileTypes == \A id \in Ids : Found(id) =>
                            file[id].exp \in Int /\ file[id].promised \in Int \cup {None}
             LinkTypes == \A l \in links : l.sig.id \in Ids /\ l.exp = l.sig.exp
             RestOK == /\ now \in 0 .. MaxTime
                       /\ cfg \in {Load(e) : e \in Envs} \ {Malformed}
                       /\ blob \in [Ids -> Sizes \cup {None}]
                       /\ up \subseteq Parts /\ wasUp \subseteq Parts /\ wasDown \subseteq Parts
                       /\ pc \in Pcs /\ status \in Statuses \cup {None}
                       /\ body \in Sizes \cup {None} /\ declared \in Sizes \cup {None}
                       /\ hand \in 0 .. 1 /\ rerr \in {"nil", "eof", "err"} /\ sent \in Nat
                       /\ (pc = "ended") <=> (status # None)
  <1>1. FileTypes' /\ LinkTypes'
    <2>1. ASSUME NEW id \in Ids, Found(id)'
          PROVE  file'[id].exp \in Int /\ file'[id].promised \in Int \cup {None}
      <3>1. file'[id] \in [exp : Expiries, promised : Expiries \cup {None}]
        BY <2>1 DEF RecordInv, Found
      <3>2. Expiries \subseteq Int
        BY DEF Expiries, Never
      <3> QED
        BY <3>1, <3>2
    <2>2. ASSUME NEW l \in links'
          PROVE  l.sig.id \in Ids /\ l.exp = l.sig.exp
      <3>1. PICK e \in Envs :
              l.sig = [id |-> l.sig.id, exp |-> l.exp, key |-> Load(e).signingKey]
        BY <2>2 DEF LinkInv
      <3>2. l.sig.exp = l.exp
        BY <3>1
      <3> QED
        BY <2>2, <3>2 DEF LinkInv
    <2> QED
      BY <2>1, <2>2
  <1>a. gone' \in BOOLEAN
    BY <1>0
       DEF TypeOK, Next, Begin, Authorize, ReadForm, RecvInfo, Upload, Respond, VerifyLink,
           Lookup, Delete, Open, OpenObject, SendHead, Read, Send, Ping, Close, Idle, HangUp,
           Tick, Outage, Recover, OtherDeletes, Restart
  <1>2. SUFFICES RestOK'
    BY <1>1, <1>a DEF TypeOK
  <1>3. RestOK
    BY <1>0 DEF TypeOK
  <1>4. ASSUME NEW r, Begin(r) PROVE RestOK'
    BY <1>0, <1>3, <1>4 DEF Begin, Parts
  <1>5. CASE Quick
    BY <1>0, <1>3, <1>5 DEF Quick, Authorize, ReadForm, RecvInfo, VerifyLink, Ping, Handler, AfterPing
  <1>6. CASE Upload
    BY <1>0, <1>3, <1>6 DEF Upload, ReqInv, PathInv
  <1>7. CASE Respond
    BY <1>0, <1>3, <1>7 DEF Respond
  <1>8. CASE Lookup \/ Delete
    BY <1>0, <1>3, <1>8 DEF Lookup, Delete, Erase, lookupStatus
  <1>9. CASE Open \/ SendHead
    BY <1>0, <1>3, <1>9 DEF Open, OpenObject, SendHead, lookupStatus, PathInv, Streaming
  <1>10. CASE Read
    BY <1>0, <1>3, <1>10 DEF Read
  <1>11. CASE Send
    <2>1. sent' \in Nat
      BY <1>3, <1>11, SendOutcome
    <2>2. \/ Goto("read")
          \/ End("ok") \/ End("cut") \/ End("internal") \/ End("canceled")
      <3>1. Copied(sent') \in {"ok", "cut"}
        BY DEF Copied
      <3> QED
        BY <1>11, <3>1, SendOutcome
    <2>3. UNCHANGED <<world, parts, body, declared, hand, rerr>>
      BY <1>11 DEF Send
    <2>4. /\ pc' \in Pcs /\ status' \in Statuses \cup {None}
          /\ (pc' = "ended") <=> (status' # None)
      <3>1. pc = "send" /\ status = None
        BY <1>3, <1>11 DEF Send
      <3> QED
        BY <1>0, <2>2, <3>1
    <2> QED
      BY <1>3, <2>1, <2>3, <2>4
  <1>12. CASE Close
    BY <1>0, <1>3, <1>12 DEF Close, Idle
  <1>13. CASE Around
    BY <1>0, <1>3, <1>13 DEF Around, HangUp, Tick, Outage, Recover, OtherDeletes, Restart
  <1> QED
    BY <1>4, <1>5, <1>6, <1>7, <1>8, <1>9, <1>10, <1>11, <1>12, <1>13 DEF Next, Quick, Around

-------------------------------------------------------------------------------
(* One request on its way *)

AllRequests == Uploads \cup Reads \cup Deletes \cup Probes

(* A request stays what it is, under the configuration it came in with. *)
LEMMA SameRequest ==
    ASSUME IInv, Next, pc' # "idle"
    PROVE  \/ \E r \in AllRequests : Begin(r)
           \/ pc # "idle" /\ UNCHANGED <<req, cfg>>
  <1> USE DEF world, Goto, End
  <1>1. CASE Quick
    BY <1>1 DEF Quick, Authorize, ReadForm, RecvInfo, VerifyLink, Ping, Pinged
  <1>2. CASE Upload \/ Respond \/ Lookup \/ Delete
    BY <1>2 DEF Upload, Respond, Lookup, Delete
  <1>3. CASE Open \/ SendHead \/ Read
    BY <1>3 DEF Open, OpenObject, SendHead, Read
  <1>4. CASE Send
    BY <1>4, SendOutcome DEF Send
  <1>5. CASE Around
    BY <1>5 DEF Around, HangUp, Tick, Outage, Recover, OtherDeletes, Restart
  <1> QED
    BY <1>1, <1>2, <1>3, <1>4, <1>5 DEF Next, AllRequests, Quick, Around, Close, Idle

LEMMA ReqStep ==
    ASSUME IInv, Next
    PROVE  ReqInv'
  <1> SUFFICES ASSUME pc' # "idle" PROVE ReqInv'
    BY DEF ReqInv
  <1>1. links \subseteq links'
    BY LinkStep
  <1>2. ASSUME NEW r \in AllRequests, Begin(r)
        PROVE  ReqInv'
    <2>1. req' = r /\ UNCHANGED links
      BY <1>2 DEF Begin, world
    <2>2. CASE r \in Uploads
      BY <2>1, <2>2 DEF Uploads, ReqInv
    <2>3. CASE r \in Reads
      <3>1. /\ r.op \in {"download", "metadata"} /\ r.over \in {"http", "grpc"}
            /\ r.op = "download" /\ r.over = "http" => r.query \in Queries
        BY <2>3 DEF Reads
      <3>2. \A q \in Queries :
               q = Unset \/ \E l \in links : \E e \in {l.exp, l.exp + 1, Malformed} :
                 q = [exp |-> e, sig |-> l.sig]
        BY DEF Queries
      <3> QED
        BY <2>1, <3>1, <3>2 DEF ReqInv
    <2>4. CASE r \in Deletes \cup Probes
      BY <2>1, <2>4 DEF Deletes, Probes, ReqInv
    <2> QED
      BY <2>2, <2>3, <2>4 DEF AllRequests
  <1>3. CASE pc # "idle" /\ UNCHANGED <<req, cfg>>
    BY <1>1, <1>3 DEF ReqInv, IInv
  <1> QED
    BY <1>2, <1>3, SameRequest

(* Whoever gets past a check has passed it. *)
LEMMA PathStep ==
    ASSUME IInv, Next
    PROVE  PathInv'
  <1> USE DEF IInv, PathInv, Refused, Enabled, Valid, OverLimit, Streaming, Pinged,
              world, Goto, End
  <1>1. ASSUME NEW r \in AllRequests, Begin(r)
        PROVE  PathInv'
    BY <1>1 DEF Begin
  <1>2. CASE Authorize
    BY <1>2 DEF Authorize, Handler, ReqInv
  <1>3. CASE ReadForm \/ RecvInfo
    BY <1>3 DEF ReadForm, RecvInfo
  <1>4. CASE VerifyLink \/ Ping
    BY <1>4 DEF VerifyLink, Ping, AfterPing
  <1>5. CASE Upload \/ Respond
    BY <1>5 DEF Upload, Respond
  <1>6. CASE Lookup \/ Delete
    BY <1>6 DEF Lookup, Delete, Found
  <1>7. CASE Open \/ SendHead \/ Read
    BY <1>7 DEF Open, OpenObject, SendHead, Read
  <1>8. CASE Send
    BY <1>8, SendOutcome DEF Send
  <1>9. CASE Close
    BY <1>9 DEF Close, Idle
  <1>10. CASE Around
    BY <1>10 DEF Around, HangUp, Tick, Outage, Recover, OtherDeletes, Restart
  <1> QED
    BY <1>1, <1>2, <1>3, <1>4, <1>5, <1>6, <1>7, <1>8, <1>9, <1>10
       DEF Next, Around, AllRequests

(* A request notices every part that fails and every part that comes back. *)
LEMMA PartsStep ==
    ASSUME IInv, Next
    PROVE  PartsInv'
  <1> USE DEF PartsInv, Pinged, Parts, parts, Goto, End
  <1>0. PartsInv /\ up \subseteq Parts
    BY DEF IInv, TypeOK
  <1>1. ASSUME NEW r \in AllRequests, Begin(r)
        PROVE  PartsInv'
    BY <1>0, <1>1 DEF Begin
  <1>2. CASE Authorize
    BY <1>0, <1>2 DEF Authorize, Handler
  <1>3. CASE ReadForm \/ RecvInfo \/ VerifyLink
    BY <1>0, <1>3 DEF ReadForm, RecvInfo, VerifyLink
  <1>4. CASE Ping
    BY <1>0, <1>4 DEF Ping, AfterPing, CanWork
  <1>5. CASE Upload \/ Respond \/ Lookup \/ Delete
    BY <1>0, <1>5 DEF Upload, Respond, Lookup, Delete
  <1>6. CASE Open \/ SendHead \/ Read
    BY <1>0, <1>6 DEF Open, OpenObject, SendHead, Read
  <1>7. CASE Send
    BY <1>0, <1>7, SendOutcome DEF Send
  <1>8. CASE Close
    BY <1>8 DEF Close, Idle
  <1>9. CASE Around
    BY <1>0, <1>9 DEF Around, HangUp, Tick, Outage, Recover, OtherDeletes, Restart
  <1> QED
    BY <1>1, <1>2, <1>3, <1>4, <1>5, <1>6, <1>7, <1>8, <1>9 DEF Next, Around, AllRequests

(* What a download has sent and holds never exceeds the object, and the end *)
(* is reported at its end only.                                             *)
LEMMA StreamStep ==
    ASSUME IInv, Next, TypeOK'
    PROVE  StreamInv'
  <1>a. body \in Nat \cup {None}
    BY GatewayAssumption DEF IInv, TypeOK
  <1> USE DEF StreamInv, Streaming, stream, parts, world, Goto, End
  <1>0. /\ StreamInv /\ TypeOK /\ ReqInv /\ PathInv /\ PartsInv
        /\ Sizes \subseteq Nat /\ None \notin Int
    BY GatewayAssumption DEF IInv
  <1>1. ASSUME NEW r \in AllRequests, Begin(r)
        PROVE  StreamInv'
    BY <1>0, <1>1 DEF Begin
  <1>2. CASE Authorize
    BY <1>0, <1>2 DEF Authorize, Handler
  <1>3. CASE ReadForm \/ RecvInfo \/ VerifyLink \/ Ping
    BY <1>0, <1>3 DEF ReadForm, RecvInfo, VerifyLink, Ping, Pinged, AfterPing
  <1>4. CASE Upload \/ Respond \/ Lookup \/ Delete
    BY <1>0, <1>4 DEF Upload, Respond, Lookup, Delete
  <1>5. CASE Open
    BY <1>0, <1>5 DEF Open, OpenObject
  <1>6. CASE SendHead
    <2>1. /\ pc = "head" /\ body # None /\ sent = 0 /\ declared = None
          /\ UNCHANGED <<body, sent, req>>
      BY <1>0, <1>6 DEF SendHead
    <2>2. body \in Nat
      BY <1>a, <2>1
    <2>3. body' # None /\ sent' <= body'
      BY <2>1, <2>2
    <2>4. \/ pc' = "read" /\ req.over = "http" /\ declared' = body
          \/ pc' = "read" /\ req.over = "grpc" /\ declared' = declared
          \/ pc' = "ended"
      BY <1>6 DEF SendHead
    <2>5. /\ pc' \in {"read", "ended"}
          /\ pc' = "read" /\ req'.over = "http" => declared' = body'
          /\ pc' = "read" /\ req'.over = "grpc" => declared' = None
      BY <2>1, <2>4
    <2> QED
      BY <2>3, <2>5
  <1>7. CASE Read
    <2>1. body \in Nat /\ sent \in Nat /\ sent <= body /\ pc = "read"
      BY <1>0, <1>7 DEF Read, TypeOK
    <2>2. CanFail(Store) /\ ~gone => wasDown \cap Store # {}
      BY <1>0, <2>1 DEF CanFail, PartsInv, TypeOK, Store, Parts
    <2> QED
      BY <1>0, <1>7, <2>1, <2>2 DEF Read
  <1>8. CASE Send
    <2>1. /\ pc = "send" /\ body \in Nat /\ sent \in Nat /\ hand \in 0 .. 1
          /\ UNCHANGED <<world, parts, body, declared, hand, rerr, req>>
      BY <1>0, <1>8, SendOutcome DEF Send, TypeOK
    <2> QED
      BY <1>0, <1>8, <2>1, SendOutcome
  <1>9. CASE Close
    BY <1>9 DEF Close, Idle
  <1>10. CASE Around
    <2>1. UNCHANGED <<stream, req, pc>>
      BY <1>10 DEF Around, HangUp, Tick, Outage, Recover, OtherDeletes, Restart
    <2>2. pc = "send" => /\ gone => gone'
                         /\ wasDown \subseteq wasDown'
                         /\ blob[req.id] = None => blob'[req.id] = None
      BY <1>0, <1>10 DEF Around, HangUp, Tick, Outage, Recover, OtherDeletes, Restart,
                         PathInv, TypeOK
    <2> QED
      BY <1>0, <2>1, <2>2
  <1> QED
    BY <1>1, <1>2, <1>3, <1>4, <1>5, <1>6, <1>7, <1>8, <1>9, <1>10
       DEF Next, Around, AllRequests

-------------------------------------------------------------------------------
(* What it is told in the end *)

(* Once a request has ended, little can happen to it. *)
LEMMA EndedStays ==
    ASSUME IInv, Next, pc = "ended", pc' = "ended"
    PROVE  /\ UNCHANGED <<req, cfg, status, gone, body, sent>>
           /\ now \in Nat /\ now' \in Nat /\ now <= now'
           /\ wasUp \subseteq wasUp' /\ wasDown \subseteq wasDown'
           /\ \A id \in Ids : /\ file'[id] = file[id] \/ file'[id] = None
                              /\ blob'[id] = blob[id] \/ blob'[id] = None
  <1>1. Around
    BY DEF Next, Around, Begin, Authorize, ReadForm, RecvInfo, Upload, Respond, VerifyLink, Lookup,
           Delete, Open, OpenObject, SendHead, Read, Send, Ping, Pinged, Close, Idle
  <1> QED
    BY <1>1, GatewayAssumption
       DEF Around, HangUp, Tick, Outage, Recover, OtherDeletes, Restart, world, parts, stream,
           IInv, TypeOK, RecordInv

(* How a request comes to its end, by where it was. *)
LEMMA Endings ==
    ASSUME IInv, Next, pc # "ended", pc' = "ended"
    PROVE  /\ UNCHANGED <<now, cfg, req, gone, wasUp, wasDown, up>>
           /\ \/ Authorize \/ ReadForm \/ RecvInfo \/ VerifyLink \/ Ping
              \/ Upload \/ Respond \/ Lookup \/ Delete
              \/ Open \/ SendHead \/ Send
  <1> USE DEF world, parts, Goto, End
  <1>1. \/ Authorize \/ ReadForm \/ RecvInfo \/ VerifyLink \/ Ping
        \/ Upload \/ Respond \/ Lookup \/ Delete
        \/ Open \/ SendHead \/ Send
    BY DEF Next, Begin, Read, Close, Idle, HangUp, Tick, Outage, Recover, OtherDeletes, Restart
  <1>2. CASE Authorize \/ ReadForm \/ RecvInfo \/ VerifyLink \/ Ping
    BY <1>1, <1>2 DEF Authorize, ReadForm, RecvInfo, VerifyLink, Ping
  <1>3. CASE Upload
    BY <1>1, <1>3 DEF Upload
  <1>4. CASE Respond
    BY <1>4 DEF Respond
  <1>5. CASE Lookup \/ Delete
    BY <1>1, <1>5 DEF Lookup, Delete
  <1>6. CASE Open \/ SendHead
    BY <1>1, <1>6 DEF Open, OpenObject, SendHead
  <1>7. CASE Send
    BY <1>1, <1>7, SendOutcome DEF Send
  <1> QED
    BY <1>1, <1>2, <1>3, <1>4, <1>5, <1>6, <1>7

(* A limit refuses what is above it and nothing else. *)
LEMMA LimitStep ==
    ASSUME IInv, Next
    PROVE  LimitKept'
  <1> USE DEF LimitKept, Goto, End
  <1>0. /\ LimitKept /\ PathInv /\ ReqInv /\ cfg.maxUpload \in Int /\ Framing \in Nat
        /\ pc # "idle" /\ req.op = "upload" => req.size \in Nat
        /\ None \notin Statuses
    BY CfgFacts, GatewayAssumption DEF IInv, TypeOK, ReqInv
  <1> SUFFICES ASSUME pc' = "ended" PROVE LimitKept'
    OBVIOUS
  <1>1. CASE pc = "ended"
    BY <1>0, <1>1, EndedStays
  <1>2. CASE pc # "ended"
    <2>0. UNCHANGED <<cfg, req>>
      BY <1>2, Endings
    <2>1. CASE ReadForm
      BY <1>0, <2>0, <2>1 DEF ReadForm, BodyTooLong
    <2>2. CASE Upload
      <3>1. req.size \in Nat
        BY <1>0, <2>2 DEF Upload, PathInv
      <3>2. \/ status' = "tooLarge" /\ OverLimit(req.size)
            \/ status' = "internal"
            \/ status' = "ok" /\ ~OverLimit(req.size)
        BY <2>2 DEF Upload
      <3> QED
        BY <1>0, <2>0, <3>1, <3>2 DEF OverLimit
    <2>3. CASE Respond
      BY <1>0, <2>0, <2>3 DEF Respond, PathInv, OverLimit
    <2>4. CASE Authorize \/ RecvInfo
      BY <2>4 DEF Authorize, Handler, RecvInfo
    <2>5. CASE VerifyLink \/ Ping \/ Lookup \/ Delete \/ Open \/ SendHead \/ Send
      <3>1. req.op # "upload"
        BY <1>0, <2>5 DEF PathInv, VerifyLink, Ping, Lookup, Delete, Open, OpenObject, SendHead,
                          Send, Streaming
      <3> QED
        BY <2>0, <3>1
    <2> QED
      BY <1>2, <2>1, <2>2, <2>3, <2>4, <2>5, Endings
  <1> QED
    BY <1>1, <1>2

(* A probe says what it has heard. *)
LEMMA ReadyStep ==
    ASSUME IInv, Next
    PROVE  ReadyMeansAllUp'
  <1> USE DEF ReadyMeansAllUp, Goto, End
  <1>0. ReadyMeansAllUp /\ PathInv /\ PartsInv /\ up \subseteq Parts
    BY DEF IInv, TypeOK
  <1> SUFFICES ASSUME pc' = "ended" PROVE ReadyMeansAllUp'
    OBVIOUS
  <1>1. CASE pc = "ended"
    BY <1>0, <1>1, EndedStays
  <1>2. CASE pc # "ended"
    <2>0. UNCHANGED <<req, gone, wasUp, wasDown, up>>
      BY <1>2, Endings
    <2>1. CASE Ping
      BY <1>0, <2>0, <2>1 DEF Ping, AfterPing, CanWork, CanFail, Pinged, PartsInv, Parts
    <2>2. CASE ~Ping
      <3>1. req.op # "ready"
        BY <1>0, <1>2, <2>2, Endings
           DEF PathInv, Authorize, ReadForm, RecvInfo, VerifyLink, Upload, Respond, Lookup, Delete,
               Open, OpenObject, SendHead, Send, Streaming
      <3> QED
        BY <2>0, <3>1
    <2> QED
      BY <2>1, <2>2
  <1> QED
    BY <1>1, <1>2

(* A download that is reported whole is whole. *)
LEMMA WholeStep ==
    ASSUME IInv, Next
    PROVE  WholeOrBroken'
  <1> USE DEF WholeOrBroken, Goto, End
  <1>0. /\ WholeOrBroken /\ PathInv /\ StreamInv /\ TypeOK
        /\ Sizes \subseteq Nat /\ None \notin Int
    BY GatewayAssumption DEF IInv
  <1> SUFFICES ASSUME pc' = "ended" PROVE WholeOrBroken'
    OBVIOUS
  <1>1. CASE pc = "ended"
    BY <1>0, <1>1, EndedStays
  <1>2. CASE pc # "ended"
    <2>0. UNCHANGED <<req>>
      BY <1>2, Endings
    <2>1. CASE Send
      <3>1. /\ pc = "send" /\ UNCHANGED <<body, declared, hand, rerr>>
            /\ body \in Nat /\ sent \in Nat /\ hand \in 0 .. 1
        BY <1>0, <2>1 DEF Send, StreamInv, TypeOK, Streaming
      <3>2. CASE req.over = "http"
        BY <1>0, <2>1, <3>1, <3>2, SendOutcome DEF StreamInv, Copied
      <3>3. CASE req.over # "http"
        BY <1>0, <2>1, <3>1, <3>3, SendOutcome DEF StreamInv
      <3> QED
        BY <3>2, <3>3
    <2>2. CASE Lookup
      <3>1. req.op = "download" => status' # "ok"
        BY <2>2 DEF Lookup, lookupStatus
      <3> QED
        BY <2>0, <3>1
    <2>3. CASE VerifyLink \/ Open \/ SendHead
      BY <2>3 DEF VerifyLink, Open, OpenObject, lookupStatus, SendHead
    <2>4. CASE Authorize
      BY <2>4 DEF Authorize, Handler
    <2>5. CASE ReadForm \/ RecvInfo \/ Upload \/ Respond \/ Delete \/ Ping
      <3>1. req.op # "download"
        BY <1>0, <2>5 DEF PathInv, ReadForm, RecvInfo, Upload, Respond, Delete, Ping
      <3> QED
        BY <2>0, <3>1
    <2> QED
      BY <1>2, <2>1, <2>2, <2>3, <2>4, <2>5, Endings
  <1> QED
    BY <1>1, <1>2

(* Whichever of its two expiries a lookup goes by. *)
LEMMA ExpiredSoon ==
    ASSUME NEW e \in Expiries, NEW x \in {e, AsTimestamp(e)}, NEW t \in Nat, Expired(x, t)
    PROVE  /\ e \in Nat /\ t > e - TicksPerSecond
           /\ t > e - ((TicksPerSecond - 1) \div 2)
  <1>1. e \in Nat /\ e # Never
    BY DEF Expired, AsTimestamp, Expiries
  <1>2. /\ RoundSec(e) \in Nat /\ e < RoundSec(e) + TicksPerSecond
        /\ e - ((TicksPerSecond - 1) \div 2) <= RoundSec(e)
    BY <1>1, RoundFacts, RoundEarly
  <1>3. TicksPerSecond \in Nat /\ (TicksPerSecond - 1) \div 2 \in Nat /\ TicksPerSecond > 0
    BY TicksAssumption
  <1>4. x = e \/ x = RoundSec(e)
    BY <1>1 DEF AsTimestamp
  <1>5. t > x
    BY DEF Expired
  <1> QED
    BY <1>1, <1>2, <1>3, <1>4, <1>5

(* An expiry that cannot be stored gets no better with time. *)
LEMMA UnstorableStays ==
    ASSUME NEW ttl \in Int, NEW base \in Int, NEW t \in Nat, NEW u \in Nat, t <= u,
           ~Storable(ExpiryFor(ttl, base, t))
    PROVE  ~Storable(ExpiryFor(ttl, base, u))
  <1> DEFINE d == ExpiryFor(ttl, base, t)
             e == ExpiryFor(ttl, base, u)
  <1>1. d # Never /\ RoundSec(d) > MaxTimestamp
    <2>1. d \in Expiries
      BY ExpiryType
    <2>2. d # Never
      BY DEF Storable
    <2>3. RoundSec(d) \in Nat
      BY <2>1, <2>2, RoundFacts DEF Expiries
    <2> QED
      BY <2>2, <2>3, GatewayAssumption DEF Storable
  <1>2. d \in Nat /\ e \in Nat /\ d <= e
    BY <1>1 DEF ExpiryFor, Never
  <1> HIDE DEF d, e
  <1>3. RoundSec(d) <= RoundSec(e) /\ RoundSec(d) \in Nat /\ RoundSec(e) \in Nat
    BY <1>2, RoundMonotone, RoundFacts
  <1>4. ~Storable(e)
    BY <1>1, <1>2, <1>3, GatewayAssumption DEF Storable, Never
  <1> QED
    BY <1>4 DEF e

LEMMA FaultStep ==
    ASSUME IInv, Next
    PROVE  FaultInv'
  <1> USE DEF FaultInv, Goto, End
  <1>0. FaultInv /\ PathInv /\ ReqInv /\ PartsInv /\ TypeOK
    BY DEF IInv
  <1> SUFFICES ASSUME pc' = "ended" PROVE FaultInv'
    OBVIOUS
  <1>1. CASE pc = "ended"
    BY <1>0, <1>1, EndedStays DEF Ttl, parseTTL, ttlFromSeconds, Wrap
  <1>2. CASE pc # "ended"
    <2>0. UNCHANGED <<req, gone, wasDown, up>>
      BY <1>2, Endings
    <2>1. Ttl(req)' = Ttl(req)
      BY <2>0 DEF Ttl, parseTTL, ttlFromSeconds, Wrap
    <2>2. CASE Upload
      BY <1>0, <2>0, <2>1, <2>2, TtlType DEF Upload, PathInv
    <2>3. CASE Lookup
      <3>1. status' = "internal" => CanFail({"mysql"})
        BY <2>3 DEF Lookup, lookupStatus
      <3>2. CanFail({"mysql"}) => gone \/ "mysql" \in wasDown
        BY <1>0, <2>3 DEF CanFail, PartsInv, Parts, Lookup
      <3>3. status' # "cut" /\ req.op # "upload"
        BY <1>0, <2>3 DEF Lookup, lookupStatus, PathInv
      <3> QED
        BY <2>0, <3>1, <3>2, <3>3
    <2>4. CASE Open \/ SendHead \/ Send
      <3>1. req.op = "download" /\ req.id \in Ids
        BY <1>0, <2>4 DEF Open, OpenObject, SendHead, Send, PathInv, Streaming
      <3> QED
        BY <2>0, <3>1
    <2>5. CASE Delete
      <3>1. req.op = "delete"
        BY <1>0, <2>5 DEF Delete, PathInv
      <3> QED
        BY <2>0, <3>1
    <2>6. CASE Authorize \/ ReadForm \/ RecvInfo \/ VerifyLink \/ Ping \/ Respond
      <3>1. status' \notin {"internal", "cut"}
        BY <2>6 DEF Authorize, Handler, ReadForm, RecvInfo, VerifyLink, Ping, AfterPing, Pinged,
                    Respond
      <3> QED
        BY <3>1
    <2> QED
      BY <1>2, <2>2, <2>3, <2>4, <2>5, <2>6, Endings
  <1> QED
    BY <1>1, <1>2

(* A part that was needed and failed a request that is still listened to    *)
(* was down during it.                                                      *)
LEMMA FailureSeen ==
    ASSUME PartsInv, pc # "idle", ~gone, NEW P, P \subseteq Parts, CanFail(P)
    PROVE  P \cap wasDown # {}
  BY DEF PartsInv, CanFail

(* Nobody is blamed for what others did. *)
LEMMA BlameStep ==
    ASSUME IInv, Next
    PROVE  BlameIsRight'
  <1> USE DEF Goto, End
  <1>0. /\ BlameIsRight /\ FaultInv /\ PathInv /\ ReqInv /\ PartsInv /\ StreamInv
        /\ TypeOK /\ RecordInv /\ cfg.defaultTTL \in Int /\ now \in Nat
    BY CfgFacts, GatewayAssumption DEF IInv, TypeOK
  <1> DEFINE Down == wasDown \cap {"mysql", "s3", "bucket"} # {}
             Bad == status = "badRequest" =>
                      req.form = "bad" \/ req.ttl = Malformed \/ "disk" \in wasDown
             Unknown == status = "unauthenticated" => ~ \E k \in cfg.apiKeys \ {Blank} :
                      req.header = [scheme |-> "bearer", token |-> k]
             Missing == status = "notFound" /\ Found(req.id) =>
                      file[req.id].exp # Never /\ now > file[req.id].exp - TicksPerSecond
             Fault == status \in {"internal", "cut"} =>
                      \/ Down
                      \/ req.op = "download" /\ blob[req.id] = None
                      \/ /\ req.op = "upload"
                         /\ \/ req.form \in {"unfit", "refused"}
                            \/ ~Storable(ExpiryFor(Ttl(req), cfg.defaultTTL, now))
  <1> SUFFICES ASSUME pc' = "ended", ~gone'
               PROVE  Bad' /\ Unknown' /\ Missing' /\ Fault'
    BY DEF BlameIsRight
  <1>1. CASE pc = "ended"
    <2>0. /\ UNCHANGED <<req, cfg, status, gone>> /\ now' \in Nat /\ now <= now'
          /\ wasDown \subseteq wasDown'
          /\ \A id \in Ids : /\ file'[id] = file[id] \/ file'[id] = None
                             /\ blob'[id] = blob[id] \/ blob'[id] = None
      BY <1>1, EndedStays
    <2>1. Bad /\ Unknown /\ Missing /\ Fault
      BY <1>0, <1>1, <2>0 DEF BlameIsRight
    <2>2. Bad' /\ Unknown'
      BY <2>0, <2>1
    <2>3. Missing'
      <3> SUFFICES ASSUME status = "notFound", Found(req.id)'
                   PROVE  /\ file'[req.id].exp # Never
                          /\ now' > file'[req.id].exp - TicksPerSecond
        BY <2>0
      <3>0. req.id \in Ids /\ file'[req.id] \notin {Fresh, None}
        BY <2>0 DEF Found
      <3>1. req.id \in Ids /\ file'[req.id] = file[req.id] /\ Found(req.id)
        BY <2>0, <3>0 DEF Found
      <3>2. file[req.id].exp \in Int /\ TicksPerSecond \in Int
        BY <1>0, <3>1, TicksAssumption DEF TypeOK
      <3> QED
        BY <1>0, <2>0, <2>1, <3>1, <3>2
    <2>4. Fault'
      <3> SUFFICES ASSUME status \in {"internal", "cut"}, ~Down'
                   PROVE  \/ req.op = "download" /\ blob'[req.id] = None
                          \/ /\ req.op = "upload"
                             /\ \/ req.form \in {"unfit", "refused"}
                                \/ ~Storable(ExpiryFor(Ttl(req), cfg.defaultTTL, now'))
        BY <2>0 DEF Ttl, parseTTL, ttlFromSeconds, Wrap, Storable
      <3>1. ~Down
        BY <2>0
      <3>2. CASE req.op = "download" /\ blob[req.id] = None
        BY <1>0, <1>1, <2>0, <3>1, <3>2 DEF FaultInv
      <3>3. CASE /\ req.op = "upload"
                 /\ ~Storable(ExpiryFor(Ttl(req), cfg.defaultTTL, now))
        BY <1>0, <1>1, <2>0, <3>3, UnstorableStays DEF FaultInv
      <3>4. CASE req.op = "upload" /\ req.form \in {"unfit", "refused"}
        BY <3>4
      <3> QED
        BY <2>1, <3>1, <3>2, <3>3, <3>4
    <2> QED
      BY <2>2, <2>3, <2>4
  <1>2. CASE pc # "ended"
    <2>0. UNCHANGED <<now, cfg, req, gone, wasDown, up>> /\ pc # "idle" /\ ~gone
      <3>1. pc # "idle"
        BY <1>2, Endings DEF Authorize, ReadForm, RecvInfo, VerifyLink, Ping, Pinged, Upload,
                             Respond, Lookup, Delete, Open, OpenObject, SendHead, Send
      <3> QED
        BY <1>2, <3>1, Endings
    <2>1. CASE Authorize
      <3>1. status' = "unauthenticated" /\ Refused(req)
        BY <2>1 DEF Authorize, Handler
      <3>2. ASSUME NEW k \in cfg.apiKeys \ {Blank},
                   req.header = [scheme |-> "bearer", token |-> k]
            PROVE  FALSE
        <4>1. req.header \in [scheme : {"bearer"}, token : cfg.apiKeys]
          BY <3>2
        <4>2. req.header # Unset
          BY <1>0, <4>1, CfgFacts, UnsetAssumption DEF TypeOK
        <4>3. BearerToken(req.header) = k
          BY <3>2, <4>2 DEF BearerToken
        <4> QED
          BY <3>1, <3>2, <4>3 DEF Refused, Valid
      <3> QED
        BY <2>0, <3>1, <3>2
    <2>2. CASE ReadForm
      <3>1. CanFail({"disk"}) => "disk" \in wasDown
        BY <1>0, <2>0, FailureSeen DEF Parts
      <3> QED
        BY <2>0, <2>2, <3>1 DEF ReadForm
    <2>3. CASE RecvInfo
      BY <2>0, <2>3 DEF RecvInfo
    <2>4. CASE VerifyLink \/ Ping \/ Respond \/ SendHead
      <3>1. status' \in {"forbidden", "unavailable", "ok", "canceled"}
        BY <2>4 DEF VerifyLink, Ping, AfterPing, Pinged, Respond, SendHead
      <3> QED
        BY <3>1
    <2>5. CASE Upload
      <3>1. CanFail(Store \cup {"mysql"}) \/ CanFail(Store) => Down
        BY <1>0, <2>0, FailureSeen DEF Store, Parts
      <3>2. /\ status' \in {"tooLarge", "ok", "internal"} /\ req.op = "upload"
            /\ status' = "internal" =>
                 \/ CanFail(Store \cup {"mysql"}) \/ CanFail(Store)
                 \/ req.form \in {"unfit", "refused"}
                 \/ ~Storable(ExpiryFor(Ttl(req), cfg.defaultTTL, now))
        BY <1>0, <2>5 DEF Upload, PathInv, Insertable
      <3>3. UNCHANGED Ttl(req)
        BY <2>0 DEF Ttl, parseTTL, ttlFromSeconds, Wrap
      <3> QED
        BY <2>0, <3>1, <3>2, <3>3 DEF Storable
    <2>6. CASE Lookup
      <3>1. CanFail({"mysql"}) => Down
        BY <1>0, <2>0, FailureSeen DEF Parts
      <3>2. /\ status' \in {"internal", "notFound", "ok"}
            /\ status' = "internal" => CanFail({"mysql"})
        BY <2>6 DEF Lookup, lookupStatus
      <3>3. ASSUME status' = "notFound", Found(req.id)'
            PROVE  /\ file'[req.id].exp # Never
                   /\ now' > file'[req.id].exp - TicksPerSecond
        <4>1. Found(req.id) /\ req.id \in Ids
          BY <2>0, <2>6, <3>3 DEF Lookup, Found, world, Erase
        <4>2. file[req.id].exp \in Expiries
          BY <1>0, <4>1 DEF RecordInv, Found
        <4>3. PICK exp \in {file[req.id].exp, AsTimestamp(file[req.id].exp)} :
                Expired(exp, now) /\ Erase(req.id)
          BY <2>6, <3>3, <4>1, GatewayAssumption DEF Lookup, lookupStatus, Statuses
        <4>4. UNCHANGED file
          BY <1>0, <2>0, <3>3, <4>1, <4>3 DEF Erase, Found, RecordInv
        <4> QED
          BY <1>0, <2>0, <4>2, <4>3, <4>4, ExpiredSoon DEF Never
      <3> QED
        BY <2>0, <3>1, <3>2, <3>3
    <2>7. CASE Delete
      <3>1. CanFail({"mysql"}) => Down
        BY <1>0, <2>0, FailureSeen DEF Parts
      <3>2. status' \in {"ok", "internal"} /\ (status' = "internal" => CanFail({"mysql"}))
        BY <1>0, <2>7 DEF Delete, Erase, Found, RecordInv
      <3> QED
        BY <2>0, <3>1, <3>2
    <2>8. CASE Open
      <3>1. CanFail(Store) => Down
        BY <1>0, <2>0, FailureSeen DEF Store, Parts
      <3>2. /\ status' = "internal" /\ req.op = "download" /\ UNCHANGED blob
            /\ CanFail(Store) \/ blob[req.id] = None
        BY <1>0, <2>8 DEF Open, OpenObject, lookupStatus, PathInv, world
      <3> QED
        BY <2>0, <3>1, <3>2
    <2>9. CASE Send
      <3>1. /\ pc = "send" /\ UNCHANGED <<body, declared, hand, rerr, blob>>
            /\ body \in Nat /\ sent \in Nat /\ hand \in 0 .. 1 /\ req.op = "download"
        BY <1>0, <2>9, GatewayAssumption DEF Send, StreamInv, TypeOK, Streaming, world, PathInv
      <3>2. status' \in {"ok", "cut", "internal", "canceled"}
        BY <2>9, SendOutcome DEF Copied
      <3>3. status' \in {"cut", "internal"} => rerr = "err"
        BY <1>0, <2>9, <3>1, SendOutcome DEF StreamInv, Copied, TypeOK
      <3>4. rerr = "err" => Down \/ blob[req.id] = None
        BY <1>0, <2>0, <3>1 DEF StreamInv, Store
      <3> QED
        BY <2>0, <3>1, <3>2, <3>3, <3>4
    <2> QED
      BY <1>2, <2>1, <2>2, <2>3, <2>4, <2>5, <2>6, <2>7, <2>8, <2>9, Endings
  <1> QED
    BY <1>1, <1>2

-------------------------------------------------------------------------------
(* The invariant and what follows from it *)

LEMMA InvInit == Init => IInv
  <1> SUFFICES ASSUME Init PROVE IInv
    OBVIOUS
  <1>1. TypeOK
    <2>1. MaxTime \in Nat /\ 0 \in 0 .. MaxTime /\ 0 \in 0 .. 1
      BY GatewayAssumption
    <2>2. \A id \in Ids : ~Found(id)
      BY DEF Init, Found
    <2>3. /\ pc = "idle" /\ pc \in Pcs /\ status = None /\ gone \in BOOLEAN /\ links = {}
          /\ blob \in [Ids -> Sizes \cup {None}] /\ body = None /\ declared = None
          /\ cfg \in {Load(e) : e \in Envs} \ {Malformed}
      BY DEF Init, Pcs
    <2>4. /\ now = 0 /\ hand = 0 /\ rerr = "nil" /\ sent = 0
          /\ up \subseteq Parts /\ wasUp \subseteq Parts /\ wasDown \subseteq Parts
      BY DEF Init
    <2> QED
      BY <2>1, <2>2, <2>3, <2>4 DEF TypeOK
  <1>2. RecordInv /\ LinkInv
    BY DEF Init, RecordInv, LinkInv, Found
  <1>3. ReqInv /\ PathInv /\ PartsInv /\ StreamInv /\ FaultInv
    BY DEF Init, ReqInv, PathInv, PartsInv, StreamInv, FaultInv, Streaming, Pinged
  <1>4. LimitKept /\ BlameIsRight /\ WholeOrBroken /\ ReadyMeansAllUp
    BY DEF Init, LimitKept, BlameIsRight, WholeOrBroken, ReadyMeansAllUp
  <1> QED
    BY <1>1, <1>2, <1>3, <1>4 DEF IInv

LEMMA InvNext == IInv /\ [Next]_vars => IInv'
  <1> SUFFICES ASSUME IInv, [Next]_vars PROVE IInv'
    OBVIOUS
  <1>1. CASE Next
    <2>1. RecordInv' /\ LinkInv' /\ TypeOK'
      BY <1>1, RecordStep, LinkStep, TypeStep
    <2>2. ReqInv' /\ PathInv' /\ PartsInv' /\ StreamInv' /\ FaultInv'
      BY <1>1, <2>1, ReqStep, PathStep, PartsStep, StreamStep, FaultStep
    <2>3. LimitKept' /\ BlameIsRight' /\ WholeOrBroken' /\ ReadyMeansAllUp'
      BY <1>1, LimitStep, BlameStep, WholeStep, ReadyStep
    <2> QED
      BY <2>1, <2>2, <2>3 DEF IInv
  <1>2. CASE UNCHANGED vars
    <2> USE <1>2 DEF vars, world, parts, stream, IInv
    <2>1. TypeOK' /\ RecordInv' /\ LinkInv'
      BY DEF TypeOK, RecordInv, LinkInv, Found
    <2>a. ReqInv'
      BY DEF ReqInv
    <2>2. PathInv' /\ PartsInv' /\ StreamInv' /\ FaultInv'
      BY DEF PathInv, PartsInv, StreamInv, FaultInv, Refused, Enabled, Valid, OverLimit
    <2>3. LimitKept' /\ BlameIsRight' /\ WholeOrBroken' /\ ReadyMeansAllUp'
      BY DEF LimitKept, BlameIsRight, WholeOrBroken, ReadyMeansAllUp, Found
    <2> QED
      BY <2>1, <2>a, <2>2, <2>3
  <1> QED
    BY <1>1, <1>2

LEMMA InvHolds == Spec => []IInv
  BY InvInit, InvNext, PTL DEF Spec

(* Configuration, records, links, requests and streams are what they should *)
(* be in every state of the server, and a request has a status exactly when *)
(* it has ended.                                                            *)
THEOREM GatewayTypes == Spec => []TypeOK
  <1>1. IInv => TypeOK
    BY DEF IInv
  <1> QED
    BY <1>1, InvHolds, PTL

(* For any limit, form overhead and sizes: no transport accepts a file      *)
(* above the limit (handleUpload, Service.Upload's declared and counted     *)
(* size) or refuses one for its size that, with its form, is not.           *)
THEOREM LimitHolds == Spec => []LimitKept
  <1>1. IInv => LimitKept
    BY DEF IInv
  <1> QED
    BY <1>1, InvHolds, PTL

(* Every status names whoever was at fault, whatever fails, recovers,       *)
(* expires or is deleted during the request (respondLookupError,            *)
(* lookupStatus, requireAuth, handleUpload): without a client's own fault   *)
(* or a part that was down, only an upload that the database or grpc-go     *)
(* cannot take, or a download whose object is gone, ends in an error.       *)
THEOREM BlameHolds == Spec => []BlameIsRight
  <1>1. IInv => BlameIsRight
    BY DEF IInv
  <1> QED
    BY <1>1, InvHolds, PTL

(* A download that ends as a success has delivered every byte, for files of *)
(* any size and whatever happens while they are sent (handleDownload's      *)
(* Content-Length and io.Copy, Download's loop of Read and Send).           *)
THEOREM DownloadsAreWhole == Spec => []WholeOrBroken
  <1>1. IInv => WholeOrBroken
    BY DEF IInv
  <1> QED
    BY <1>1, InvHolds, PTL

(* A readiness probe that succeeds has had an answer from every store, and  *)
(* one that fails has met one that was down (handleReady).                  *)
THEOREM ReadyIsTrue == Spec => []ReadyMeansAllUp
  <1>1. IInv => ReadyMeansAllUp
    BY DEF IInv
  <1> QED
    BY <1>1, InvHolds, PTL

-------------------------------------------------------------------------------
(* What a step may not do *)

(* Only its own handler moves a request on. *)
LEMMA OnlyHandler ==
    ASSUME Next, pc' # pc
    PROVE  /\ pc = "verify" => VerifyLink
           /\ pc = "lookup" => Lookup
  <1>1. ~Around
    BY DEF Around, HangUp, Tick, Outage, Recover, OtherDeletes, Restart
  <1>2. pc \in {"verify", "lookup"} => VerifyLink \/ Lookup
    BY <1>1 DEF Next, Around, Begin, Authorize, ReadForm, RecvInfo, Upload, Respond, Delete, Open,
                OpenObject, SendHead, Read, Send, Ping, Pinged, Close
  <1> QED
    BY <1>2 DEF VerifyLink, Lookup

(* A download is let in only by the link it presents, one the server made   *)
(* for that file under its present key, until this link ends and, being     *)
(* kept in whole seconds, less than a second longer, and no such link is    *)
(* refused before its end (urlsign's Query and Verify, handleDownload).     *)
THEOREM LinksHold == Spec => LinkWindow
  <1> DEFINE Window ==
        pc = "verify" /\ pc' # pc /\ Signing =>
        LET presented(l) == /\ l.sig.id = req.id /\ l.sig.key = cfg.signingKey
                            /\ req.query = [exp |-> l.exp, sig |-> l.sig] IN
        /\ pc' = "lookup" =>
             \E l \in links : presented(l) /\ now < l.until + TicksPerSecond
        /\ pc' = "ended" =>
             ~ \E l \in links : presented(l) /\ now <= l.until
  <1>1. IInv /\ [Next]_vars => [Window]_vars
    <2> SUFFICES ASSUME IInv, Next, pc = "verify", pc' # pc, Signing
                 PROVE  Window
      OBVIOUS
    <2>a. VerifyLink /\ now \in Int /\ LinkInv /\ ReqInv /\ PathInv
      BY OnlyHandler, GatewayAssumption DEF IInv, TypeOK
    <2>0. /\ VerifyLink /\ now \in Int /\ LinkInv
          /\ req.query = Unset \/ \E l \in links : \E e \in {l.exp, l.exp + 1, Malformed} :
               req.query = [exp |-> e, sig |-> l.sig]
      BY <2>a DEF ReqInv, PathInv
    <2>1. ASSUME pc' = "lookup"
          PROVE  \E l \in links : /\ l.sig.id = req.id /\ l.sig.key = cfg.signingKey
                                  /\ req.query = [exp |-> l.exp, sig |-> l.sig]
                                  /\ now < l.until + TicksPerSecond
      <3>1. Verify(req.id, req.query)
        BY <2>0, <2>1 DEF VerifyLink, Goto, End
      <3>2. PICK l \in links : \E e \in {l.exp, l.exp + 1, Malformed} :
                                 req.query = [exp |-> e, sig |-> l.sig]
        BY <2>0, <3>1 DEF Verify, Signed
      <3>a. req.query.sig = l.sig /\ req.query = [exp |-> req.query.exp, sig |-> l.sig]
        BY <3>2
      <3>3. l.sig = [id |-> req.id, exp |-> req.query.exp, key |-> cfg.signingKey]
        BY <3>1, <3>a DEF Verify, Signed, sign
      <3>4. l.sig.id = req.id /\ l.sig.key = cfg.signingKey /\ l.sig.exp = req.query.exp
        BY <3>3
      <3>5. l.exp = l.sig.exp /\ l.exp = Unix(l.until) /\ l.until \in Int
        BY <2>0 DEF LinkInv, IInv, TypeOK
      <3>6. Unix(now) <= Unix(l.until)
        BY <3>1, <3>4, <3>5 DEF Verify
      <3> QED
        BY <2>0, <3>a, <3>4, <3>5, <3>6, UnixFacts
    <2>2. ASSUME pc' = "ended", NEW l \in links, l.sig.id = req.id, l.sig.key = cfg.signingKey,
                 now <= l.until, req.query = [exp |-> l.exp, sig |-> l.sig]
          PROVE  FALSE
      <3>1. ~Verify(req.id, req.query)
        BY <2>0, <2>2 DEF VerifyLink, Goto, End
      <3>2. /\ l.exp = Unix(l.until) /\ l.until \in Int /\ l.sig.id \in Ids
            /\ \E e \in Envs : l.sig = [id |-> l.sig.id, exp |-> l.exp,
                                        key |-> Load(e).signingKey]
        BY <2>0 DEF LinkInv
      <3>3. l.exp \in Int /\ Unix(now) <= l.exp
        BY <2>0, <2>2, <3>2, UnixFacts
      <3>4. l.sig = [id |-> req.id, exp |-> l.exp, key |-> cfg.signingKey]
        <4>1. PICK k : l.sig = [id |-> l.sig.id, exp |-> l.exp, key |-> k]
          BY <3>2
        <4>2. k = cfg.signingKey
          BY <2>2, <4>1
        <4> QED
          BY <2>2, <4>1, <4>2
      <3>5. req.query # Unset
        <4>1. PICK e \in Envs : cfg = Load(e) /\ Load(e) # Malformed
          BY CfgFacts DEF IInv, TypeOK
        <4>2. Unset \notin [exp : Int, sig : [id : Ids, exp : Int, key : {cfg.signingKey}]]
          BY <4>1, UnsetAssumption
        <4>3. l.sig \in [id : Ids, exp : Int, key : {cfg.signingKey}]
          BY <2>2, <3>2, <3>3, <3>4
        <4> QED
          BY <2>2, <3>3, <4>2, <4>3
      <3>6. req.query.exp = l.exp /\ req.query.sig = l.sig /\ l.exp # Malformed
        BY <2>2, <3>3, GatewayAssumption
      <3> QED
        BY <3>1, <3>3, <3>4, <3>5, <3>6 DEF Verify, Signed, sign
    <2> QED
      BY <2>1, <2>2
  <1>2. Spec => [][Window]_vars
    BY <1>1, InvHolds, PTL DEF Spec
  <1> QED
    BY <1>2 DEF LinkWindow

(* With API keys configured, a request creates or removes a file only with  *)
(* one of the keys, or by reading one that was not to last for ever when    *)
(* its time is over: requireAuth and the interceptors, each with its own    *)
(* list of what it guards, stand before everything that writes.             *)
THEOREM WritesNeedKey == Spec => MutationNeedsKey
  <1> DEFINE Allowed(id) ==
        \/ cfg.apiKeys \subseteq {Blank}
        \/ /\ req.op \in {"upload", "delete"} /\ req.header # Unset
           /\ req.header.scheme = "bearer" /\ req.header.token \in cfg.apiKeys
        \/ req.op \in {"download", "metadata"} /\ file'[id] = None
           /\ file[id].exp # Never /\ now > file[id].exp - TicksPerSecond
  <1>1. IInv /\ [Next]_vars => [\A id \in Ids : pc' # pc /\ file'[id] # file[id] => Allowed(id)]_vars
    <2> SUFFICES ASSUME IInv, Next, NEW id \in Ids, pc' # pc, file'[id] # file[id]
                 PROVE  Allowed(id)
      OBVIOUS
    <2>0. PathInv /\ RecordInv /\ now \in Nat
      BY GatewayAssumption DEF IInv, TypeOK
    <2>1. Upload \/ Delete \/ Lookup
      BY DEF Next, Begin, Authorize, ReadForm, RecvInfo, Respond, VerifyLink, Open, OpenObject,
             SendHead, Read, Send, Ping, Close, HangUp, Tick, Outage, Recover, OtherDeletes,
             Restart, world
    <2>2. CASE Upload \/ Delete
      <3>1. req.op \in {"upload", "delete"} /\ ~Refused(req)
        BY <2>0, <2>2 DEF Upload, Delete, PathInv
      <3>2. cfg.apiKeys \subseteq {Blank} \/ Valid(BearerToken(req.header))
        BY <3>1 DEF Refused, Enabled, Protected, protectedMethods, guardedRoutes
      <3> QED
        BY <3>1, <3>2 DEF Valid, BearerToken
    <2>3. CASE Lookup
      <3>1. req.op \in {"download", "metadata"}
        BY <2>0, <2>3 DEF Lookup, PathInv
      <3>2. PICK exp \in {file[req.id].exp, AsTimestamp(file[req.id].exp)} :
              Expired(exp, now) /\ Erase(req.id) /\ Found(req.id)
        BY <2>3 DEF Lookup, world
      <3>3. id = req.id /\ file'[id] = None
        BY <2>0, <3>2 DEF Erase, RecordInv, Found
      <3>4. file[id].exp \in Expiries
        BY <2>0, <3>2, <3>3 DEF RecordInv, Found
      <3>5. file[id].exp \in Nat /\ now > file[id].exp - TicksPerSecond
        BY <2>0, <3>2, <3>3, <3>4, ExpiredSoon
      <3> QED
        BY <3>1, <3>3, <3>5 DEF Never
    <2> QED
      BY <2>1, <2>2, <2>3
  <1>2. Spec => [][\A id \in Ids : pc' # pc /\ file'[id] # file[id] => Allowed(id)]_vars
    BY <1>1, InvHolds, PTL DEF Spec
  <1> QED
    BY <1>2 DEF MutationNeedsKey

(* A file is found as long as its ttl asked for and no longer, up to the    *)
(* rounding of the column, for every ttl that fits a time.Duration, every   *)
(* width of it, default and clock resolution (parseTTL, ttlFromSeconds,     *)
(* Service.Upload, File.Expired and the round trip through MySQL).          *)
THEOREM LifetimesHold == Spec => LifetimeAsAsked
  <1> DEFINE InTime ==
        pc = "lookup" /\ pc' # pc /\ Found(req.id) =>
        LET asked == file[req.id].promised
            late  == TicksPerSecond \div 2
            early == (TicksPerSecond - 1) \div 2 IN
        asked # None =>
            /\ status' = "ok" \/ pc' = "open" => asked = Never \/ now <= asked + late
            /\ status' = "notFound" => asked # Never /\ now > asked - early
  <1>1. IInv /\ [Next]_vars => [InTime]_vars
    <2> SUFFICES ASSUME IInv, Next, pc = "lookup", pc' # pc, Found(req.id),
                        file[req.id].promised # None
                 PROVE  InTime
      OBVIOUS
    <2> DEFINE asked == file[req.id].promised
    <2>0. /\ Lookup /\ now \in Nat /\ RecordInv /\ status = None
          /\ None \notin Statuses
      BY OnlyHandler, GatewayAssumption DEF IInv, TypeOK
    <2>1. asked \in Expiries /\ asked = file[req.id].exp
      BY <2>0 DEF RecordInv, Found
    <2> HIDE DEF asked
    <2>2. ASSUME status' = "ok" \/ pc' = "open"
          PROVE  asked = Never \/ now <= asked + (TicksPerSecond \div 2)
      <3>1. PICK exp \in {asked, AsTimestamp(asked)} : ~Expired(exp, now)
        BY <2>0, <2>1, <2>2 DEF Lookup, Goto, End, lookupStatus, Statuses
      <3>2. CASE asked # Never
        <4>1. asked \in Nat /\ AsTimestamp(asked) = RoundSec(asked)
          BY <2>1, <3>2 DEF Expiries, AsTimestamp
        <4>2. RoundSec(asked) \in Nat /\ RoundSec(asked) <= asked + (TicksPerSecond \div 2)
          BY <4>1, RoundFacts
        <4>3. TicksPerSecond \div 2 \in Nat
          BY TicksAssumption
        <4>4. exp \in Nat /\ now <= exp
          BY <2>0, <3>1, <4>1, <4>2 DEF Expired, Never
        <4> QED
          BY <2>0, <3>1, <4>1, <4>2, <4>3, <4>4
      <3> QED
        BY <3>2
    <2>3. ASSUME status' = "notFound"
          PROVE  asked # Never /\ now > asked - ((TicksPerSecond - 1) \div 2)
      <3>1. PICK exp \in {asked, AsTimestamp(asked)} : Expired(exp, now)
        BY <2>0, <2>1, <2>3 DEF Lookup, Goto, End, lookupStatus, Statuses
      <3> QED
        BY <2>0, <2>1, <3>1, ExpiredSoon DEF Never
    <2> QED
      BY <2>2, <2>3 DEF asked
  <1>2. Spec => [][InTime]_vars
    BY <1>1, InvHolds, PTL DEF Spec
  <1> QED
    BY <1>2 DEF LifetimeAsAsked
===============================================================================
