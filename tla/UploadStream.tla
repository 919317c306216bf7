----------------------------- MODULE UploadStream -----------------------------
(***************************************************************************)
(* One gRPC upload (rpc.Server.Upload): the handler runs service.Upload on *)
(* the read end of a pipe while a second goroutine, the feeder, receives   *)
(* the client's messages, enforces the size limit and writes the chunks to *)
(* the other end.  The handler learns why the feeder stopped only from two *)
(* flags it loads after service.Upload has failed.                         *)
(*                                                                         *)
(* What service.Upload does to its backends is FileService's subject; here *)
(* it reads the pipe to its end, stores what it read and inserts a row, or *)
(* fails at any point, on a backend fault or because the client hung up.   *)
(***************************************************************************)
EXTENDS Integers

CONSTANTS
    None,         \* no offer on the pipe, no object, no status yet
    MaxUpload,    \* MAX_UPLOAD_BYTES (0 = unlimited)
    Chunks,       \* the lengths a chunk may have
    MaxChunks,    \* bound: how many chunks a client sends
    MaxFaults     \* bound: how often a backend fails

ASSUME StreamAssumption ==
    /\ MaxUpload \in Nat
    /\ Chunks \subseteq Nat
    /\ MaxChunks \in Nat
    /\ MaxFaults \in Nat
    /\ None \notin Nat
    /\ None \notin {"OK", "InvalidArgument", "ResourceExhausted", "Internal",
                    "SendError", "tooLarge", "other"}

VARIABLES
    handler,       \* the handler's next step
    feeder,        \* the feeder's next step
    err,           \* the error service.Upload returned, or None
    status,        \* the status the handler returned, None while it runs
    written,       \* bytes the feeder has written
    chunk,         \* length of the chunk the feeder has in hand
    tooLarge,      \* the flag of that name
    repeatedInfo,  \* the flag of that name
    offer,         \* bytes of the current pw.Write not read yet, or None
    wclosed,       \* how the write end is closed: "open", "eof" or "error"
    rclosed,       \* the read end is closed
    body,          \* bytes store.Put has read
    object,        \* length of the stored object, or None
    row,           \* the file's row is inserted
    hungUp,        \* the client has reset the stream
    ended,         \* history: the client closed its side in good order
    refused,       \* history: it sent a message grpc-go did not accept
    sent,          \* history: bytes of all the chunks received from it
    chunks,        \* history: how many chunks those were
    faults         \* history: how many backend faults there were

goroutines == <<handler, feeder, err, status>>
local      == <<written, chunk, tooLarge, repeatedInfo>>
pipe       == <<offer, wclosed, rclosed>>
stored     == <<body, object, row>>
client     == <<hungUp, ended, refused, sent, chunks>>

vars == <<goroutines, local, pipe, stored, client, faults>>

Init ==
    /\ handler = "first" /\ feeder = "none" /\ err = None /\ status = None
    /\ written = 0 /\ chunk = 0 /\ tooLarge = FALSE /\ repeatedInfo = FALSE
    /\ offer = None /\ wclosed = "open" /\ rclosed = FALSE
    /\ body = 0 /\ object = None /\ row = FALSE
    /\ hungUp = FALSE /\ ended = FALSE /\ refused = FALSE /\ sent = 0 /\ chunks = 0
    /\ faults = 0

OverLimit(n) == MaxUpload > 0 /\ n > MaxUpload

(* A backend call works, or it fails: on a fault, or on a stream context    *)
(* that the client has cancelled.                                           *)
Works == ~hungUp /\ UNCHANGED faults

Fails ==
    \/ hungUp /\ UNCHANGED faults
    \/ ~hungUp /\ faults < MaxFaults /\ faults' = faults + 1

(***************************************************************************)
(* The handler.                                                            *)
(***************************************************************************)
Return(s) == handler' = "done" /\ status' = s

(* service.Upload returns with an error. *)
SvcFails(e) == handler' = "failed" /\ err' = e

(* The first message is the file info, and the feeder is started, or it is  *)
(* a chunk, the end of the stream or an error.                              *)
RecvFirst ==
    /\ handler = "first"
    /\ \/ handler' = "put" /\ feeder' = "recv" /\ UNCHANGED status
       \/ Return("InvalidArgument") /\ UNCHANGED feeder
    /\ UNCHANGED <<err, local, pipe, stored, client, faults>>

(* A read takes what fits into the reader's buffer. *)
PipeRead ==
    /\ handler = "put"
    /\ offer # None
    /\ \E k \in IF offer = 0 THEN {0} ELSE 1 .. offer :
        /\ body' = body + k
        /\ offer' = IF k = offer THEN None ELSE offer - k
    /\ UNCHANGED <<goroutines, local, wclosed, rclosed, object, row, client, faults>>

(* The pipe is at its end and everything read is stored. *)
PutEnds ==
    /\ handler = "put"
    /\ wclosed = "eof"
    /\ Works
    /\ object' = body
    /\ handler' = "insert"
    /\ UNCHANGED <<feeder, err, status, local, pipe, body, row, client>>

(* The pipe fails, or the store does, perhaps after it has stored the body. *)
PutFails ==
    /\ handler = "put"
    /\ \/ wclosed = "error" /\ UNCHANGED <<object, faults>>
       \/ Fails /\ UNCHANGED object
       \/ Fails /\ wclosed = "eof" /\ object' = body
    /\ SvcFails("other")
    /\ UNCHANGED <<feeder, status, local, pipe, body, row, client>>

(* The rest of service.Upload: the limit once more, then the row.  When it  *)
(* fails it tries to remove the object.                                     *)
SvcFinishes ==
    /\ handler = "insert"
    /\ \/ /\ ~OverLimit(body) /\ Works
          /\ row' = TRUE
          /\ handler' = "reply" /\ UNCHANGED <<object, err>>
       \/ /\ ~OverLimit(body) /\ Fails
          /\ row' \in BOOLEAN /\ object' \in {None, object}
          /\ SvcFails("other")
       \/ /\ OverLimit(body)
          /\ object' \in {None, object}
          /\ SvcFails("tooLarge") /\ UNCHANGED <<row, faults>>
    /\ UNCHANGED <<feeder, status, local, pipe, body, client>>

(* The answer is sent, or cannot be any more: its error is the status. *)
SendAndClose ==
    /\ handler = "reply"
    /\ \/ Return("OK")
       \/ hungUp /\ Return("SendError")
    /\ UNCHANGED <<feeder, err, local, pipe, stored, client, faults>>

(* Mutant: the read end is left open. *)
CloseReaderSkipped ==
    /\ handler = "failed"
    /\ handler' = "explain"
    /\ UNCHANGED <<feeder, err, status, local, pipe, stored, client, faults>>

(* Unblock the feeder if it is still writing. *)
CloseReader ==
    /\ handler = "failed"
    /\ rclosed' = TRUE
    /\ handler' = "explain"
    /\ UNCHANGED <<feeder, err, status, local, offer, wclosed, stored, client, faults>>

(* Mutant: an unexpected error is returned as it is. *)
ExplainRaw ==
    /\ handler = "explain"
    /\ Return(IF tooLarge \/ err = "tooLarge" THEN "ResourceExhausted"
              ELSE IF repeatedInfo THEN "InvalidArgument"
              ELSE err)
    /\ UNCHANGED <<feeder, err, local, pipe, stored, client, faults>>

(* The status: the feeder's reason for stopping before service.Upload's. *)
Explain ==
    /\ handler = "explain"
    /\ Return(IF tooLarge \/ err = "tooLarge" THEN "ResourceExhausted"
              ELSE IF repeatedInfo THEN "InvalidArgument"
              ELSE "Internal")
    /\ UNCHANGED <<feeder, err, local, pipe, stored, client, faults>>

(***************************************************************************)
(* The feeder.                                                             *)
(***************************************************************************)
(* pw.Close() and pw.CloseWithError(err). *)
CloseWriter(how) == feeder' = "done" /\ wclosed' = how

FeedEOF ==
    /\ feeder = "recv"
    /\ ~ended /\ ended' = TRUE
    /\ CloseWriter("eof")
    /\ UNCHANGED <<handler, err, status, local, offer, rclosed, stored,
                   hungUp, refused, sent, chunks, faults>>

(* Recv fails once the client has reset the stream or the handler is back. *)
FeedError ==
    /\ feeder = "recv"
    /\ hungUp \/ handler = "done"
    /\ CloseWriter("error")
    /\ UNCHANGED <<handler, err, status, local, offer, rclosed, stored, client, faults>>

(* Recv fails for a message that grpc-go does not accept: one longer than   *)
(* its own limit (4 MiB, which the server leaves as it is), or one that     *)
(* cannot be decoded.                                                       *)
FeedRefused ==
    /\ feeder = "recv"
    /\ refused' = TRUE
    /\ CloseWriter("error")
    /\ UNCHANGED <<handler, err, status, local, offer, rclosed, stored,
                   hungUp, ended, sent, chunks, faults>>

(* Mutant: the flag is forgotten. *)
FeedInfoUnflagged ==
    /\ feeder = "recv"
    /\ feeder' = "abort"
    /\ UNCHANGED <<handler, err, status, local, pipe, stored, client, faults>>

(* The file info a second time. *)
FeedInfo ==
    /\ feeder = "recv"
    /\ repeatedInfo' = TRUE
    /\ feeder' = "abort"
    /\ UNCHANGED <<handler, err, status, written, chunk, tooLarge, pipe, stored,
                   client, faults>>

(* Mutant: the limit is compared with the bytes written before this chunk. *)
FeedChunkLateCheck(n) ==
    /\ feeder = "recv"
    /\ chunks < MaxChunks
    /\ chunks' = chunks + 1
    /\ sent' = sent + n
    /\ chunk' = n
    /\ IF OverLimit(written)
       THEN tooLarge' = TRUE /\ feeder' = "abort" /\ UNCHANGED offer
       ELSE offer' = n /\ feeder' = "write" /\ UNCHANGED tooLarge
    /\ UNCHANGED <<handler, err, status, written, repeatedInfo, wclosed, rclosed, stored,
                   hungUp, ended, refused, faults>>

(* A chunk of n bytes: over the limit it stops the upload, else it is       *)
(* offered to the reader.                                                   *)
FeedChunk(n) ==
    /\ feeder = "recv"
    /\ chunks < MaxChunks
    /\ chunks' = chunks + 1
    /\ sent' = sent + n
    /\ chunk' = n
    /\ IF OverLimit(written + n)
       THEN tooLarge' = TRUE /\ feeder' = "abort" /\ UNCHANGED offer
       ELSE offer' = n /\ feeder' = "write" /\ UNCHANGED tooLarge
    /\ UNCHANGED <<handler, err, status, written, repeatedInfo, wclosed, rclosed, stored,
                   hungUp, ended, refused, faults>>

(* pw.Write returns: the chunk was read, or the read end is closed. *)
FeedWritten ==
    /\ feeder = "write"
    /\ \/ offer = None /\ written' = written + chunk /\ feeder' = "recv"
       \/ offer # None /\ rclosed /\ feeder' = "done" /\ UNCHANGED written
    /\ offer' = None
    /\ UNCHANGED <<handler, err, status, chunk, tooLarge, repeatedInfo, wclosed, rclosed,
                   stored, client, faults>>

(* Mutant: pw.Close() where the upload must be aborted. *)
FeedAbortCleanly ==
    /\ feeder = "abort"
    /\ CloseWriter("eof")
    /\ UNCHANGED <<handler, err, status, local, offer, rclosed, stored, client, faults>>

(* The flag is set before the pipe is closed. *)
FeedAbort ==
    /\ feeder = "abort"
    /\ CloseWriter("error")
    /\ UNCHANGED <<handler, err, status, local, offer, rclosed, stored, client, faults>>

(***************************************************************************)
(* The client resets the stream, or loses its connection.                  *)
(***************************************************************************)
HangUp ==
    /\ ~hungUp /\ handler # "done"
    /\ hungUp' = TRUE
    /\ UNCHANGED <<goroutines, local, pipe, stored, ended, refused, sent, chunks, faults>>

(***************************************************************************)
(* The specification.                                                      *)
(***************************************************************************)
Settled == handler = "done" /\ feeder \in {"none", "done"}

Terminated == Settled /\ UNCHANGED vars

HandlerStep ==
    \/ PipeRead \/ PutEnds \/ PutFails \/ SvcFinishes
    \/ SendAndClose \/ CloseReader \/ Explain

(* What the feeder does without waiting for a message of the client. *)
FeederStep == FeedError \/ FeedWritten \/ FeedAbort

ClientStep ==
    \/ RecvFirst \/ FeedEOF \/ FeedInfo \/ FeedRefused \/ HangUp
    \/ \E n \in Chunks : FeedChunk(n)

Next == HandlerStep \/ FeederStep \/ ClientStep \/ Terminated

Spec == Init /\ [][Next]_vars

(* Both goroutines run on.  Nothing makes the client send; once it has      *)
(* reset the stream, the handler's first Recv returns.                      *)
Fairness ==
    /\ WF_vars(HandlerStep)
    /\ WF_vars(FeederStep)
    /\ WF_vars(hungUp /\ RecvFirst)

FairSpec == Spec /\ Fairness

(***************************************************************************)
(* Properties.                                                             *)
(***************************************************************************)
TypeOK ==
    /\ handler \in {"first", "put", "insert", "reply", "failed", "explain", "done"}
    /\ feeder \in {"none", "recv", "write", "abort", "done"}
    /\ err \in {None, "tooLarge", "other"}
    /\ status \in {None, "OK", "InvalidArgument", "ResourceExhausted", "Internal",
                  "SendError"}
    /\ written \in Nat /\ chunk \in Nat
    /\ tooLarge \in BOOLEAN /\ repeatedInfo \in BOOLEAN
    /\ offer \in Nat \cup {None}
    /\ wclosed \in {"open", "eof", "error"} /\ rclosed \in BOOLEAN
    /\ body \in Nat /\ object \in Nat \cup {None} /\ row \in BOOLEAN
    /\ hungUp \in BOOLEAN /\ ended \in BOOLEAN /\ refused \in BOOLEAN
    /\ sent \in Nat /\ chunks \in Nat /\ faults \in Nat

(* A file is recorded only when the client finished its stream, with        *)
(* nothing but chunks within the limit, and what was stored is every byte   *)
(* of them (a clean-up may have removed it again, after a row whose reply   *)
(* was lost): no reset, refusal or failure on either side of the pipe is    *)
(* ever taken for the end of the body.                                      *)
NoTruncatedFile ==
    row => /\ ended /\ ~tooLarge /\ ~repeatedInfo /\ ~refused
           /\ body = sent
           /\ object \in {None, sent}

(* The status the handler returns is what happened, although it learns it   *)
(* from flags set by another goroutine: OK means the file is recorded and   *)
(* all there, and so does an answer that could not be sent, to a client     *)
(* that had gone; ResourceExhausted and InvalidArgument blame the client    *)
(* only for what it sent; and Internal is returned only if a backend        *)
(* failed, the client went away, or it sent a message that grpc-go did not  *)
(* accept, which the handler takes for a broken stream.                     *)
StatusTellsWhy ==
    /\ status \in {"OK", "SendError"} => row /\ object = sent
    /\ status = "SendError" => hungUp
    /\ status = "ResourceExhausted" => OverLimit(sent)
    /\ status = "InvalidArgument" => repeatedInfo \/ feeder = "none"
    /\ status = "Internal" => hungUp \/ refused \/ faults > 0

(* No byte beyond the limit reaches object storage, whatever the chunks.    *)
ForwardedWithinLimit == ~OverLimit(body)

(* Once the client has finished, misbehaved or gone, or the handler is      *)
(* back, the handler returns and the feeder ends: neither goroutine is left *)
(* waiting for the other at the pipe.                                       *)
ClientIsThrough == hungUp \/ ended \/ refused \/ tooLarge \/ repeatedInfo

UploadSettles == ClientIsThrough \/ handler = "done" ~> Settled
===============================================================================
