--------------------------- MODULE UploadStreamProofs -------------------------
(***************************************************************************)
(* No truncated file, truthful statuses and the limit of a streamed        *)
(* upload, for any limit, any chunks and any number of faults.             *)
(***************************************************************************)
EXTENDS UploadStream, TLAPS

(* Where the bytes are: what the client sent is what was read from the pipe *)
(* plus what is on offer there, as long as nobody has given up.             *)
FeederInv ==
    /\ handler = "first" => feeder = "none"
    /\ feeder = "none" => handler \in {"first", "done"}
    /\ feeder \in {"none", "recv", "write", "abort"} => wclosed = "open"
    /\ feeder \in {"none", "recv", "write"} => ~tooLarge /\ ~repeatedInfo
    /\ feeder \in {"none", "recv"} => body = written /\ sent = written
    /\ feeder = "write" =>
        /\ sent = written + chunk
        /\ ~OverLimit(sent)
        /\ IF offer = None THEN body = sent ELSE body + offer = sent
    /\ feeder = "abort" => tooLarge \/ repeatedInfo
    /\ feeder # "write" => offer = None
    /\ tooLarge => OverLimit(sent)
    /\ ForwardedWithinLimit

(* What each way of closing the write end tells the reader. *)
PipeInv ==
    /\ wclosed = "eof" => ended /\ body = sent /\ ~tooLarge /\ ~repeatedInfo
    /\ wclosed = "error" =>
            hungUp \/ refused \/ tooLarge \/ repeatedInfo \/ handler = "done"
    /\ refused => wclosed = "error"

(* What the handler knows at each of its steps. *)
HandlerInv ==
    /\ handler \in {"insert", "reply"} => wclosed = "eof" /\ object = body
    /\ handler = "reply" => row
    /\ row => wclosed = "eof" /\ object \in {None, body}
    /\ handler # "done" => status = None
    /\ err # "tooLarge"
    /\ handler \in {"failed", "explain"} =>
            hungUp \/ refused \/ faults > 0 \/ tooLarge \/ repeatedInfo
    /\ status \in {"OK", "SendError"} => wclosed = "eof"
    /\ StatusTellsWhy

SInv == TypeOK /\ FeederInv /\ PipeInv /\ HandlerInv

-------------------------------------------------------------------------------
(* The handler's steps: only PipeRead moves bytes, and only from the offer. *)
LEMMA HandlerKeepsInv ==
    ASSUME SInv, HandlerStep
    PROVE  SInv'
  <1> USE StreamAssumption
      DEF SInv, TypeOK, FeederInv, PipeInv, HandlerInv, ForwardedWithinLimit, StatusTellsWhy,
          OverLimit, Works, Fails, Return, SvcFails, goroutines, local, pipe, stored, client
  <1>1. CASE PipeRead
    <2>1. feeder = "write" /\ wclosed = "open" /\ ~row /\ status = None
      BY <1>1 DEF PipeRead
    <2>2. PICK k \in Nat : /\ k <= offer
                           /\ body' = body + k
                           /\ offer' = IF k = offer THEN None ELSE offer - k
      BY <1>1 DEF PipeRead
    <2>3. IF offer' = None THEN body' = sent ELSE offer' \in Nat /\ body' + offer' = sent
      BY <1>1, <2>1, <2>2 DEF PipeRead
    <2>4. body' \in Nat /\ body' <= sent
      BY <2>3, <2>2
    <2> QED
      BY <1>1, <2>1, <2>3, <2>4 DEF PipeRead
  <1>2. CASE PutEnds
    BY <1>2 DEF PutEnds
  <1>3. CASE PutFails
    BY <1>3 DEF PutFails
  <1>4. CASE SvcFinishes
    <2>1. handler = "insert" /\ ~OverLimit(body)
      BY <1>4 DEF SvcFinishes
    <2>2. CASE Works /\ row' = TRUE /\ handler' = "reply" /\ UNCHANGED <<object, err>>
      BY <1>4, <2>1, <2>2 DEF SvcFinishes
    <2>3. CASE /\ Fails
               /\ row' \in BOOLEAN /\ object' \in {None, object}
               /\ SvcFails("other")
      <3>1. UNCHANGED <<feeder, status, local, pipe, body, client>>
        BY <1>4 DEF SvcFinishes
      <3>2. TypeOK'
        BY <2>3, <3>1
      <3>3. FeederInv' /\ PipeInv'
        BY <2>1, <2>3, <3>1
      <3>4. HandlerInv'
        BY <2>1, <2>3, <3>1
      <3> QED
        BY <3>2, <3>3, <3>4
    <2> QED
      BY <1>4, <2>1, <2>2, <2>3 DEF SvcFinishes
  <1>5. CASE SendAndClose
    BY <1>5 DEF SendAndClose
  <1>6. CASE CloseReader
    BY <1>6 DEF CloseReader
  <1>7. CASE Explain
    BY <1>7 DEF Explain
  <1> QED
    BY <1>1, <1>2, <1>3, <1>4, <1>5, <1>6, <1>7 DEF HandlerStep

(* The feeder's steps, and what the client makes it do. *)
LEMMA FeederKeepsInv ==
    ASSUME SInv, FeederStep \/ ClientStep
    PROVE  SInv'
  <1> USE StreamAssumption
      DEF SInv, TypeOK, FeederInv, PipeInv, HandlerInv, ForwardedWithinLimit, StatusTellsWhy,
          OverLimit, Return, CloseWriter, goroutines, local, pipe, stored, client
  <1>1. CASE FeedError
    BY <1>1 DEF FeedError
  <1>2. CASE FeedWritten
    BY <1>2 DEF FeedWritten
  <1>3. CASE FeedAbort
    BY <1>3 DEF FeedAbort
  <1>4. CASE RecvFirst
    BY <1>4 DEF RecvFirst
  <1>5. CASE FeedEOF
    BY <1>5 DEF FeedEOF
  <1>6. CASE FeedInfo
    BY <1>6 DEF FeedInfo
  <1>7. CASE HangUp
    BY <1>7 DEF HangUp
  <1>9. CASE FeedRefused
    BY <1>9 DEF FeedRefused
  <1>8. ASSUME NEW n \in Chunks, FeedChunk(n)
        PROVE  SInv'
    <2>1. n \in Nat /\ feeder = "recv" /\ wclosed = "open"
      BY <1>8 DEF FeedChunk
    <2>2. CASE OverLimit(written + n)
      BY <1>8, <2>1, <2>2 DEF FeedChunk
    <2>3. CASE ~OverLimit(written + n)
      BY <1>8, <2>1, <2>3 DEF FeedChunk
    <2> QED
      BY <2>2, <2>3
  <1> QED
    BY <1>1, <1>2, <1>3, <1>4, <1>5, <1>6, <1>7, <1>8, <1>9 DEF FeederStep, ClientStep

(* The invariant behind the theorems below. *)
THEOREM StreamInvariant == Spec => []SInv
  <1>1. Init => SInv
    <2> SUFFICES ASSUME Init PROVE SInv
      OBVIOUS
    <2>1. TypeOK
      BY DEF Init, TypeOK
    <2>2. FeederInv /\ PipeInv
      BY StreamAssumption DEF Init, FeederInv, PipeInv, ForwardedWithinLimit, OverLimit
    <2>3. HandlerInv
      BY StreamAssumption DEF Init, HandlerInv, StatusTellsWhy
    <2> QED
      BY <2>1, <2>2, <2>3 DEF SInv
  <1>2. SInv /\ [Next]_vars => SInv'
    <2> SUFFICES ASSUME SInv, [Next]_vars PROVE SInv'
      OBVIOUS
    <2>1. CASE HandlerStep
      BY <2>1, HandlerKeepsInv
    <2>2. CASE FeederStep \/ ClientStep
      BY <2>2, FeederKeepsInv
    <2>3. CASE UNCHANGED vars
      BY <2>3 DEF vars, goroutines, local, pipe, stored, client, SInv, TypeOK, FeederInv,
                  PipeInv, HandlerInv, ForwardedWithinLimit, StatusTellsWhy, OverLimit
    <2> QED
      BY <2>1, <2>2, <2>3 DEF Next, Terminated
  <1> QED
    BY <1>1, <1>2, PTL DEF Spec

(* Whatever the two goroutines and the client do, both are at a step of     *)
(* their own, and the pipe never holds half an offer or a negative rest.    *)
THEOREM StreamTypes == Spec => []TypeOK
  <1>1. SInv => TypeOK
    BY DEF SInv
  <1> QED
    BY <1>1, StreamInvariant, PTL

(* A streamed file is recorded only with every byte its client sent. *)
THEOREM StreamedFilesAreWhole == Spec => []NoTruncatedFile
  <1>1. SInv => NoTruncatedFile
    BY DEF SInv, TypeOK, PipeInv, HandlerInv, NoTruncatedFile
  <1> QED
    BY <1>1, StreamInvariant, PTL

(* The status of an upload is what happened to it: a file that is recorded  *)
(* and whole, a client that broke the protocol or the limit, or else a      *)
(* backend, a connection or a message that failed.                          *)
THEOREM StatusIsTrue == Spec => []StatusTellsWhy
  <1>1. SInv => StatusTellsWhy
    BY DEF SInv, HandlerInv
  <1> QED
    BY <1>1, StreamInvariant, PTL

(* No chunking gets a byte beyond the limit into object storage. *)
THEOREM LimitIsKept == Spec => []ForwardedWithinLimit
  <1>1. SInv => ForwardedWithinLimit
    BY DEF SInv, FeederInv
  <1> QED
    BY <1>1, StreamInvariant, PTL

-------------------------------------------------------------------------------
(* The safety half of UploadSettles: somebody can always go on, and nobody  *)
(* can go on for ever.                                                      *)

(* What each goroutine knows of how the other may have left the pipe. *)
PipeEnds ==
    /\ handler = "put" => feeder # "none"
    /\ ended => feeder = "done"
    /\ feeder = "done" => wclosed # "open" \/ rclosed
    /\ rclosed => handler \in {"explain", "done"}
    /\ handler \in {"explain", "done"} /\ feeder \in {"recv", "write", "abort"} => rclosed

(* When a step of the goroutine is not waiting for anybody: the reader has  *)
(* something to read or learns that there will be nothing, the writer is    *)
(* read from or learns that it will not be, Recv has its error.             *)
HandlerCanMove ==
    \/ handler = "first" /\ hungUp
    \/ handler = "put" /\ (offer # None \/ wclosed # "open" \/ hungUp)
    \/ handler \in {"insert", "reply", "failed", "explain"}

FeederCanMove ==
    \/ feeder = "recv" /\ (hungUp \/ handler = "done")
    \/ feeder = "write" /\ (offer = None \/ rclosed)
    \/ feeder = "abort"

NeverWedged ==
    ClientIsThrough \/ handler = "done" =>
        Settled \/ HandlerCanMove \/ FeederCanMove

LEMMA PipeEndsInit == Init => PipeEnds
  BY DEF Init, PipeEnds

LEMMA PipeEndsStep ==
    ASSUME SInv, PipeEnds, Next
    PROVE  PipeEnds'
  <1> USE DEF PipeEnds, Return, SvcFails, CloseWriter, goroutines, local, pipe, stored, client
  <1>0. FeederInv /\ HandlerInv /\ TypeOK
    BY DEF SInv
  <1>1. CASE HandlerStep
    BY <1>0, <1>1 DEF HandlerStep, PipeRead, PutEnds, PutFails, SvcFinishes, SendAndClose,
                      CloseReader, Explain, FeederInv, HandlerInv
  <1>2. CASE FeederStep
    BY <1>0, <1>2 DEF FeederStep, FeedError, FeedWritten, FeedAbort, FeederInv
  <1>3. CASE RecvFirst \/ FeedEOF \/ FeedInfo \/ FeedRefused \/ HangUp
    BY <1>0, <1>3 DEF RecvFirst, FeedEOF, FeedInfo, FeedRefused, HangUp, FeederInv
  <1>4. ASSUME NEW n \in Chunks, FeedChunk(n)
        PROVE  PipeEnds'
    BY <1>0, <1>4 DEF FeedChunk, FeederInv
  <1>5. CASE UNCHANGED vars
    BY <1>5 DEF vars
  <1> QED
    BY <1>1, <1>2, <1>3, <1>4, <1>5 DEF Next, ClientStep, Terminated

LEMMA PipeEndsHolds == Spec => [](SInv /\ PipeEnds)
  <1>1. SInv /\ PipeEnds /\ [Next]_vars => PipeEnds'
    <2> SUFFICES ASSUME SInv, PipeEnds, [Next]_vars PROVE PipeEnds'
      OBVIOUS
    <2>1. CASE UNCHANGED vars
      BY <2>1 DEF vars, goroutines, local, pipe, stored, client, PipeEnds
    <2> QED
      BY <2>1, PipeEndsStep
  <1> QED
    BY <1>1, PipeEndsInit, StreamInvariant, PTL DEF Spec

(* Once the client has finished, misbehaved or gone, or the handler is      *)
(* back, the two goroutines are never waiting for each other at the pipe,   *)
(* whichever of them closed its end and whenever: both are through, or one  *)
(* can go on without the client.                                            *)
THEOREM PipeNeverWedges == Spec => []NeverWedged
  <1>1. SInv /\ PipeEnds => NeverWedged
    <2> SUFFICES ASSUME SInv, PipeEnds,
                        ClientIsThrough \/ handler = "done",
                        ~HandlerCanMove, ~FeederCanMove
                 PROVE  Settled
      BY DEF NeverWedged
    <2>1. handler \in {"first", "put", "done"} /\ feeder \in {"none", "recv", "write", "done"}
      BY DEF SInv, TypeOK, HandlerCanMove, FeederCanMove
    <2>2. CASE handler = "first"
      BY <2>2 DEF SInv, FeederInv, PipeInv, PipeEnds, HandlerCanMove, ClientIsThrough
    <2>3. CASE handler = "put"
      BY <2>1, <2>3 DEF SInv, FeederInv, PipeInv, PipeEnds, HandlerCanMove, FeederCanMove,
                         ClientIsThrough
    <2>4. CASE handler = "done"
      BY <2>1, <2>4 DEF PipeEnds, FeederCanMove, Settled
    <2> QED
      BY <2>1, <2>2, <2>3, <2>4
  <1> QED
    BY <1>1, PipeEndsHolds, PTL

(* How many steps the goroutines have left, if no chunk comes any more. *)
HandlerLeft ==
    CASE handler = "first"   -> 6
      [] handler = "put"     -> 5
      [] handler = "insert"  -> 4
      [] handler = "failed"  -> 3
      [] handler = "explain" -> 2
      [] handler = "reply"   -> 1
      [] handler = "done"    -> 0

FeederLeft ==
    CASE feeder = "write" -> 3
      [] feeder = "recv"  -> 2
      [] feeder = "abort" -> 1
      [] feeder \in {"none", "done"} -> 0

OfferLeft == IF offer = None THEN 0 ELSE offer + 1

StepsLeft == HandlerLeft + FeederLeft + OfferLeft

LEMMA StepsLeftType ==
    ASSUME TypeOK
    PROVE  HandlerLeft \in Nat /\ FeederLeft \in Nat /\ OfferLeft \in Nat /\ StepsLeft \in Nat
  <1>1. HandlerLeft \in Nat
    BY DEF TypeOK, HandlerLeft
  <1>2. FeederLeft \in Nat
    BY DEF TypeOK, FeederLeft
  <1>3. OfferLeft \in Nat
    BY DEF TypeOK, OfferLeft
  <1> QED
    BY <1>1, <1>2, <1>3 DEF StepsLeft

LEMMA SumType ==
    ASSUME NEW a \in Nat, NEW b \in Nat, NEW c \in Nat
    PROVE  a + b + c \in Nat
  OBVIOUS

LEMMA SumFalls ==
    ASSUME NEW a \in Nat, NEW b \in Nat, NEW c \in Nat,
           NEW x \in Nat, NEW y \in Nat, NEW z \in Nat,
           x < a \/ x = a, y < b \/ y = b, z < c \/ z = c,
           x < a \/ y < b \/ z < c
    PROVE  x + y + z < a + b + c
  OBVIOUS

(* Whatever a goroutine does without the client brings the upload nearer to *)
(* its end: neither loops, an offer is read in finitely many pieces, and an *)
(* empty chunk is no exception.  Only a further chunk puts the end off, and *)
(* there is none once the client has finished or misbehaved.                *)
THEOREM StreamRunsDown ==
    Spec => [][/\ HandlerStep \/ FeederStep => StepsLeft' < StepsLeft
               /\ ended \/ refused \/ tooLarge \/ repeatedInfo => StepsLeft' <= StepsLeft]_vars
  <1> DEFINE Down == /\ HandlerStep \/ FeederStep => StepsLeft' < StepsLeft
                     /\ ended \/ refused \/ tooLarge \/ repeatedInfo => StepsLeft' <= StepsLeft
  <1>1. ASSUME SInv, SInv', PipeEnds, [Next]_vars
        PROVE  Down
    <2> USE DEF Return, SvcFails, CloseWriter, goroutines, local, pipe, stored, client
    <2>0. /\ TypeOK /\ FeederInv
          /\ HandlerLeft \in Nat /\ FeederLeft \in Nat /\ OfferLeft \in Nat
          /\ HandlerLeft' \in Nat /\ FeederLeft' \in Nat /\ OfferLeft' \in Nat
      <3>1. TypeOK /\ TypeOK' /\ FeederInv
        BY <1>1 DEF SInv
      <3>2. HandlerLeft' \in Nat
        BY <3>1 DEF TypeOK, HandlerLeft
      <3>3. FeederLeft' \in Nat
        BY <3>1 DEF TypeOK, FeederLeft
      <3>4. OfferLeft' \in Nat
        <4>1. \A n \in Nat : n + 1 \in Nat
          OBVIOUS
        <4>2. offer' = None \/ offer' \in Nat
          BY <3>1 DEF TypeOK
        <4> QED
          BY <4>1, <4>2 DEF OfferLeft
      <3> QED
        BY <3>1, <3>2, <3>3, <3>4, StepsLeftType
    <2>1. ASSUME PipeRead
          PROVE  StepsLeft' < StepsLeft
      <3>1. OfferLeft' < OfferLeft
        <4>1. offer \in Nat /\ offer # None
          BY <2>0, <2>1 DEF PipeRead, TypeOK
        <4>2. \/ offer' = None
              \/ offer' \in Nat /\ offer' < offer
          BY <2>1, <4>1 DEF PipeRead
        <4> QED
          BY <4>1, <4>2, StreamAssumption DEF OfferLeft
      <3>2. HandlerLeft' = HandlerLeft /\ FeederLeft' = FeederLeft
        BY <2>1 DEF PipeRead, HandlerLeft, FeederLeft
      <3> QED
        BY <2>0, <3>1, <3>2, SumFalls DEF StepsLeft
    <2>2. ASSUME PutEnds \/ PutFails \/ SvcFinishes \/ SendAndClose \/ CloseReader \/ Explain
          PROVE  StepsLeft' < StepsLeft
      <3>1. \/ handler = "put"     /\ handler' \in {"insert", "failed"}
            \/ handler = "insert"  /\ handler' \in {"reply", "failed"}
            \/ handler = "failed"  /\ handler' = "explain"
            \/ handler \in {"explain", "reply"} /\ handler' = "done"
        BY <2>2 DEF PutEnds, PutFails, SvcFinishes, SendAndClose, CloseReader, Explain
      <3>2. HandlerLeft' < HandlerLeft
        BY <3>1 DEF HandlerLeft
      <3>3. feeder' = feeder /\ offer' = offer
        BY <2>2 DEF PutEnds, PutFails, SvcFinishes, SendAndClose, CloseReader, Explain
      <3>4. FeederLeft' = FeederLeft /\ OfferLeft' = OfferLeft
        BY <3>3 DEF FeederLeft, OfferLeft
      <3> QED
        BY <2>0, <3>2, <3>4, SumFalls DEF StepsLeft
    <2>3. ASSUME FeederStep \/ FeedEOF \/ FeedInfo \/ FeedRefused
          PROVE  StepsLeft' < StepsLeft
      <3>1. \/ feeder = "recv"  /\ feeder' \in {"abort", "done"}
            \/ feeder = "write" /\ feeder' \in {"recv", "done"}
            \/ feeder = "abort" /\ feeder' = "done"
        BY <2>3 DEF FeederStep, FeedError, FeedWritten, FeedAbort, FeedEOF, FeedInfo,
                      FeedRefused
      <3>2. FeederLeft' < FeederLeft
        BY <3>1 DEF FeederLeft
      <3>3. handler' = handler /\ (offer' = offer \/ offer' = None)
        BY <2>3 DEF FeederStep, FeedError, FeedWritten, FeedAbort, FeedEOF, FeedInfo,
                      FeedRefused
      <3>4. HandlerLeft' = HandlerLeft
        BY <3>3 DEF HandlerLeft
      <3>5. OfferLeft' < OfferLeft \/ OfferLeft' = OfferLeft
        <4>1. CASE offer' = offer
          BY <4>1 DEF OfferLeft
        <4>2. CASE offer' = None /\ offer # None
          <5>1. OfferLeft' = 0 /\ OfferLeft = offer + 1 /\ offer \in Nat
            BY <2>0, <4>2 DEF OfferLeft, TypeOK
          <5> QED
            BY <5>1
        <4> QED
          BY <3>3, <4>1, <4>2
      <3> QED
        BY <2>0, <3>2, <3>4, <3>5, SumFalls DEF StepsLeft
    <2>4. ASSUME HangUp \/ UNCHANGED vars
          PROVE  StepsLeft' = StepsLeft
      <3>1. UNCHANGED <<handler, feeder, offer>>
        BY <2>4 DEF HangUp, vars
      <3> QED
        BY <3>1 DEF StepsLeft, HandlerLeft, FeederLeft, OfferLeft
    <2>5. RecvFirst \/ (\E n \in Chunks : FeedChunk(n)) => ~(ended \/ refused \/ tooLarge \/ repeatedInfo)
      BY <1>1, <2>0 DEF RecvFirst, FeedChunk, SInv, FeederInv, PipeInv, PipeEnds
    <2>6. HandlerStep \/ FeederStep => StepsLeft' < StepsLeft
      BY <2>1, <2>2, <2>3 DEF HandlerStep
    <2>7. \/ StepsLeft' < StepsLeft
          \/ StepsLeft' = StepsLeft
          => StepsLeft' <= StepsLeft
      <3>1. \A m, n \in Nat : m < n \/ m = n => m <= n
        OBVIOUS
      <3>2. StepsLeft' \in Nat
        BY <2>0, SumType DEF StepsLeft
      <3> QED
        BY <2>0, <3>1, <3>2, StepsLeftType
    <2> QED
      BY <1>1, <2>3, <2>4, <2>5, <2>6, <2>7 DEF Next, ClientStep, Terminated
  <1> QED
    BY <1>1, PipeEndsHolds, PTL DEF Spec
===============================================================================
