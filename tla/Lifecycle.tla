------------------------------- MODULE Lifecycle -------------------------------
(***************************************************************************)
(* One `dropcrate serve` process, from its environment to its exit code.   *)
(*                                                                         *)
(* main acquires the stores one by one (buildDeps, tracing.Setup), starts  *)
(* three goroutines it never waits for (the sweeper and the two servers),  *)
(* and then waits for the first server error or for a signal.  What it     *)
(* acquired is released by deferred calls, while requests and a sweep may  *)
(* still be using it.  A request is an opaque interval here: what happens  *)
(* inside one is the subject of FileService, UploadStream and Gateway.     *)
(***************************************************************************)
EXTENDS Config

CONSTANTS
    Rpcs, Https,   \* requests that may arrive, by transport
    Sweep,         \* the event a sweep publishes
    Envs,          \* environments the process may be started in
    MaxFaults      \* bound on failures of backends, ports and listeners

ASSUME RequestsAssumption ==
    Rpcs \cap Https = {} /\ Sweep \notin Rpcs \cup Https /\ MaxFaults \in Nat

VARIABLES
    env,           \* the environment variables
    cfg,           \* what config.Load made of them
    main,          \* where runServe is
    code,          \* how it returned: "none" yet, "ok", "error", or "killed"
    opened,        \* what the deferred calls close: "db", "cache", "kafka", "tracer"
    bucket,        \* the S3 bucket exists
    server,        \* where the goroutine of each server is
    bound,         \* servers whose listener is open
    errCh,         \* servers whose fatal error waits in errCh
    cancelled,     \* the context of signal.NotifyContext is done
    sweeper,       \* where sweeper.Run is
    req,           \* the life of each request
    queue,         \* events the Kafka writer still holds
    faults

bootVars == <<env, cfg, bucket>>
mainVars == <<main, code, opened>>
srvVars  == <<server, bound, errCh>>
vars == <<bootVars, mainVars, srvVars, cancelled, sweeper, req, queue, faults>>

Requests  == Rpcs \cup Https
Servers   == {"http", "grpc"}
Over(r)   == IF r \in Rpcs THEN "grpc" ELSE "http"
Running(R) == {r \in R : req[r] = "running"}

Works == UNCHANGED faults
Fault == faults < MaxFaults /\ faults' = faults + 1

Init ==
    /\ env \in Envs
    /\ cfg = Malformed
    /\ main = "load"
    /\ code = "none"
    /\ opened = {}
    /\ bucket \in BOOLEAN
    /\ server = [s \in Servers |-> "off"]
    /\ bound = {}
    /\ errCh = {}
    /\ cancelled = FALSE
    /\ sweeper = "off"
    /\ req = [r \in Requests |-> "new"]
    /\ queue = {}
    /\ faults = 0

-----------------------------------------------------------------------------
(* Main: the start.  Goto is the next statement, Return an early return     *)
(* with an error, after which the deferred calls from step on are made.     *)

Goto(step)   == main' = step /\ UNCHANGED code
Return(step) == main' = step /\ code' = "error"
BootOnly     == UNCHANGED <<srvVars, cancelled, sweeper, req, queue>>

(* Mutant: the error is not handed on. *)
LoadConfigQuiet ==
    /\ main = "load"
    /\ cfg' = Load(env)
    /\ Goto(IF cfg' = Malformed THEN "exit" ELSE "openDB")
    /\ Works /\ BootOnly
    /\ UNCHANGED <<env, bucket, opened>>

LoadConfig ==
    /\ main = "load"
    /\ cfg' = Load(env)
    /\ IF cfg' = Malformed THEN Return("exit") ELSE Goto("openDB")
    /\ Works /\ BootOnly
    /\ UNCHANGED <<env, bucket, opened>>

(* database.Open closes the pool again when its ping fails. *)
OpenDB ==
    /\ main = "openDB"
    /\ \/ Works /\ Goto("checkBucket") /\ opened' = opened \cup {"db"}
       \/ Fault /\ Return("exit") /\ UNCHANGED opened
    /\ BootOnly /\ UNCHANGED bootVars

(* Mutant: a bucket that is missing is taken for granted. *)
CheckBucketOnly ==
    /\ main = "checkBucket"
    /\ \/ Works /\ Goto("pingCache")
       \/ Fault /\ Return("closeDB")
    /\ BootOnly /\ UNCHANGED <<bootVars, opened>>

CheckBucket ==
    /\ main = "checkBucket"
    /\ \/ Works /\ Goto(IF bucket THEN "pingCache" ELSE "makeBucket")
       \/ Fault /\ Return("closeDB")
    /\ BootOnly /\ UNCHANGED <<bootVars, opened>>

(* The call fails as well when another process made the bucket after the    *)
(* check found none.                                                        *)
MakeBucket ==
    /\ main = "makeBucket"
    /\ \/ ~bucket /\ Works /\ bucket' = TRUE /\ Goto("pingCache")
       \/ bucket /\ Works /\ UNCHANGED bucket /\ Return("closeDB")
       \/ Fault /\ UNCHANGED bucket /\ Return("closeDB")
    /\ BootOnly /\ UNCHANGED <<env, cfg, opened>>

(* The client holds connections whether or not the ping is answered; the    *)
(* publisher is built once it is, and dials nobody.                         *)
PingCache ==
    /\ main = "pingCache"
    /\ \/ /\ Works /\ Goto("tracing")
          /\ opened' = opened \cup {"cache"}
                \cup (IF cfg.brokers # {} THEN {"kafka"} ELSE {})
       \/ Fault /\ Return("closeCache") /\ opened' = opened \cup {"cache"}
    /\ BootOnly /\ UNCHANGED bootVars

SetupTracing ==
    /\ main = "tracing"
    /\ \/ /\ Works /\ Goto("listen")
          /\ opened' = IF env["OTEL_EXPORTER_OTLP_ENDPOINT"] = Unset THEN opened
                       ELSE opened \cup {"tracer"}
       \/ /\ env["OTEL_EXPORTER_OTLP_ENDPOINT"] # Unset
          /\ Fault /\ Return("closeKafka") /\ UNCHANGED opened
    /\ BootOnly /\ UNCHANGED bootVars

(* The gRPC port is bound by main, the HTTP port by its goroutine. *)
Listen ==
    /\ main = "listen"
    /\ \/ /\ Works /\ Goto("select")
          /\ server' = [s \in Servers |-> "starting"]
          /\ bound' = {"grpc"}
          /\ sweeper' = IF cfg.sweepInterval > 0 THEN "waiting" ELSE "off"
       \/ Fault /\ Return("stopTracing") /\ UNCHANGED <<server, bound, sweeper>>
    /\ UNCHANGED <<bootVars, opened, errCh, cancelled, req, queue>>

-----------------------------------------------------------------------------
(* Main: the end. *)

(* Mutant: a server error does not end the wait. *)
TakeErrorNever == FALSE /\ UNCHANGED vars

(* Neither server is stopped: the other one keeps its listener. *)
TakeError ==
    /\ main = "select" /\ errCh # {}
    /\ \E s \in errCh : errCh' = errCh \ {s}
    /\ Return("stop")
    /\ Works
    /\ UNCHANGED <<bootVars, opened, server, bound, cancelled, sweeper, req, queue>>

(* Mutant: Stop in the place of GracefulStop. *)
TakeSignalHard ==
    /\ main = "select" /\ cancelled
    /\ server' = [s \in Servers |-> "stopped"]
    /\ bound' = {}
    /\ req' = [r \in Requests |-> IF r \in Running(Rpcs) THEN "cut" ELSE req[r]]
    /\ Goto("httpStop")
    /\ Works
    /\ UNCHANGED <<bootVars, opened, errCh, cancelled, sweeper, queue>>

(* GracefulStop refuses new RPCs and closes the listener, unless Serve has  *)
(* not been called with it yet; the HTTP server still takes requests.       *)
TakeSignal ==
    /\ main = "select" /\ cancelled
    /\ IF server["grpc"] = "starting"
       THEN server' = [server EXCEPT !["grpc"] = "early"] /\ UNCHANGED bound
       ELSE server' = [server EXCEPT !["grpc"] = "stopped"] /\ bound' = bound \ {"grpc"}
    /\ Goto("grpcStop")
    /\ Works
    /\ UNCHANGED <<bootVars, opened, errCh, cancelled, sweeper, req, queue>>

(* GracefulStop returns once the last RPC has; Shutdown then closes the     *)
(* HTTP listener, or keeps one from being opened.                           *)
GrpcStopped ==
    /\ main = "grpcStop" /\ Running(Rpcs) = {}
    /\ server' = [server EXCEPT !["http"] = "stopped"]
    /\ bound' = bound \ {"http"}
    /\ Goto("httpStop")
    /\ Works
    /\ UNCHANGED <<bootVars, opened, errCh, cancelled, sweeper, req, queue>>

(* Shutdown waits for the requests, though no longer than its context. *)
HttpStopped ==
    /\ main = "httpStop"
    /\ main' = "stop"
    /\ code' = IF Running(Https) = {} THEN "ok" ELSE "error"
    /\ Works
    /\ UNCHANGED <<bootVars, opened, srvVars, cancelled, sweeper, req, queue>>

(* stop(): the context ends, and a signal is again what it is by default. *)
DeferredStop ==
    /\ main = "stop"
    /\ cancelled' = TRUE
    /\ Goto("stopTracing")
    /\ Works
    /\ UNCHANGED <<bootVars, opened, srvVars, sweeper, req, queue>>

Close(step, what, next) ==
    /\ main = step
    /\ opened' = opened \ {what}
    /\ Goto(next)
    /\ Works
    /\ UNCHANGED <<bootVars, srvVars, cancelled, sweeper, req, queue>>

StopTracing == Close("stopTracing", "tracer", "closeKafka")

(* Mutant: the writer is dropped with what it still holds. *)
CloseKafkaAtOnce == Close("closeKafka", "kafka", "closeCache")

(* writer.Close refuses new events and waits for those it has. *)
CloseKafka  == Close("closeKafka", "kafka", "flush")
Flush       == queue = {} /\ Close("flush", "kafka", "closeCache")
CloseCache  == Close("closeCache", "cache", "closeDB")
CloseDB     == Close("closeDB", "db", "exit")

(* The end of the process ends every goroutine with it. *)
Ends(c) ==
    /\ main' = "exited"
    /\ code' = c
    /\ server' = [s \in Servers |-> "off"]
    /\ sweeper' = "off"
    /\ req' = [r \in Requests |-> IF req[r] = "running" THEN "cut" ELSE req[r]]
    /\ Works
    /\ UNCHANGED <<bootVars, opened, bound, errCh, cancelled, queue>>

Exit == main = "exit" /\ Ends(code)

Main ==
    \/ LoadConfig \/ OpenDB \/ CheckBucket \/ MakeBucket \/ PingCache
    \/ SetupTracing \/ Listen
    \/ TakeError \/ TakeSignal \/ GrpcStopped \/ HttpStopped
    \/ DeferredStop \/ StopTracing \/ CloseKafka \/ Flush \/ CloseCache
    \/ CloseDB \/ Exit

-----------------------------------------------------------------------------
(* The goroutines and the world around them. *)

(* A server that finds itself stopped closes its listener and returns an    *)
(* error that is not sent.                                                  *)
Serve(s) ==
    /\ \/ /\ server[s] = "starting" /\ Works
          /\ server' = [server EXCEPT ![s] = "serving"]
          /\ bound' = bound \cup {s} /\ UNCHANGED errCh
       \/ /\ server[s] = "starting" /\ Fault
          /\ server' = [server EXCEPT ![s] = "died"]
          /\ bound' = bound \ {s} /\ errCh' = errCh \cup {s}
       \/ /\ server[s] = "early" /\ Works
          /\ server' = [server EXCEPT ![s] = "stopped"]
          /\ bound' = bound \ {s} /\ UNCHANGED errCh
    /\ UNCHANGED <<bootVars, mainVars, cancelled, sweeper, req, queue>>

(* The listener breaks; connections it accepted live on. *)
Die(s) ==
    /\ server[s] = "serving"
    /\ Fault
    /\ server' = [server EXCEPT ![s] = "died"]
    /\ bound' = bound \ {s}
    /\ errCh' = errCh \cup {s}
    /\ UNCHANGED <<bootVars, mainVars, cancelled, sweeper, req, queue>>

Accept(r) ==
    /\ server[Over(r)] = "serving" /\ req[r] = "new"
    /\ req' = [req EXCEPT ![r] = "running"]
    /\ Works
    /\ UNCHANGED <<bootVars, mainVars, srvVars, cancelled, sweeper, queue>>

(* The handler returns; its event is queued unless the writer is closed. *)
Finish(r) ==
    /\ req[r] = "running"
    /\ req' = [req EXCEPT ![r] = "done"]
    /\ queue' = IF "kafka" \in opened THEN queue \cup {r} ELSE queue
    /\ Works
    /\ UNCHANGED <<bootVars, mainVars, srvVars, cancelled, sweeper>>

(* The writer delivers an event, or logs it when its attempts are used up. *)
Deliver(e) ==
    /\ main # "exited" /\ e \in queue
    /\ queue' = queue \ {e}
    /\ Works
    /\ UNCHANGED <<bootVars, mainVars, srvVars, cancelled, sweeper, req>>

(* With the context done and a tick waiting, select may take either. *)
SweeperTick ==
    /\ sweeper = "waiting"
    /\ sweeper' = "sweeping"
    /\ Works
    /\ UNCHANGED <<bootVars, mainVars, srvVars, cancelled, req, queue>>

SweepEnds ==
    /\ sweeper = "sweeping"
    /\ sweeper' = "waiting"
    /\ \/ UNCHANGED queue
       \/ "kafka" \in opened /\ queue' = queue \cup {Sweep}
    /\ Works
    /\ UNCHANGED <<bootVars, mainVars, srvVars, cancelled, req>>

(* Mutant: the sweeper is given the context that no signal ends. *)
SweeperDeaf == FALSE /\ UNCHANGED vars

SweeperStops ==
    /\ sweeper = "waiting" /\ cancelled
    /\ sweeper' = "stopped"
    /\ Works
    /\ UNCHANGED <<bootVars, mainVars, srvVars, cancelled, req, queue>>

(* SIGINT or SIGTERM, which NotifyContext catches only while it is active. *)
Signal ==
    /\ main # "exited"
    /\ IF main \in {"select", "grpcStop", "httpStop", "stop"}
       THEN /\ cancelled' = TRUE
            /\ Works
            /\ UNCHANGED <<bootVars, mainVars, srvVars, sweeper, req, queue>>
       ELSE Ends("killed")

(* Another replica, starting at the same time, makes the bucket. *)
OtherMakesBucket ==
    /\ ~bucket /\ main \in {"load", "openDB", "checkBucket", "makeBucket"}
    /\ bucket' = TRUE
    /\ Works
    /\ UNCHANGED <<env, cfg, mainVars, srvVars, cancelled, sweeper, req, queue>>

Terminated == main = "exited" /\ UNCHANGED vars

Next ==
    \/ Main
    \/ \E s \in Servers : Serve(s) \/ Die(s)
    \/ \E r \in Requests : Accept(r) \/ Finish(r)
    \/ \E e \in Requests \cup {Sweep} : Deliver(e)
    \/ SweeperTick \/ SweepEnds \/ SweeperStops
    \/ Signal \/ OtherMakesBucket \/ Terminated

(* Main and the server goroutines run; the Kafka writer gives up on an      *)
(* event after its attempts; a sweep ends; and select, which picks at       *)
(* random among what is ready, takes ctx.Done() in the end.  No client has  *)
(* to go on with its request, and nobody has to send a signal.              *)
Fairness ==
    /\ WF_vars(Main)
    /\ \A s \in Servers : WF_vars(Serve(s))
    /\ \A e \in Requests \cup {Sweep} : WF_vars(Deliver(e))
    /\ WF_vars(SweepEnds) /\ SF_vars(SweeperStops)

Spec     == Init /\ [][Next]_vars
FairSpec == Spec /\ Fairness

-----------------------------------------------------------------------------
Steps == {"load", "openDB", "checkBucket", "makeBucket", "pingCache", "tracing",
          "listen", "select", "grpcStop", "httpStop", "stop", "stopTracing",
          "closeKafka", "flush", "closeCache", "closeDB", "exit", "exited"}

(* Every variable holds a value of its kind, and the process never ends     *)
(* without an exit code of its own.                                         *)
TypeOK ==
    /\ env \in Envs
    /\ cfg \in {Load(e) : e \in Envs} \cup {Malformed}
    /\ main \in Steps
    /\ code \in {"none", "ok", "error", "killed"}
    /\ opened \subseteq {"db", "cache", "kafka", "tracer"}
    /\ bucket \in BOOLEAN
    /\ server \in [Servers -> {"off", "starting", "serving", "early", "stopped", "died"}]
    /\ bound \subseteq Servers
    /\ errCh \subseteq Servers
    /\ cancelled \in BOOLEAN
    /\ sweeper \in {"off", "waiting", "sweeping", "stopped"}
    /\ req \in [Requests -> {"new", "running", "done", "cut"}]
    /\ queue \subseteq Requests \cup {Sweep}
    /\ faults \in 0 .. MaxFaults
    /\ main \in {"exit", "exited"} => code # "none"

(* "The returned cleanup closes the resources and must always be called":   *)
(* whichever of its many returns runServe takes, the pools, the publisher   *)
(* and the tracer it had acquired until then are closed, and no event the   *)
(* publisher accepted is still waiting to be sent.  The two listeners are   *)
(* in no deferred call's hands: one is still open only if its server's      *)
(* goroutine had not come to Serve when the signal did, or if runServe      *)
(* returned because the other server died, which stops neither of them.     *)
AllReleased ==
    main = "exit" =>
        /\ opened = {} /\ queue = {}
        /\ \A s \in bound :
              \/ server[s] = "early"
              \/ code = "error" /\ \E t \in Servers \ {s} : server[t] = "died"

(* A request that was let in is never cut off, and never finds the stores   *)
(* closed under it, by an orderly shutdown: that takes a kill, a server     *)
(* that died, or (for HTTP alone) a request that outlasts the 15 seconds of *)
(* Shutdown.  An RPC is never the price of a slow HTTP request.             *)
OnlyFailureHarms ==
    \A r \in Requests :
        \/ req[r] = "cut"
        \/ req[r] = "running" /\ ~({"db", "cache"} \subseteq opened)
        => \/ code = "killed"
           \/ code = "error" /\ (r \in Https \/ faults > 0)

(* A request is only ever accepted by a process that has its database pool, *)
(* its cache and the publisher it was configured with, and whose bucket     *)
(* exists, until an error makes main tear them down.                        *)
ServesOnReadyStores ==
    (\E s \in Servers : server[s] = "serving") /\ code = "none" =>
        /\ bucket /\ {"db", "cache"} \subseteq opened
        /\ cfg.brokers # {} <=> "kafka" \in opened

(* A signal, or a server that dies, ends the process; the one thing that    *)
(* can hold it up for ever is an RPC whose client never lets it finish,     *)
(* since GracefulStop has no limit.                                         *)
ExitsUnlessStalled ==
    \/ cancelled \/ errCh # {} ~> main = "exited"
    \/ <>[](Running(Rpcs) # {})

(* "Stop serving and reaping when an OS signal arrives": the sweeper stops  *)
(* after a signal even while GracefulStop is held up.                       *)
ReapingStops == cancelled ~> sweeper \in {"off", "stopped"}
===============================================================================
