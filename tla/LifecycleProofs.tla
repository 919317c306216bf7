---------------------------- MODULE LifecycleProofs ----------------------------
(***************************************************************************)
(* What holds of a `dropcrate serve` process for any number of requests,   *)
(* environments and failures: every return of runServe releases what was   *)
(* acquired, an orderly shutdown harms no request, and nothing is served   *)
(* before its stores are there.                                            *)
(***************************************************************************)
EXTENDS Lifecycle, TLAPS

Booting == {"load", "openDB", "checkBucket", "makeBucket", "pingCache", "tracing",
            "listen"}
Up      == {"select", "grpcStop", "httpStop"}
Leaving == {"stop", "stopTracing", "closeKafka", "flush", "closeCache", "closeDB",
            "exit"}

(* TypeOK in two parts, for two kinds of reasoning. *)
Kinds ==
    /\ main \in Steps
    /\ code \in {"none", "ok", "error", "killed"}
    /\ opened \subseteq {"db", "cache", "kafka", "tracer"}
    /\ server \in [Servers -> {"off", "starting", "serving", "early", "stopped", "died"}]
    /\ bound \subseteq Servers
    /\ errCh \subseteq Servers
    /\ sweeper \in {"off", "waiting", "sweeping", "stopped"}
    /\ req \in [Requests -> {"new", "running", "done", "cut"}]
    /\ queue \subseteq Requests \cup {Sweep}
    /\ faults \in 0 .. MaxFaults
    /\ main \in {"exit", "exited"} => code # "none"
Settings ==
    /\ env \in Envs
    /\ cfg \in {Load(e) : e \in Envs} \cup {Malformed}
    /\ bucket \in BOOLEAN
    /\ cancelled \in BOOLEAN

(* No request gets in at s, now or later. *)
Shut(s) == server[s] \notin {"starting", "serving"}

(* Before the goroutines are started nothing runs; after the end nothing    *)
(* does either.                                                             *)
Quiet ==
    /\ main \in Booting =>
         /\ server = [s \in Servers |-> "off"] /\ sweeper = "off"
         /\ req = [r \in Requests |-> "new"] /\ queue = {} /\ errCh = {}
    /\ main = "exited" =>
         /\ server = [s \in Servers |-> "off"] /\ sweeper = "off"
         /\ Running(Requests) = {}

(* The exit code is known once main is on its way out. *)
CodeKnown ==
    /\ code = "none" <=> main \in Booting \cup Up
    /\ code = "killed" => main = "exited"
    /\ errCh # {} => faults > 0

(* What may be open at each step of the way in and of the way out. *)
HeldAtMost ==
    /\ main \in {"load", "openDB", "exit"} => opened = {}
    /\ main \in {"checkBucket", "makeBucket", "pingCache", "closeDB"} =>
         opened \subseteq {"db"}
    /\ main \in {"closeCache", "flush"} => opened \subseteq {"db", "cache"}
    /\ main \in {"tracing", "closeKafka"} => opened \subseteq {"db", "cache", "kafka"}
    /\ main = "exited" /\ code # "killed" => opened = {}

(* What must be: the way in adds one store after the other. *)
HeldAtLeast ==
    /\ main \in {"checkBucket", "makeBucket", "pingCache"} => "db" \in opened
    /\ main \in {"pingCache", "tracing", "listen"} \cup Up => bucket
    /\ main \in {"tracing", "listen"} \cup Up =>
         /\ {"db", "cache"} \subseteq opened
         /\ cfg.brokers # {} <=> "kafka" \in opened

(* The writer is empty from the end of its flush on. *)
Flushed ==
    /\ main \in {"closeCache", "closeDB", "exit"} => queue = {}
    /\ main = "exited" /\ code # "killed" => queue = {}

(* Which listeners are closed: those of the servers that have come to their *)
(* end.  A runServe that returns with an error has seen a server die or has *)
(* shut both.                                                               *)
PortsFreed ==
    /\ main \in Booting => bound = {}
    /\ main # "exited" => \A s \in bound : server[s] \notin {"off", "stopped", "died"}
    /\ main = "select" => \A s \in errCh : server[s] = "died"
    /\ main \in Leaving /\ code = "error" =>
         \/ \A s \in Servers : Shut(s)
         \/ \E s \in Servers : server[s] = "died"

(* What an orderly shutdown has waited for at each of its steps. *)
Drained ==
    /\ main \in {"grpcStop", "httpStop"} => Shut("grpc")
    /\ main = "httpStop" => Shut("http") /\ Running(Rpcs) = {}
    /\ main \in Leaving /\ code = "ok" =>
         Shut("grpc") /\ Shut("http") /\ Running(Requests) = {}
    /\ main \in Leaving /\ code = "error" /\ faults = 0 =>
         Shut("grpc") /\ Running(Rpcs) = {}

(* Who may have been cut off. *)
CutForAReason ==
    \A r \in Requests : req[r] = "cut" =>
        /\ main = "exited"
        /\ \/ code = "killed"
           \/ code = "error" /\ (r \in Https \/ faults > 0)

Inv ==
    /\ Kinds /\ Quiet /\ CodeKnown /\ HeldAtMost /\ HeldAtLeast /\ Flushed
    /\ PortsFreed /\ Drained /\ CutForAReason

USE DEF Servers, Requests, Running, Booting, Up, Leaving, Shut, Steps

LEMMA InitInv == Init => Inv
<1> SUFFICES ASSUME Init PROVE Inv
  OBVIOUS
<1> USE RequestsAssumption DEF Init
<1>1. Kinds
  BY DEF Kinds
<1>2. Quiet
  BY DEF Quiet
<1>3. CodeKnown /\ HeldAtMost
  BY DEF CodeKnown, HeldAtMost
<1>4. HeldAtLeast /\ Flushed
  BY DEF HeldAtLeast, Flushed
<1>5. Drained /\ CutForAReason
  BY DEF Drained, CutForAReason
<1>6. PortsFreed
  BY DEF PortsFreed
<1> QED
  BY <1>1, <1>2, <1>3, <1>4, <1>5, <1>6 DEF Inv

LEMMA NextInv == Inv /\ [Next]_vars => Inv'
<1> SUFFICES ASSUME Inv, [Next]_vars PROVE Inv'
  OBVIOUS
<1> USE RequestsAssumption DEF Inv, Kinds, Quiet, CodeKnown, HeldAtMost, HeldAtLeast, Flushed, PortsFreed, Drained, CutForAReason, Works, Fault, Goto, Return, BootOnly, Close, Ends, bootVars, mainVars, srvVars
<1>1. CASE LoadConfig
  BY <1>1 DEF LoadConfig
<1>2. CASE OpenDB
  <2>1. Kinds'
    <3>1. opened' \subseteq {"db", "cache", "kafka", "tracer"}
      BY <1>2 DEF OpenDB
    <3>2. faults' \in 0 .. MaxFaults
      BY <1>2 DEF OpenDB
    <3> QED
      BY <1>2, <3>1, <3>2 DEF OpenDB
  <2>2. Quiet' /\ CodeKnown'
    BY <1>2 DEF OpenDB
  <2>3. HeldAtMost'
    BY <1>2 DEF OpenDB
  <2>4. HeldAtLeast'
    BY <1>2 DEF OpenDB
  <2>5. Flushed'
    BY <1>2 DEF OpenDB
  <2>6. Drained'
    BY <1>2 DEF OpenDB
  <2>7. CutForAReason'
    BY <1>2 DEF OpenDB
  <2>8. PortsFreed'
    BY <1>2 DEF OpenDB
  <2> QED
    BY <2>1, <2>2, <2>3, <2>4, <2>5, <2>6, <2>7, <2>8 DEF Inv
<1>3. CASE CheckBucket
  BY <1>3 DEF CheckBucket
<1>4. CASE MakeBucket
  BY <1>4 DEF MakeBucket
<1>5. CASE PingCache
  <2>1. Kinds'
    <3>1. opened' \subseteq {"db", "cache", "kafka", "tracer"}
      BY <1>5 DEF PingCache
    <3>2. faults' \in 0 .. MaxFaults
      BY <1>5 DEF PingCache
    <3> QED
      BY <1>5, <3>1, <3>2 DEF PingCache
  <2>2. Quiet' /\ CodeKnown'
    BY <1>5 DEF PingCache
  <2>3. HeldAtMost'
    BY <1>5 DEF PingCache
  <2>4. HeldAtLeast'
    BY <1>5 DEF PingCache
  <2>5. Flushed'
    BY <1>5 DEF PingCache
  <2>6. Drained'
    BY <1>5 DEF PingCache
  <2>7. CutForAReason'
    BY <1>5 DEF PingCache
  <2>8. PortsFreed'
    BY <1>5 DEF PingCache
  <2> QED
    BY <2>1, <2>2, <2>3, <2>4, <2>5, <2>6, <2>7, <2>8 DEF Inv
<1>6. CASE SetupTracing
  <2>1. Kinds'
    <3>1. opened' \subseteq {"db", "cache", "kafka", "tracer"}
      <4>1. opened' = opened \/ opened' = opened \cup {"tracer"}
        BY <1>6, Zenon DEF SetupTracing
      <4> QED
        BY <4>1
    <3>2. faults' \in 0 .. MaxFaults
      BY <1>6 DEF SetupTracing
    <3> QED
      BY <1>6, <3>1, <3>2 DEF SetupTracing
  <2>2. Quiet' /\ CodeKnown'
    BY <1>6 DEF SetupTracing
  <2>3. HeldAtMost'
    BY <1>6 DEF SetupTracing
  <2>4. HeldAtLeast'
    BY <1>6 DEF SetupTracing
  <2>5. Flushed'
    BY <1>6 DEF SetupTracing
  <2>6. Drained'
    BY <1>6 DEF SetupTracing
  <2>7. CutForAReason'
    BY <1>6 DEF SetupTracing
  <2>8. PortsFreed'
    BY <1>6 DEF SetupTracing
  <2> QED
    BY <2>1, <2>2, <2>3, <2>4, <2>5, <2>6, <2>7, <2>8 DEF Inv
<1>7. CASE Listen
  <2>1. Kinds'
    <3>1. bound' \subseteq Servers
      <4>1. bound' = bound \/ bound' = {"grpc"}
        BY <1>7, Zenon DEF Listen
      <4> QED
        BY <4>1
    <3>2. server' \in [Servers -> {"off", "starting", "serving", "early", "stopped", "died"}]
      BY <1>7 DEF Listen
    <3>3. faults' \in 0 .. MaxFaults
      BY <1>7 DEF Listen
    <3> QED
      BY <1>7, <3>1, <3>2, <3>3 DEF Listen
  <2>2. Quiet' /\ CodeKnown'
    BY <1>7 DEF Listen
  <2>3. HeldAtMost' /\ HeldAtLeast' /\ Flushed'
    BY <1>7 DEF Listen
  <2>4. PortsFreed'
    <3>1. CASE main' = "select"
      <4>1. bound' = {"grpc"} /\ errCh' = {} /\ server' = [s \in Servers |-> "starting"]
        BY <1>7, <3>1 DEF Listen
      <4> QED
        BY <3>1, <4>1
    <3>2. CASE main' # "select"
      <4>1. main' = "stopTracing" /\ bound' = {} /\ server' = [s \in Servers |-> "off"]
        BY <1>7, <3>2 DEF Listen
      <4> QED
        BY <4>1
    <3> QED
      BY <3>1, <3>2
  <2>5. Drained' /\ CutForAReason'
    BY <1>7 DEF Listen
  <2> QED
    BY <2>1, <2>2, <2>3, <2>4, <2>5 DEF Inv
<1>8. CASE TakeError
  BY <1>8 DEF TakeError
<1>9. CASE TakeSignal
  <2>1. Kinds'
    <3>1. server' \in [Servers -> {"off", "starting", "serving", "early", "stopped", "died"}]
      BY <1>9 DEF TakeSignal
    <3> QED
      BY <1>9, <3>1 DEF TakeSignal
  <2>2. Quiet' /\ CodeKnown'
    BY <1>9 DEF TakeSignal
  <2>3. HeldAtMost' /\ HeldAtLeast' /\ Flushed'
    BY <1>9 DEF TakeSignal
  <2>4. PortsFreed'
    <3>1. server["grpc"] # "starting" => "grpc" \notin bound'
      BY <1>9 DEF TakeSignal
    <3>2. main' = "grpcStop" /\ bound' \subseteq bound /\ server'["http"] = server["http"]
      BY <1>9 DEF TakeSignal
    <3>3. server["grpc"] = "starting" => server'["grpc"] = "early"
      BY <1>9 DEF TakeSignal
    <3>4. ASSUME NEW t \in bound' PROVE server'[t] \notin {"off", "stopped", "died"}
      <4>1. CASE t = "grpc"
        BY <3>1, <3>2, <3>3, <3>4, <4>1
      <4>2. CASE t = "http"
        BY <1>9, <3>2, <3>4, <4>2 DEF TakeSignal
      <4> QED
        BY <3>2, <3>4, <4>1, <4>2
    <3> QED
      BY <3>2, <3>4
  <2>5. Drained'
    BY <1>9 DEF TakeSignal
  <2>6. CutForAReason'
    BY <1>9 DEF TakeSignal
  <2> QED
    BY <2>1, <2>2, <2>3, <2>4, <2>5, <2>6 DEF Inv
<1>10. CASE GrpcStopped
  BY <1>10 DEF GrpcStopped
<1>11. CASE HttpStopped
  BY <1>11 DEF HttpStopped
<1>12. CASE DeferredStop
  BY <1>12 DEF DeferredStop
<1>13. CASE StopTracing
  BY <1>13 DEF StopTracing
<1>14. CASE CloseKafka
  BY <1>14 DEF CloseKafka
<1>15. CASE Flush
  BY <1>15 DEF Flush
<1>16. CASE CloseCache
  BY <1>16 DEF CloseCache
<1>17. CASE CloseDB
  BY <1>17 DEF CloseDB
<1>18. CASE Exit
  BY <1>18 DEF Exit
<1>19. ASSUME NEW s \in Servers, Serve(s) PROVE Inv'
  <2>1. Kinds'
    <3>1. server' \in [Servers -> {"off", "starting", "serving", "early", "stopped", "died"}]
      BY <1>19 DEF Serve, Over
    <3>2. faults' \in 0 .. MaxFaults
      BY <1>19 DEF Serve, Over
    <3>3. errCh' \subseteq Servers
      BY <1>19 DEF Serve, Over
    <3> QED
      BY <1>19, <3>1, <3>2, <3>3 DEF Serve, Over
  <2>2. Quiet' /\ CodeKnown'
    BY <1>19 DEF Serve, Over
  <2>3. HeldAtMost'
    BY <1>19 DEF Serve, Over
  <2>4. HeldAtLeast'
    BY <1>19 DEF Serve, Over
  <2>5. Flushed'
    BY <1>19 DEF Serve, Over
  <2>6. Drained'
    BY <1>19 DEF Serve, Over
  <2>7. CutForAReason'
    BY <1>19 DEF Serve, Over
  <2>8. PortsFreed'
    <3>1. \A t \in Servers : t # s => server'[t] = server[t]
      BY <1>19 DEF Serve
    <3>2. /\ server[s] \in {"starting", "early"} /\ UNCHANGED <<main, code>>
          /\ server'[s] \in {"stopped", "died"} => s \notin bound'
          /\ server'[s] \in {"serving", "stopped", "died"}
          /\ bound' \subseteq bound \cup {s}
          /\ errCh' \subseteq errCh \cup {s}
          /\ s \in errCh' => s \in errCh \/ server'[s] = "died"
      BY <1>19 DEF Serve
    <3>3. ASSUME main # "exited", NEW t \in bound'
          PROVE  server'[t] \notin {"off", "stopped", "died"}
      <4>1. CASE t = s
        BY <3>2, <3>3, <4>1
      <4>2. CASE t # s
        <5>1. t \in Servers /\ t \in bound
          BY <3>2, <3>3, <4>2
        <5> QED
          BY <3>1, <3>3, <4>2, <5>1
      <4> QED
        BY <4>1, <4>2
    <3>4. main = "select" => \A t \in errCh' : server'[t] = "died"
      BY <3>1, <3>2
    <3>5. main \in Leaving /\ code = "error" =>
            \/ \A t \in Servers : Shut(t)'
            \/ \E t \in Servers : server'[t] = "died"
      <4>1. CASE \A t \in Servers : Shut(t)
        <5>1. server'[s] \in {"stopped", "died"}
          BY <1>19, <4>1 DEF Serve
        <5> QED
          BY <3>1, <4>1, <5>1
      <4>2. CASE \E t \in Servers : server[t] = "died"
        BY <3>1, <3>2, <4>2
      <4> QED
        BY <4>1, <4>2
    <3>6. main \notin Booting
      BY <3>2
    <3> QED
      BY <3>2, <3>3, <3>4, <3>5, <3>6
  <2> QED
    BY <2>1, <2>2, <2>3, <2>4, <2>5, <2>6, <2>7, <2>8 DEF Inv
<1>20. ASSUME NEW s \in Servers, Die(s) PROVE Inv'
  BY <1>20 DEF Die, Over
<1>21. ASSUME NEW r \in Requests, Accept(r) PROVE Inv'
  BY <1>21 DEF Accept, Over
<1>22. ASSUME NEW r \in Requests, Finish(r) PROVE Inv'
  BY <1>22 DEF Finish, Over
<1>23. ASSUME NEW e \in Requests \cup {Sweep}, Deliver(e) PROVE Inv'
  BY <1>23 DEF Deliver, Over
<1>24. CASE SweeperTick
  BY <1>24 DEF SweeperTick
<1>25. CASE SweepEnds
  BY <1>25 DEF SweepEnds
<1>26. CASE SweeperStops
  BY <1>26 DEF SweeperStops
<1>27. CASE Signal
  <2>1. Kinds'
    <3>1. req' \in [Requests -> {"new", "running", "done", "cut"}]
      BY <1>27 DEF Signal
    <3>2. server' \in [Servers -> {"off", "starting", "serving", "early", "stopped", "died"}]
      BY <1>27 DEF Signal
    <3>3. main' \in Steps /\ code' \in {"none", "ok", "error", "killed"}
      BY <1>27 DEF Signal
    <3> QED
      BY <1>27, <3>1, <3>2, <3>3 DEF Signal
  <2>2. Quiet' /\ CodeKnown'
    BY <1>27 DEF Signal
  <2>3. HeldAtMost'
    BY <1>27 DEF Signal
  <2>4. HeldAtLeast'
    BY <1>27 DEF Signal
  <2>5. Flushed'
    BY <1>27 DEF Signal
  <2>6. Drained'
    BY <1>27 DEF Signal
  <2>7. CutForAReason'
    BY <1>27 DEF Signal
  <2>8. PortsFreed'
    <3>1. CASE UNCHANGED <<bound, server, main, code, errCh>>
      BY <3>1
    <3>2. CASE main' = "exited"
      BY <3>2
    <3> QED
      BY <1>27, <3>1, <3>2 DEF Signal
  <2> QED
    BY <2>1, <2>2, <2>3, <2>4, <2>5, <2>6, <2>7, <2>8 DEF Inv
<1>28. CASE OtherMakesBucket
  BY <1>28 DEF OtherMakesBucket
<1>29. CASE UNCHANGED vars
  BY <1>29 DEF vars
<1> QED
  BY <1>1, <1>2, <1>3, <1>4, <1>5, <1>6, <1>7, <1>8, <1>9, <1>10, <1>11, <1>12, <1>13, <1>14, <1>15, <1>16, <1>17, <1>18, <1>19, <1>20, <1>21, <1>22, <1>23, <1>24, <1>25, <1>26, <1>27, <1>28, <1>29 DEF Next, Main, Terminated

LEMMA SpecInv == Spec => []Inv
BY InitInv, NextInv, PTL DEF Spec

(* The settings change in few places: the configuration is loaded once, the *)
(* bucket and the end of the context only come.                             *)
LEMMA NextSettings == Settings /\ [Next]_vars => Settings'
<1> SUFFICES ASSUME Settings, [Next]_vars PROVE Settings'
  OBVIOUS
<1> USE DEF Next, Main, Terminated, vars, bootVars, mainVars, srvVars, BootOnly,
     Close, Ends, LoadConfig, OpenDB, CheckBucket, MakeBucket, PingCache, SetupTracing,
     Listen, TakeError, TakeSignal, GrpcStopped, HttpStopped, DeferredStop,
     StopTracing, CloseKafka, Flush, CloseCache, CloseDB, Exit, Serve, Die, Accept,
     Finish, Deliver, SweeperTick, SweepEnds, SweeperStops, Signal, OtherMakesBucket
<1>1. env' = env
  BY Zenon
<1>2. cfg' = cfg \/ cfg' = Load(env)
  BY Zenon
<1>3. bucket' = bucket \/ bucket' = TRUE
  BY Zenon
<1>4. cancelled' = cancelled \/ cancelled' = TRUE
  BY Zenon
<1> QED
  BY <1>1, <1>2, <1>3, <1>4, Zenon DEF Settings

(* The type invariant: also, that no path ends without an exit code. *)
THEOREM TypeCorrect == Spec => []TypeOK
<1>1. Init => Settings
  BY Zenon DEF Init, Settings
<1>2. Spec => []Settings
  BY <1>1, NextSettings, PTL DEF Spec
<1>3. Inv /\ Settings => TypeOK
  BY Zenon DEF Inv, Kinds, Settings, TypeOK
<1> QED
  BY <1>2, <1>3, SpecInv, PTL

(* Whichever return runServe takes, its deferred calls have closed the      *)
(* stores, the publisher and the tracer, and the publisher's queue is       *)
(* flushed; the listeners are closed too unless a server died or was never  *)
(* begun.                                                                   *)
THEOREM EverythingReleased == Spec => []AllReleased
<1>1. Inv => AllReleased
  <2> SUFFICES ASSUME Inv, main = "exit"
               PROVE  /\ opened = {} /\ queue = {}
                      /\ \A s \in bound :
                            \/ server[s] = "early"
                            \/ code = "error" /\ \E t \in Servers \ {s} : server[t] = "died"
    BY DEF AllReleased
  <2>1. opened = {} /\ queue = {}
    BY DEF Inv, HeldAtMost, Flushed
  <2>2. ASSUME NEW s \in bound, server[s] # "early"
        PROVE  code = "error" /\ \E t \in Servers \ {s} : server[t] = "died"
    <3>1. s \in Servers /\ ~Shut(s) /\ server[s] # "died"
      BY <2>2 DEF Inv, Kinds, PortsFreed
    <3>2. code = "error"
      BY <3>1 DEF Inv, Kinds, CodeKnown, Drained
    <3> QED
      BY <3>1, <3>2 DEF Inv, PortsFreed
  <2> QED
    BY <2>1, <2>2
<1> QED
  BY <1>1, SpecInv, PTL

(* No request is cut off or loses its stores through an orderly shutdown.   *)
THEOREM ShutdownHarmsNobody == Spec => []OnlyFailureHarms
<1>1. Inv => OnlyFailureHarms
  BY DEF Inv, Kinds, Quiet, CodeKnown, HeldAtLeast, Drained, CutForAReason,
     OnlyFailureHarms
<1> QED
  BY <1>1, SpecInv, PTL

(* Nothing is accepted before every store is there.                         *)
THEOREM StoresFirst == Spec => []ServesOnReadyStores
<1>1. Inv => ServesOnReadyStores
  BY DEF Inv, Kinds, Quiet, CodeKnown, HeldAtLeast, ServesOnReadyStores
<1> QED
  BY <1>1, SpecInv, PTL

-----------------------------------------------------------------------------
(* The way to the exit *)

(* How many statements of runServe are at most left. *)
StepsToExit(step) ==
    CASE step = "load"        -> 17
      [] step = "openDB"      -> 16
      [] step = "checkBucket" -> 15
      [] step = "makeBucket"  -> 14
      [] step = "pingCache"   -> 13
      [] step = "tracing"     -> 12
      [] step = "listen"      -> 11
      [] step = "select"      -> 10
      [] step = "grpcStop"    -> 9
      [] step = "httpStop"    -> 8
      [] step = "stop"        -> 7
      [] step = "stopTracing" -> 6
      [] step = "closeKafka"  -> 5
      [] step = "flush"       -> 4
      [] step = "closeCache"  -> 3
      [] step = "closeDB"     -> 2
      [] step = "exit"        -> 1
      [] OTHER                -> 0

(* The statements of runServe in their order, with its early returns. *)
LeadsTo(a, b) ==
    \/ a = "load"        /\ b \in {"openDB", "exit"}
    \/ a = "openDB"      /\ b \in {"checkBucket", "exit"}
    \/ a = "checkBucket" /\ b \in {"makeBucket", "pingCache", "closeDB"}
    \/ a = "makeBucket"  /\ b \in {"pingCache", "closeDB"}
    \/ a = "pingCache"   /\ b \in {"tracing", "closeCache"}
    \/ a = "tracing"     /\ b \in {"listen", "closeKafka"}
    \/ a = "listen"      /\ b \in {"select", "stopTracing"}
    \/ a = "select"      /\ b \in {"grpcStop", "stop"}
    \/ a = "grpcStop"    /\ b = "httpStop"
    \/ a = "httpStop"    /\ b = "stop"
    \/ a = "stop"        /\ b = "stopTracing"
    \/ a = "stopTracing" /\ b = "closeKafka"
    \/ a = "closeKafka"  /\ b = "flush"
    \/ a = "flush"       /\ b = "closeCache"
    \/ a = "closeCache"  /\ b = "closeDB"
    \/ a = "closeDB"     /\ b = "exit"
    \/ a \in Steps \ {"exited"} /\ b = "exited"

LEMMA LeadsToFalls ==
    ASSUME NEW a, NEW b, LeadsTo(a, b)
    PROVE  StepsToExit(b) < StepsToExit(a)
  BY DEF LeadsTo, StepsToExit

LEMMA MainLeads == Inv /\ Main => LeadsTo(main, main')
<1> SUFFICES ASSUME Inv, Main PROVE LeadsTo(main, main')
  OBVIOUS
<1> USE DEF LeadsTo, Goto, Return, Close, Ends
<1>1. CASE LoadConfig \/ OpenDB \/ CheckBucket \/ MakeBucket
  BY <1>1 DEF LoadConfig, OpenDB, CheckBucket, MakeBucket
<1>2. CASE PingCache \/ SetupTracing \/ Listen
  BY <1>2 DEF PingCache, SetupTracing, Listen
<1>3. CASE TakeError \/ TakeSignal \/ GrpcStopped \/ HttpStopped \/ DeferredStop
  BY <1>3 DEF TakeError, TakeSignal, GrpcStopped, HttpStopped, DeferredStop
<1>4. CASE StopTracing \/ CloseKafka \/ Flush \/ CloseCache \/ CloseDB \/ Exit
  BY <1>4 DEF StopTracing, CloseKafka, Flush, CloseCache, CloseDB, Exit
<1> QED
  BY <1>1, <1>2, <1>3, <1>4 DEF Main

(* What the goroutines and the world do, main aside. *)
Beside ==
    \/ \E s \in Servers : Serve(s) \/ Die(s)
    \/ \E r \in Requests : Accept(r) \/ Finish(r)
    \/ \E e \in Requests \cup {Sweep} : Deliver(e)
    \/ SweeperTick \/ SweepEnds \/ SweeperStops
    \/ Signal \/ OtherMakesBucket \/ Terminated

(* The process has been told to end: by a signal, or by a server's error    *)
(* that waits or that main has taken.                                       *)
MustEnd == cancelled \/ errCh # {} \/ main \notin Booting \cup {"select"}

(* The writer is closed: nothing is queued behind its flush. *)
WriterClosed ==
    main \in {"flush", "closeCache", "closeDB", "exit", "exited"}

(* The safety half of ExitsUnlessStalled and ReapingStops: runServe goes    *)
(* down its statements and its deferred calls without a way back, at most   *)
(* seventeen steps; nothing takes back a signal or the loss of a server;    *)
(* the flush main waits for gets no new events; and a sweeper that has      *)
(* stopped is not started again.                                            *)
THEOREM NoWayBack ==
    Spec => [][/\ Main \/ main' # main => StepsToExit(main') < StepsToExit(main)
               /\ MustEnd => MustEnd'
               /\ cancelled => cancelled'
               /\ WriterClosed => queue' \subseteq queue
               /\ sweeper = "stopped" => sweeper' \in {"stopped", "off"}]_vars
<1>1. ASSUME Inv, [Next]_vars
      PROVE  /\ Main \/ main' # main => StepsToExit(main') < StepsToExit(main)
             /\ MustEnd => MustEnd'
             /\ cancelled => cancelled'
             /\ WriterClosed => queue' \subseteq queue
             /\ sweeper = "stopped" => sweeper' \in {"stopped", "off"}
  <2>1. Main \/ main' # main => LeadsTo(main, main')
    <3>1. CASE Main
      BY <1>1, <3>1, MainLeads
    <3>2. CASE Beside
      <4>1. main' = main \/ (main # "exited" /\ main' = "exited")
        BY <3>2
           DEF Beside, Serve, Die, Accept, Finish, Deliver, SweeperTick, SweepEnds,
               SweeperStops, Signal, OtherMakesBucket, Terminated, mainVars, vars,
               Ends
      <4>2. main \in Steps
        BY <1>1 DEF Inv, Kinds
      <4>3. main' # main => LeadsTo(main, main')
        BY <4>1, <4>2 DEF LeadsTo
      <4> QED
        BY <3>1, <4>3
    <3> QED
      BY <1>1, <3>1, <3>2 DEF Next, Beside, vars, mainVars
  <2>2. /\ cancelled => cancelled'
        /\ errCh \subseteq errCh' \/ main' = "stop"
        /\ WriterClosed => queue' \subseteq queue
        /\ sweeper = "stopped" => sweeper' \in {"stopped", "off"}
    <3> USE <1>1
        DEF Next, Main, Terminated, vars, srvVars, BootOnly, Close, Ends, Return,
            LoadConfig, OpenDB, CheckBucket, MakeBucket, PingCache, SetupTracing,
            Listen, TakeError, TakeSignal, GrpcStopped, HttpStopped, DeferredStop,
            StopTracing, CloseKafka, Flush, CloseCache, CloseDB, Exit, Serve, Die,
            Accept, Finish, Deliver, SweeperTick, SweepEnds, SweeperStops, Signal,
            OtherMakesBucket
    <3>1. cancelled => cancelled'
      BY Zenon
    <3>2. errCh \subseteq errCh' \/ main' = "stop"
      OBVIOUS
    <3>3. ASSUME WriterClosed PROVE queue' \subseteq queue
      <4>1. CASE main = "exited"
        BY <4>1 DEF Inv, Quiet
      <4>2. CASE main # "exited"
        <5>1. "kafka" \notin opened
          BY <3>3, <4>2 DEF Inv, HeldAtMost, WriterClosed
        <5> QED
          BY <5>1
      <4> QED
        BY <4>1, <4>2
    <3>4. sweeper = "stopped" => sweeper' \in {"stopped", "off"}
      BY DEF Inv, Quiet
    <3> QED
      BY <3>1, <3>2, <3>3, <3>4
  <2>3. MustEnd => MustEnd'
    BY <2>1, <2>2 DEF MustEnd, LeadsTo
  <2> QED
    BY <2>1, <2>2, <2>3, LeadsToFalls
<1> QED
  BY <1>1, SpecInv, PTL DEF Spec
===============================================================================
