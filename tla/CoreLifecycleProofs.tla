------------------------ MODULE CoreLifecycleProofs ------------------------
(***************************************************************************)
(* Proofs about CoreLifecycle, for any number of IO threads and of boots.  *)
(*                                                                         *)
(* DependenciesOutlive alone is not inductive: that Observability can go   *)
(* without taking the ground from under the cache rests on the cache being *)
(* down already, which is a matter of how far the unwinding has come.  The *)
(* inductive invariant says, for each value of global_app, which           *)
(* subsystems are up at each step of initialize() and of shutdown().       *)
(***************************************************************************)
EXTENDS CoreLifecycle, TLAPS

Up(s) == global[s] = "ready"

Types ==
  /\ global \in [Subsystem -> {"null", "allocated", "ready"}]
  /\ app \in {"null", "booting", "ready", "unwinding"}
  /\ step \in 1..7
  /\ server \in {"off", "starting", "serving", "quitting", "returned"}

\* DependenciesOutlive with DependsOn written out.
Rests ==
  /\ Up("observability") => Up("config")
  /\ Up("migrations") => Up("config") /\ Up("database")
  /\ Up("database") => Up("config") /\ Up("observability")
  /\ Up("cache") => Up("config") /\ Up("observability")
  /\ Up("tasks") => Up("config") /\ Up("observability")
  /\ sinks # {} => Up("observability")
  /\ timers # {} => Up("tasks") /\ Up("database") /\ Up("observability")

\* initialize() has come to step: what it has passed is up, except that
\* migrations may be disabled, and nothing else is.
BootUpTo ==
  app = "booting" =>
    /\ Up("config") <=> step > 1
    /\ Up("observability") <=> step > 2
    /\ Up("database") <=> step > 3
    /\ Up("migrations") => step > 4
    /\ Up("cache") <=> step > 5
    /\ Up("tasks") <=> step > 6
    /\ timers = {} /\ server = "off"

\* A boot that completes in Full mode has brought up all that handlers use.
ReadyUp ==
  app = "ready" /\ mode = "Full" =>
    /\ Up("config") /\ Up("observability") /\ Up("database")
    /\ Up("cache") /\ Up("tasks")

\* shutdown() has come to step: what it has passed is down.
UnwoundTo ==
  app = "unwinding" =>
    /\ step > 1 => ~Up("tasks")
    /\ step > 2 => ~Up("cache")
    /\ step > 3 => ~Up("migrations")
    /\ step > 4 => ~Up("database")
    /\ step > 5 => ~Up("observability")
    /\ step > 6 => ~Up("config")

AllDown ==
  app = "null" => ~Up("config") /\ ~Up("observability") /\ ~Up("database")
                  /\ ~Up("migrations") /\ ~Up("cache") /\ ~Up("tasks")

\* Handlers run inside run(), and run() inside a complete Full boot.
ServesWhenReady ==
  /\ server \in {"starting", "serving", "quitting"} => app = "ready" /\ mode = "Full"
  /\ handling # {} => server \in {"serving", "quitting"}

LifeInv ==
  /\ Types /\ Rests /\ BootUpTo /\ ReadyUp /\ UnwoundTo /\ AllDown /\ ServesWhenReady
-----------------------------------------------------------------------------
\* Rests is DependenciesOutlive.
LEMMA RestsIsOutlive == Rests <=> DependenciesOutlive
  <1>1. /\ DependsOn["config"] = {}
        /\ DependsOn["observability"] = {"config"}
        /\ DependsOn["database"] = {"config", "observability"}
        /\ DependsOn["migrations"] = {"config", "database"}
        /\ DependsOn["cache"] = {"config", "observability"}
        /\ DependsOn["tasks"] = {"config", "observability"}
    BY DEF DependsOn, Subsystem
  <1>2. ASSUME Rests PROVE DependenciesOutlive
    <2>1. ASSUME NEW s \in Subsystem, is_initialized(s), NEW d \in DependsOn[s]
          PROVE  is_initialized(d)
      BY <1>1, <1>2, <2>1 DEF Rests, Up, is_initialized, Subsystem
    <2> QED
      BY <1>2, <2>1 DEF DependenciesOutlive, Rests, Up, is_initialized
  <1>3. ASSUME DependenciesOutlive PROVE Rests
    <2>1. \A s \in Subsystem : is_initialized(s) => \A d \in DependsOn[s] : is_initialized(d)
      BY <1>3 DEF DependenciesOutlive
    <2> QED
      BY <1>1, <1>3, <2>1 DEF DependenciesOutlive, Rests, Up, is_initialized, Subsystem
  <1> QED
    BY <1>2, <1>3

\* The positions of the subsystems in the two orders.
LEMMA Positions ==
  ASSUME step \in 1..7
  PROVE  /\ BootOrder[step] = "config" <=> step = 1
         /\ BootOrder[step] = "observability" <=> step = 2
         /\ BootOrder[step] = "database" <=> step = 3
         /\ BootOrder[step] = "migrations" <=> step = 4
         /\ BootOrder[step] = "cache" <=> step = 5
         /\ BootOrder[step] = "tasks" <=> step = 6
         /\ BootOrder[step] = "metrics" <=> step = 7
  <1>1. step = 1 \/ step = 2 \/ step = 3 \/ step = 4 \/ step = 5 \/ step = 6 \/ step = 7
    OBVIOUS
  <1> QED
    BY <1>1 DEF BootOrder
\* Only Observability and the database bind a sink.
LEMMA SinkFacts ==
  /\ SinkOf("config") = {} /\ SinkOf("migrations") = {}
  /\ SinkOf("cache") = {} /\ SinkOf("tasks") = {}
  BY DEF SinkOf

\* What a step of initialize() finds: the boot has come to s, which is not up.
LEMMA AtBootStep ==
  ASSUME LifeInv, app = "booting", NEW s \in Subsystem, s = BootOrder[step]
  PROVE  /\ step \in 1..6 /\ step + 1 \in 1..7
         /\ s = "config" <=> step = 1
         /\ s = "observability" <=> step = 2
         /\ s = "database" <=> step = 3
         /\ s = "migrations" <=> step = 4
         /\ s = "cache" <=> step = 5
         /\ s = "tasks" <=> step = 6
         /\ ~Up(s)
  <1>1. step \in 1..7
    BY DEF LifeInv, Types
  <1>2. /\ s = "config" <=> step = 1
        /\ s = "observability" <=> step = 2
        /\ s = "database" <=> step = 3
        /\ s = "migrations" <=> step = 4
        /\ s = "cache" <=> step = 5
        /\ s = "tasks" <=> step = 6
        /\ s = "metrics" <=> step = 7
    BY <1>1, Positions
  <1>3. step \in 1..6 /\ step + 1 \in 1..7
    BY <1>1, <1>2 DEF Subsystem
  <1>4. ~Up(s)
    BY <1>2, <1>3 DEF LifeInv, BootUpTo, Subsystem
  <1> QED
    BY <1>2, <1>3, <1>4

\* A subsystem whose predecessors are up may come up, with its sink or not,
\* when the state before it was sound.
LEMMA ComesUp ==
  ASSUME LifeInv, app = "booting", NEW s \in Subsystem, s = BootOrder[step],
         global' = [global EXCEPT ![s] = "ready"],
         sinks' = sinks \/ sinks' = sinks \cup SinkOf(s),
         timers' = timers
  PROVE  Rests' /\ global' \in [Subsystem -> {"null", "allocated", "ready"}]
         /\ \A t \in Subsystem : Up(t)' <=> (Up(t) \/ t = s)
  <1>1. \A t \in Subsystem : Up(t)' <=> (Up(t) \/ t = s)
    BY DEF LifeInv, Types, Up
  <1>2. /\ Up("config") <=> step > 1
        /\ Up("observability") <=> step > 2
        /\ Up("database") <=> step > 3
        /\ timers = {} /\ step \in 1..6
    BY AtBootStep DEF LifeInv, BootUpTo
  <1>3. sinks' # {} => Up("observability")'
    <2>1. CASE s \in {"config", "migrations", "cache", "tasks"}
      <3>1. sinks' = sinks
        BY <2>1, SinkFacts
      <3> QED
        BY <1>1, <3>1 DEF LifeInv, Rests, Subsystem
    <2>2. CASE s = "observability" \/ s = "database"
      BY <1>1, <1>2, <2>2, AtBootStep DEF Subsystem
    <2> QED
      BY <2>1, <2>2 DEF Subsystem
  <1>4. Rests'
    BY <1>1, <1>2, <1>3, AtBootStep DEF LifeInv, Rests, Subsystem
  <1> QED
    BY <1>1, <1>4 DEF LifeInv, Types

\* A step of initialize() that succeeds.
LEMMA BootKeeps ==
  ASSUME LifeInv, NEW s \in Subsystem, BootSubsystem(s)
  PROVE  LifeInv'
  <1>1. /\ app = "booting" /\ s = BootOrder[step]
        /\ UNCHANGED <<timers, mode, server, handling>>
    BY DEF BootSubsystem, serving
  <1>2. /\ step \in 1..6 /\ step + 1 \in 1..7
        /\ s = "config" <=> step = 1
        /\ s = "observability" <=> step = 2
        /\ s = "database" <=> step = 3
        /\ s = "migrations" <=> step = 4
        /\ s = "cache" <=> step = 5
        /\ s = "tasks" <=> step = 6
        /\ ~Up(s) /\ server = "off" /\ timers = {}
    BY <1>1, AtBootStep DEF LifeInv, BootUpTo
  <1>3. /\ Rests' /\ global' \in [Subsystem -> {"null", "allocated", "ready"}]
        /\ \/ \A t \in Subsystem : Up(t)' <=> (Up(t) \/ t = s)
           \/ s = "migrations" /\ \A t \in Subsystem : Up(t)' <=> Up(t)
    <2>1. CASE global' = [global EXCEPT ![s] = "ready"] /\ sinks' = sinks \cup SinkOf(s)
      BY <1>1, <2>1, ComesUp
    <2>2. CASE s = "migrations" /\ UNCHANGED <<global, sinks>>
      BY <1>1, <2>2 DEF LifeInv, Types, Rests, Up
    <2> QED
      BY <2>1, <2>2 DEF BootSubsystem
  <1>4. \/ app' = "ready" /\ mode = "MigrateOnly" /\ step' = step
        \/ app' = "booting" /\ step' = step + 1
    BY <1>1 DEF BootSubsystem
  <1>5. BootUpTo'
    BY <1>1, <1>2, <1>3, <1>4 DEF LifeInv, BootUpTo, Subsystem
  <1>6. ReadyUp' /\ UnwoundTo' /\ AllDown'
    BY <1>1, <1>4 DEF ReadyUp, UnwoundTo, AllDown
  <1>7. ServesWhenReady'
    BY <1>1, <1>2 DEF LifeInv, ServesWhenReady
  <1>8. Types'
    BY <1>1, <1>2, <1>3, <1>4 DEF LifeInv, Types
  <1> QED
    BY <1>3, <1>5, <1>6, <1>7, <1>8 DEF LifeInv

\* Core::shutdown or the unwinding of a boot begins: whatever is up, it rests
\* on what is up, and no handler runs.
LEMMA BeginsUnwinding ==
  ASSUME LifeInv, app' = "unwinding", step' = 1, Rests',
         global' \in [Subsystem -> {"null", "allocated", "ready"}],
         server \notin {"starting", "serving", "quitting"},
         UNCHANGED <<mode, server, handling>>
  PROVE  LifeInv'
  <1>1. Types' /\ ServesWhenReady'
    BY DEF LifeInv, Types, ServesWhenReady
  <1>2. BootUpTo' /\ ReadyUp' /\ UnwoundTo' /\ AllDown'
    BY DEF BootUpTo, ReadyUp, UnwoundTo, AllDown
  <1> QED
    BY <1>1, <1>2 DEF LifeInv

\* A step of initialize() that throws, at any of its points.
LEMMA ThrowKeeps ==
  ASSUME LifeInv, NEW s \in Subsystem, BootThrows(s)
  PROVE  LifeInv'
  <1>1. /\ app = "booting" /\ s = BootOrder[step] /\ app' = "unwinding" /\ step' = 1
        /\ UNCHANGED <<timers, mode, server, handling>>
    BY DEF BootThrows, serving
  <1>2. ~Up(s) /\ server = "off"
    BY <1>1, AtBootStep DEF LifeInv, BootUpTo
  <1>3. Rests' /\ global' \in [Subsystem -> {"null", "allocated", "ready"}]
    <2>1. CASE UNCHANGED <<global, sinks>>
      BY <1>1, <2>1 DEF LifeInv, Types, Rests, Up
    <2>2. CASE global' = [global EXCEPT ![s] = "allocated"] /\ UNCHANGED sinks
      <3>1. /\ global' \in [Subsystem -> {"null", "allocated", "ready"}]
            /\ \A t \in Subsystem : Up(t)' <=> Up(t)
        BY <1>2, <2>2 DEF LifeInv, Types, Up
      <3> QED
        BY <1>1, <2>2, <3>1 DEF LifeInv, Rests, Subsystem
    <2>3. CASE global' = [global EXCEPT ![s] = "ready"]
               /\ sinks' \in {sinks, sinks \cup SinkOf(s)}
      BY <1>1, <2>3, ComesUp
    <2> QED
      BY <2>1, <2>2, <2>3 DEF BootThrows
  <1> QED
    BY <1>1, <1>2, <1>3, BeginsUnwinding

\* The metrics step, complete or thrown out of.
LEMMA RegisterKeeps ==
  ASSUME LifeInv, (\E replicas \in BOOLEAN : RegisterMetrics(replicas)) \/ RegisterThrows
  PROVE  LifeInv'
  <1>1. /\ app = "booting" /\ BootOrder[step] = "metrics"
        /\ UNCHANGED <<global, sinks, mode, server, handling>>
        /\ \/ app' = "ready" /\ step' = step
           \/ app' = "unwinding" /\ step' = 1
    BY DEF RegisterMetrics, RegisterThrows, serving
  <1>2. step = 7
    BY <1>1, Positions DEF LifeInv, Types
  <1>3. /\ Up("config") /\ Up("observability") /\ Up("database") /\ Up("cache")
        /\ Up("tasks") /\ server = "off"
    BY <1>1, <1>2 DEF LifeInv, BootUpTo
  <1>4. Rests' /\ ReadyUp'
    BY <1>1, <1>3 DEF LifeInv, Rests, ReadyUp, Up
  <1>5. Types'
    BY <1>1 DEF LifeInv, Types
  <1>6. BootUpTo' /\ UnwoundTo' /\ AllDown'
    BY <1>1 DEF BootUpTo, UnwoundTo, AllDown
  <1>7. ServesWhenReady'
    BY <1>1, <1>3 DEF LifeInv, ServesWhenReady
  <1> QED
    BY <1>4, <1>5, <1>6, <1>7 DEF LifeInv
\* A step of shutdown() takes down a subsystem that nothing up rests on.
LEMMA ShutdownKeeps ==
  ASSUME LifeInv, NEW s \in Subsystem, ShutdownSubsystem(s)
  PROVE  LifeInv'
  <1>1. /\ app = "unwinding" /\ s = ShutdownOrder[step] /\ step \in 1..6
        /\ app' = app /\ step' = step + 1 /\ UNCHANGED <<mode, server, handling>>
    <2>1. Len(ShutdownOrder) = 6
      BY DEF ShutdownOrder
    <2> QED
      BY <2>1 DEF ShutdownSubsystem, serving, LifeInv, Types
  <1>2. /\ s = "tasks" <=> step = 1
        /\ s = "cache" <=> step = 2
        /\ s = "migrations" <=> step = 3
        /\ s = "database" <=> step = 4
        /\ s = "observability" <=> step = 5
        /\ s = "config" <=> step = 6
    <2>1. step = 1 \/ step = 2 \/ step = 3 \/ step = 4 \/ step = 5 \/ step = 6
      BY <1>1
    <2> QED
      BY <1>1, <2>1 DEF ShutdownOrder
  <1>3. /\ global' \in [Subsystem -> {"null", "allocated", "ready"}]
        /\ \A t \in Subsystem : Up(t)' <=> (Up(t) /\ t # s)
    BY DEF ShutdownSubsystem, is_initialized, LifeInv, Types, Up
  <1>4. /\ timers' = (IF s = "tasks" /\ Up(s) THEN {} ELSE timers)
        /\ sinks' = (IF s = "observability" /\ Up(s) THEN {} ELSE sinks)
    BY DEF ShutdownSubsystem, is_initialized, Up
  <1>5. UnwoundTo'
    BY <1>1, <1>2, <1>3 DEF LifeInv, UnwoundTo, Subsystem
  <1>6. Rests'
    <2>1. /\ step > 1 => ~Up("tasks")
          /\ step > 2 => ~Up("cache")
          /\ step > 3 => ~Up("migrations")
          /\ step > 4 => ~Up("database")
          /\ step > 5 => ~Up("observability")
      BY <1>1 DEF LifeInv, UnwoundTo
    <2>2. timers' # {} => Up("tasks")' /\ Up("database")' /\ Up("observability")'
      BY <1>1, <1>2, <1>3, <1>4, <2>1 DEF LifeInv, Rests, Subsystem
    <2>3. sinks' # {} => Up("observability")'
      BY <1>3, <1>4 DEF LifeInv, Rests, Subsystem
    <2> QED
      BY <1>1, <1>2, <1>3, <2>1, <2>2, <2>3 DEF LifeInv, Rests, Subsystem
  <1>7. Types'
    BY <1>1, <1>3 DEF LifeInv, Types
  <1>8. BootUpTo' /\ ReadyUp' /\ AllDown'
    BY <1>1 DEF BootUpTo, ReadyUp, AllDown
  <1>9. ServesWhenReady'
    BY <1>1 DEF LifeInv, ServesWhenReady
  <1> QED
    BY <1>5, <1>6, <1>7, <1>8, <1>9 DEF LifeInv

\* global_app is set, reset or asked to go.
LEMMA AppKeeps ==
  ASSUME LifeInv,
         (\E m \in {"Full", "MigrateOnly"} : BeginBoot(m)) \/ ResetApp
           \/ StopBeforeServing \/ TearDown
  PROVE  LifeInv'
  <1>1. UNCHANGED <<global, sinks, timers, server, handling>> /\ Rests'
    <2>1. UNCHANGED <<global, sinks, timers, server, handling>>
      BY DEF BeginBoot, ResetApp, StopBeforeServing, TearDown, serving
    <2> QED
      BY <2>1 DEF LifeInv, Rests, Up
  <1>2. CASE \E m \in {"Full", "MigrateOnly"} : BeginBoot(m)
    <2>1. app = "null" /\ app' = "booting" /\ step' = 1 /\ server = "off"
      BY <1>2 DEF BeginBoot
    <2>2. BootUpTo'
      BY <1>1, <2>1 DEF LifeInv, AllDown, Rests, BootUpTo, Up
    <2>3. ReadyUp' /\ UnwoundTo' /\ AllDown'
      BY <2>1 DEF ReadyUp, UnwoundTo, AllDown
    <2>4. Types' /\ ServesWhenReady'
      BY <1>1, <2>1 DEF LifeInv, Types, ServesWhenReady
    <2> QED
      BY <1>1, <2>2, <2>3, <2>4 DEF LifeInv
  <1>3. CASE ResetApp
    <2>1. app = "unwinding" /\ step > 6 /\ app' = "null" /\ step' = 1
      <3>1. Len(ShutdownOrder) = 6
        BY DEF ShutdownOrder
      <3> QED
        BY <1>3, <3>1 DEF ResetApp
    <2>2. AllDown'
      BY <1>1, <2>1 DEF LifeInv, Types, UnwoundTo, AllDown, Up
    <2>3. BootUpTo' /\ ReadyUp' /\ UnwoundTo'
      BY <2>1 DEF BootUpTo, ReadyUp, UnwoundTo
    <2>4. Types' /\ ServesWhenReady'
      BY <1>1, <2>1 DEF LifeInv, Types, ServesWhenReady
    <2> QED
      BY <1>1, <2>2, <2>3, <2>4 DEF LifeInv
  <1>4. CASE StopBeforeServing \/ TearDown
    <2>1. /\ app' = "unwinding" /\ step' = 1 /\ mode' = mode
          /\ server \notin {"starting", "serving", "quitting"}
      BY <1>4 DEF StopBeforeServing, TearDown
    <2> QED
      BY <1>1, <2>1, BeginsUnwinding DEF LifeInv, Types
  <1> QED
    BY <1>2, <1>3, <1>4

\* The server, its monitor, its handlers and the signal touch no subsystem.
LEMMA ServerKeeps ==
  ASSUME LifeInv,
         StartMonitor \/ RunLoop \/ Monitor \/ Signal \/ RunReturns \/ Exit \/ UNCHANGED vars
           \/ \E t \in IOThread : BeginRequest(t) \/ EndRequest(t)
  PROVE  LifeInv'
  <1>1. UNCHANGED <<global, sinks, timers, app, step, mode>>
    BY DEF StartMonitor, RunLoop, Monitor, MonitorSees, MonitorQuits, Signal, RunReturns, Exit,
           BeginRequest, EndRequest, vars, lifecycle
  <1>2. /\ server' \in {"off", "starting", "serving", "quitting", "returned"}
        /\ app = "booting" => server' = "off"
        /\ ServesWhenReady'
    <2>1. CASE StartMonitor \/ RunLoop
      BY <1>1, <2>1 DEF StartMonitor, RunLoop, LifeInv, Types, BootUpTo, ServesWhenReady
    <2>2. CASE Monitor
      BY <1>1, <2>2 DEF Monitor, MonitorSees, MonitorQuits, LifeInv, Types, BootUpTo,
                        ServesWhenReady
    <2>3. CASE Signal \/ Exit \/ UNCHANGED vars
      BY <1>1, <2>3 DEF Signal, Exit, vars, serving, LifeInv, Types, BootUpTo,
                        ServesWhenReady
    <2>4. CASE RunReturns
      BY <1>1, <2>4 DEF RunReturns, LifeInv, Types, BootUpTo, ServesWhenReady
    <2>5. CASE \E t \in IOThread : BeginRequest(t) \/ EndRequest(t)
      BY <1>1, <2>5 DEF BeginRequest, EndRequest, LifeInv, Types, BootUpTo,
                        ServesWhenReady
    <2> QED
      BY <2>1, <2>2, <2>3, <2>4, <2>5
  <1>3. Types' /\ Rests'
    BY <1>1, <1>2 DEF LifeInv, Types, Rests, Up
  <1>4. BootUpTo' /\ ReadyUp' /\ UnwoundTo' /\ AllDown'
    BY <1>1, <1>2 DEF LifeInv, BootUpTo, ReadyUp, UnwoundTo, AllDown, Up
  <1> QED
    BY <1>2, <1>3, <1>4 DEF LifeInv

\* The invariant of the boot, the service and the teardown.
LEMMA LifeInvariant == Spec => []LifeInv
  <1>1. Init => LifeInv
    BY DEF Init, LifeInv, Types, Rests, BootUpTo, ReadyUp, UnwoundTo, AllDown,
           ServesWhenReady, Up, Subsystem
  <1>2. LifeInv /\ [Next]_vars => LifeInv'
    <2> SUFFICES ASSUME LifeInv, [Next]_vars PROVE LifeInv'
      OBVIOUS
    <2>1. CASE Main
      BY <2>1, BootKeeps, ThrowKeeps, RegisterKeeps, ShutdownKeeps, AppKeeps, ServerKeeps
         DEF Main, Boot, Unwind
    <2>2. CASE \E m \in {"Full", "MigrateOnly"} : BeginBoot(m)
      BY <2>2, AppKeeps
    <2>3. CASE \/ Monitor \/ Signal \/ RunReturns \/ Exited \/ UNCHANGED vars
               \/ \E t \in IOThread : BeginRequest(t) \/ EndRequest(t)
      BY <2>3, ServerKeeps DEF Exited
    <2> QED
      BY <2>1, <2>2, <2>3 DEF Next
  <1> QED
    BY <1>1, <1>2, PTL DEF Spec
-----------------------------------------------------------------------------
\* Nothing outlives what it uses at any point of a boot, of the unwinding of
\* one that failed anywhere, or of a shutdown (Application::initialize and
\* Application::shutdown), sinks and timers included.
THEOREM NothingDangles == Spec => []DependenciesOutlive
  <1>1. LifeInv => DependenciesOutlive
    BY RestsIsOutlive DEF LifeInv
  <1> QED
    BY <1>1, LifeInvariant, PTL

\* However the signal, the monitor and the IO threads interleave, a handler
\* runs only while every subsystem it calls is up (run_server tears down after
\* run() has returned and the monitor is joined).
THEOREM HandlersSafe == Spec => []HandlersSeeAllSubsystems
  <1>1. LifeInv => HandlersSeeAllSubsystems
    <2> SUFFICES ASSUME LifeInv, handling # {} PROVE
                   app = "ready" /\ \A s \in Subsystem \ {"migrations"} : is_initialized(s)
      BY DEF HandlersSeeAllSubsystems
    <2>1. app = "ready" /\ mode = "Full"
      BY DEF LifeInv, ServesWhenReady
    <2> QED
      BY <2>1 DEF LifeInv, ReadyUp, Up, is_initialized, Subsystem
  <1> QED
    BY <1>1, LifeInvariant, PTL

\* When global_app is gone, after a shutdown or a failed boot, no subsystem
\* is left running, no sink bound and no timer scheduled.
THEOREM CleanSlate == Spec => []NothingLeftRunning
  <1>1. LifeInv => NothingLeftRunning
    <2> SUFFICES ASSUME LifeInv, app = "null"
                 PROVE  (\A s \in Subsystem : ~is_initialized(s)) /\ sinks = {} /\ timers = {}
      BY DEF NothingLeftRunning
    <2>1. \A s \in Subsystem : ~Up(s)
      BY DEF LifeInv, AllDown, Subsystem
    <2>2. sinks = {} /\ timers = {}
      BY <2>1 DEF LifeInv, Rests, Subsystem
    <2> QED
      BY <2>1, <2>2 DEF Up, is_initialized
  <1> QED
    BY <1>1, LifeInvariant, PTL
=============================================================================
