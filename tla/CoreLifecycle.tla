---------------------------- MODULE CoreLifecycle ----------------------------
(***************************************************************************)
(* Core::Application (core/Core.hpp) and run_server / run_migrate_only     *)
(* (main.cpp): boot one subsystem after the other, unwind when one of them *)
(* throws, serve, drain on a signal, tear down.  The main thread, the      *)
(* shutdown monitor, the IO threads and the signal handler interleave.     *)
(***************************************************************************)
EXTENDS Naturals, Sequences

CONSTANTS
  IOThread,  \* Drogon's IO threads, each runs one handler at a time
  MaxBoots   \* calls of Core::initialize in one process

ASSUME CoreAssumption == MaxBoots \in Nat

VARIABLES
  global,         \* each subsystem's global: "null", "allocated", "ready"
  sinks,          \* metric sinks bound to families of the metrics registry
  timers,         \* recurring tasks scheduled on the event loop
  app,            \* global_app: "null", "booting", "ready", "unwinding"
  step,           \* the next step of initialize() or of shutdown()
  mode,           \* InitMode
  boots,          \* calls of Core::initialize so far
  server,         \* run(): "off", "starting", "serving", "quitting", "returned"
  monitor,        \* the monitor thread: "none", "watching", "delaying", "done"
  requested,      \* shutdown_requested
  shutting_down,  \* shutting_down_flag
  handling,       \* the IO threads inside a handler
  exited          \* the process is over

lifecycle == <<global, sinks, timers, app, step, mode, boots>>
serving   == <<server, monitor, shutting_down, handling>>
vars      == <<lifecycle, serving, requested, exited>>

BootOrder  == <<"config", "observability", "database", "migrations", "cache", "tasks", "metrics">>
Subsystem  == {"config", "observability", "database", "migrations", "cache", "tasks"}
\* The subsystems a subsystem's own code calls into.
DependsOn  == [s \in Subsystem |->
                CASE s = "config"        -> {}
                  [] s = "observability" -> {"config"}
                  [] s = "migrations"    -> {"config", "database"}
                  [] OTHER               -> {"config", "observability"}]
SinkOf(s)  == CASE s = "observability" -> {"retry"}
                [] s = "database"      -> {"query"}
                [] OTHER               -> {}
Timer      == {"db_pool_metric_refresh", "db_replica_lag_refresh"}

is_initialized(s) == global[s] = "ready"
-----------------------------------------------------------------------------
(* Core::initialize                                                        *)

BeginBoot(m) ==
  /\ ~exited /\ app = "null" /\ server = "off" /\ boots < MaxBoots
  /\ app' = "booting" /\ step' = 1 /\ mode' = m /\ boots' = boots + 1
  /\ UNCHANGED <<global, sinks, timers, serving, requested, exited>>

\* A subsystem comes up; its global was null.  Migrations may be disabled.
BootSubsystem(s) ==
  /\ app = "booting" /\ s = BootOrder[step] /\ s \in Subsystem
  /\ \/ /\ global[s] = "null"
        /\ global' = [global EXCEPT ![s] = "ready"] /\ sinks' = sinks \cup SinkOf(s)
     \/ s = "migrations" /\ mode = "Full" /\ UNCHANGED <<global, sinks>>
  /\ IF s = "migrations" /\ mode = "MigrateOnly"
     THEN app' = "ready" /\ UNCHANGED step
     ELSE step' = step + 1 /\ UNCHANGED app
  /\ UNCHANGED <<timers, mode, boots, serving, requested, exited>>

\* A bug: a boot that failed is not unwound.
BootThrowsNoUnwind(s) ==
  /\ app = "booting" /\ s = BootOrder[step] /\ s \in Subsystem
  /\ global' = [global EXCEPT ![s] = IF @ = "null" THEN "allocated" ELSE @] /\ UNCHANGED sinks
  /\ app' = "null" /\ step' = 1
  /\ UNCHANGED <<timers, mode, boots, serving, requested, exited>>

\* A subsystem's initializer throws: at once because its global is not null or
\* a setting does not parse; inside, when the global is already allocated
\* (config's is only set once it has loaded); or after it is up, with its sink
\* bound or not yet.
BootThrows(s) ==
  /\ app = "booting" /\ s = BootOrder[step] /\ s \in Subsystem
  /\ \/ global[s] # "null" /\ UNCHANGED <<global, sinks>>
     \/ s \in {"config", "database", "cache"} /\ UNCHANGED <<global, sinks>>
     \/ /\ global[s] = "null" /\ s \in {"observability", "database", "migrations", "cache"}
        /\ global' = [global EXCEPT ![s] = "allocated"] /\ UNCHANGED sinks
     \/ /\ global[s] = "null" /\ s \in {"observability", "database"}
        /\ global' = [global EXCEPT ![s] = "ready"]
        /\ sinks' \in {sinks, sinks \cup SinkOf(s)}
  /\ app' = "unwinding" /\ step' = 1
  /\ UNCHANGED <<timers, mode, boots, serving, requested, exited>>

\* register_db_pool_metric_, register_replication_lag_metric_ (only with a
\* replica) and register_default_health_checks_: the boot is complete.
RegisterMetrics(replicas) ==
  /\ app = "booting" /\ BootOrder[step] = "metrics"
  /\ timers' = IF replicas THEN Timer ELSE {"db_pool_metric_refresh"}
  /\ app' = "ready"
  /\ UNCHANGED <<global, sinks, step, mode, boots, serving, requested, exited>>

\* A refresh interval does not parse, with no timer or with the first one set.
RegisterThrows ==
  /\ app = "booting" /\ BootOrder[step] = "metrics"
  /\ timers' \in {{}, {"db_pool_metric_refresh"}}
  /\ app' = "unwinding" /\ step' = 1
  /\ UNCHANGED <<global, sinks, mode, boots, serving, requested, exited>>
-----------------------------------------------------------------------------
(* Application::shutdown, after a signal or to unwind a partial boot       *)

ShutdownOrder == <<"tasks", "cache", "migrations", "database", "observability", "config">>

\* A bug: the sinks stay bound to a registry that is about to be freed.
ShutdownKeepsSinks(s) ==
  /\ app = "unwinding" /\ step <= Len(ShutdownOrder) /\ s = ShutdownOrder[step]
  /\ global' = IF is_initialized(s) THEN [global EXCEPT ![s] = "null"] ELSE global
  /\ timers' = IF s = "tasks" /\ is_initialized(s) THEN {} ELSE timers
  /\ step' = step + 1
  /\ UNCHANGED <<sinks, app, mode, boots, serving, requested, exited>>

\* Each subsystem that is_initialized() is shut down: Tasks cancels its timers,
\* and both sinks are reset right before Observability goes.
ShutdownSubsystem(s) ==
  /\ app = "unwinding" /\ step <= Len(ShutdownOrder) /\ s = ShutdownOrder[step]
  /\ global' = IF is_initialized(s) THEN [global EXCEPT ![s] = "null"] ELSE global
  /\ timers' = IF s = "tasks" /\ is_initialized(s) THEN {} ELSE timers
  /\ sinks' = IF s = "observability" /\ is_initialized(s) THEN {} ELSE sinks
  /\ step' = step + 1
  /\ UNCHANGED <<app, mode, boots, serving, requested, exited>>

\* global_app.reset(), in Core::shutdown and in the handler of Core::initialize.
ResetApp ==
  /\ app = "unwinding" /\ step > Len(ShutdownOrder)
  /\ app' = "null" /\ step' = 1
  /\ UNCHANGED <<global, sinks, timers, mode, boots, serving, requested, exited>>
-----------------------------------------------------------------------------
(* main.cpp                                                                *)

Signal ==
  /\ ~exited /\ ~requested
  /\ requested' = TRUE
  /\ UNCHANGED <<lifecycle, serving, exited>>

\* The settings are read, the controllers registered and the monitor started.
StartMonitor ==
  /\ app = "ready" /\ mode = "Full" /\ server = "off"
  /\ server' = "starting" /\ monitor' = "watching"
  /\ UNCHANGED <<lifecycle, shutting_down, handling, requested, exited>>

\* run() has its event loop running: from here quit() finds it.
RunLoop ==
  /\ server = "starting"
  /\ server' = "serving"
  /\ UNCHANGED <<lifecycle, monitor, shutting_down, handling, requested, exited>>

\* run_migrate_only is done, or a setting of run_server does not parse and
\* main() catches the exception: Core::shutdown either way.
StopBeforeServing ==
  /\ app = "ready" /\ server = "off"
  /\ app' = "unwinding" /\ step' = 1
  /\ UNCHANGED <<global, sinks, timers, mode, boots, serving, requested, exited>>

\* The monitor sees the flag and begin_shutdown() turns readiness off.
MonitorSees ==
  /\ monitor = "watching" /\ requested
  /\ monitor' = "delaying" /\ shutting_down' = TRUE
  /\ UNCHANGED <<lifecycle, server, handling, requested, exited>>

\* The pre-stop delay, which may be 0, is over: quit(), which does nothing to a
\* loop that does not run (external: Drogon).
MonitorQuits ==
  /\ monitor = "delaying"
  /\ monitor' = "done"
  /\ server' = IF server = "serving" THEN "quitting" ELSE server
  /\ UNCHANGED <<lifecycle, shutting_down, handling, requested, exited>>

\* A bug: the monitor is joined although nothing told it to stop.
RunReturnsSilently ==
  /\ server \in {"serving", "quitting"} /\ handling = {}
  /\ server' = "returned"
  /\ UNCHANGED <<lifecycle, monitor, shutting_down, handling, requested, exited>>

\* run() returns when it was told to, or for a reason of its own, and only once
\* no handler runs on the IO threads (external: Drogon); main sets the flag.
RunReturns ==
  /\ server \in {"serving", "quitting"} /\ handling = {}
  /\ server' = "returned" /\ requested' = TRUE
  /\ UNCHANGED <<lifecycle, monitor, shutting_down, handling, exited>>

\* A bug: the subsystems are torn down as soon as the monitor is done.
TearDownEarly ==
  /\ app = "ready" /\ server # "off" /\ monitor = "done"
  /\ app' = "unwinding" /\ step' = 1
  /\ UNCHANGED <<global, sinks, timers, mode, boots, serving, requested, exited>>

\* run() has returned and the monitor is joined: Core::shutdown.
TearDown ==
  /\ app = "ready" /\ server = "returned" /\ monitor = "done"
  /\ app' = "unwinding" /\ step' = 1
  /\ UNCHANGED <<global, sinks, timers, mode, boots, serving, requested, exited>>

Exit ==
  /\ ~exited /\ app = "null" /\ boots > 0
  /\ exited' = TRUE
  /\ UNCHANGED <<lifecycle, serving, requested>>

BeginRequest(t) ==
  /\ server = "serving" /\ t \notin handling
  /\ handling' = handling \cup {t}
  /\ UNCHANGED <<lifecycle, server, monitor, shutting_down, requested, exited>>

EndRequest(t) ==
  /\ t \in handling
  /\ handling' = handling \ {t}
  /\ UNCHANGED <<lifecycle, server, monitor, shutting_down, requested, exited>>

Exited == exited /\ UNCHANGED vars
-----------------------------------------------------------------------------
Init ==
  /\ global = [s \in Subsystem |-> "null"] /\ sinks = {} /\ timers = {}
  /\ app = "null" /\ step = 1 /\ mode = "Full" /\ boots = 0
  /\ server = "off" /\ monitor = "none" /\ shutting_down = FALSE /\ handling = {}
  /\ requested = FALSE /\ exited = FALSE

Boot == \/ \E s \in Subsystem : BootSubsystem(s) \/ BootThrows(s)
        \/ (\E replicas \in BOOLEAN : RegisterMetrics(replicas)) \/ RegisterThrows
Unwind == (\E s \in Subsystem : ShutdownSubsystem(s)) \/ ResetApp
Main    == Boot \/ Unwind \/ StartMonitor \/ RunLoop \/ StopBeforeServing \/ TearDown \/ Exit
Monitor == MonitorSees \/ MonitorQuits

Next ==
  \/ \E m \in {"Full", "MigrateOnly"} : BeginBoot(m)
  \/ Main \/ Monitor \/ Signal \/ RunReturns
  \/ \E t \in IOThread : BeginRequest(t) \/ EndRequest(t)
  \/ Exited

Spec == Init /\ [][Next]_vars

\* Every thread that can run runs, handlers end, and run() returns when it was
\* told to quit; nobody has to send a signal.
Fairness ==
  /\ WF_vars(Main) /\ WF_vars(Monitor)
  /\ WF_vars(server = "quitting" /\ RunReturns)
  /\ \A t \in IOThread : WF_vars(EndRequest(t))

FairSpec == Spec /\ Fairness
-----------------------------------------------------------------------------
(* Properties.                                                             *)

\* Nothing outlives what it uses, at any point of a boot, of an unwinding or of
\* a shutdown: a subsystem's dependencies are up while it is, a bound sink has
\* its registry, a scheduled task has the database and the registry.
DependenciesOutlive ==
  /\ \A s \in Subsystem : is_initialized(s) =>
       \A d \in DependsOn[s] : is_initialized(d)
  /\ sinks # {} => is_initialized("observability")
  /\ timers # {} => \A s \in {"tasks", "database", "observability"} : is_initialized(s)

\* A handler never runs without the subsystems it calls.
HandlersSeeAllSubsystems ==
  handling # {} =>
    /\ app = "ready"
    /\ \A s \in Subsystem \ {"migrations"} : is_initialized(s)

\* Whatever came up before the application went away has been shut down, after
\* a shutdown and after a boot that failed anywhere.
NothingLeftRunning ==
  app = "null" => /\ \A s \in Subsystem : ~is_initialized(s)
                  /\ sinks = {} /\ timers = {}

\* A signal, during the boot or later, ends the process unless the monitor gets
\* as far as quit() before run() has its loop running; and an event loop that
\* returns by itself ends it: main never waits for a monitor that waits for a
\* signal.
ProcessStops ==
  /\ <>(monitor = "done" /\ server = "starting") \/ (requested /\ boots > 0 ~> exited)
  /\ server = "returned" ~> exited

\* Core.hpp: shutdown() "leaves nothing dangling for a retry", so that after a
\* failed boot "the next call can try again".
FailedBootLeavesNothing ==
  app = "null" => \A s \in Subsystem : global[s] = "null"
=============================================================================
