---------------------------- MODULE MainLifecycle ----------------------------
(***************************************************************************)
(* The process lifecycle of the rcc executable: main() (src/core/main.cpp) *)
(* with the rcc::Application it constructs (first definition in           *)
(* application.cpp, lines 1-45), whose ConfigManager is the second draft   *)
(* of config_manager.cpp, and the SIGINT/SIGTERM handler.                  *)
(*                                                                         *)
(* The main thread runs main's statements in order; a signal may arrive    *)
(* between any two of them.  Before the handlers are installed a signal   *)
(* has its default disposition and ends the process.  The handler runs on *)
(* the interrupted thread and clears g_running, then stops the io_context  *)
(* g_io_context points to, if it is set.  io_context::run returns once the *)
(* io_context is stopped: the EventBus built in start() holds work, so the *)
(* model gives run no other way to return.                                 *)
(***************************************************************************)
EXTENDS Naturals

CONSTANT MaxSignals     \* bound on the signals delivered in one behaviour

ASSUME MainAssumption == MaxSignals \in Nat

\* ConfigManager::loadFromFile (second draft): the file loads, is missing
\* (runtime_error), or does not parse or fails parseConfig's checks
\* (runtime_error or a YAML exception).
LoadResults == {"loaded", "missing", "invalid"}

VARIABLES
    pc,         \* main's next statement; "dead" once the process has ended
    handlers,   \* handle_signal is installed for SIGINT and SIGTERM
    io,         \* the io_context local to the try block
    ioStopped,  \* io_context::stop has been called on it
    registered, \* g_io_context is set (it is never reset)
    running,    \* g_running
    bus,        \* Application::eventBus_
    signals,    \* signals delivered so far
    handled,    \* a handler found g_io_context set to a live io_context
    dangling,   \* a handler called stop through g_io_context after the
                \* io_context was destroyed
    exitCode    \* main's return value, or "signal" for a default-disposition kill

vars == <<pc, handlers, io, ioStopped, registered, running, bus, signals, handled,
          dangling, exitCode>>

Statements == {"install", "make_io", "register", "construct", "start", "run", "stop",
               "return", "catch", "exiting", "dead"}

TypeOK ==
    /\ pc \in Statements
    /\ handlers \in BOOLEAN
    /\ io \in {"none", "alive", "destroyed"}
    /\ ioStopped \in BOOLEAN
    /\ registered \in BOOLEAN
    /\ running \in BOOLEAN
    /\ bus \in {"none", "up", "stopped"}
    /\ signals \in 0..MaxSignals
    /\ handled \in BOOLEAN
    /\ dangling \in BOOLEAN
    /\ exitCode \in {"none", "0", "1", "signal"}

Init ==
    /\ pc = "install"
    /\ handlers = FALSE
    /\ io = "none"
    /\ ioStopped = FALSE
    /\ registered = FALSE
    /\ running = TRUE
    /\ bus = "none"
    /\ signals = 0
    /\ handled = FALSE
    /\ dangling = FALSE
    /\ exitCode = "none"

\* Moves main from one statement to the next, changing only what is listed.
Goto(from, to) == pc = from /\ pc' = to

\* std::signal(SIGINT, ...); std::signal(SIGTERM, ...)
InstallHandlers ==
    /\ Goto("install", "make_io")
    /\ handlers' = TRUE
    /\ UNCHANGED <<io, ioStopped, registered, running, bus, signals, handled, dangling,
                   exitCode>>

\* The config path, then asio::io_context io_context{1}.
MakeIo ==
    /\ Goto("make_io", "register")
    /\ io' = "alive"
    /\ UNCHANGED <<handlers, ioStopped, registered, running, bus, signals, handled,
                   dangling, exitCode>>

\* g_io_context = &io_context
Register ==
    /\ Goto("register", "construct")
    /\ registered' = TRUE
    /\ UNCHANGED <<handlers, io, ioStopped, running, bus, signals, handled, dangling,
                   exitCode>>

\* rcc::Application app{io_context, configPath}: the ConfigManager member
\* loads the file.  A throw leaves the try block, which destroys
\* io_context before the catch handler runs.
Construct ==
    /\ pc = "construct"
    /\ \E r \in LoadResults :
          IF r = "loaded" THEN pc' = "start" /\ UNCHANGED io
                          ELSE pc' = "catch" /\ io' = "destroyed"
    /\ UNCHANGED <<handlers, ioStopped, registered, running, bus, signals, handled,
                   dangling, exitCode>>

\* app.start(): initializeTelemetry builds the ring buffer, the EventBus on
\* io_context and the TelemetryHub, and publishes rcc.ready.
Start ==
    /\ Goto("start", "run")
    /\ bus' = "up"
    /\ UNCHANGED <<handlers, io, ioStopped, registered, running, signals, handled,
                   dangling, exitCode>>

\* io_context.run() returns once the io_context has been stopped.
RunReturns ==
    /\ Goto("run", "stop")
    /\ ioStopped
    /\ UNCHANGED <<handlers, io, ioStopped, registered, running, bus, signals, handled,
                   dangling, exitCode>>

\* io_context.run() dispatching handlers while it is not stopped.
Serve == pc = "run" /\ ~ioStopped /\ UNCHANGED vars

\* app.stop(): eventBus_->stop() when eventBus_ is set, then io_.stop().
AppStop ==
    /\ Goto("stop", "return")
    /\ bus' = IF bus = "none" THEN bus ELSE "stopped"
    /\ ioStopped' = TRUE
    /\ UNCHANGED <<handlers, io, registered, running, signals, handled, dangling,
                   exitCode>>

\* return 0: app, then io_context, are destroyed as the try block ends.
Return ==
    /\ Goto("return", "exiting")
    /\ io' = "destroyed"
    /\ bus' = "none"
    /\ exitCode' = "0"
    /\ UNCHANGED <<handlers, ioStopped, registered, running, signals, handled, dangling>>

\* catch (const std::exception&): print the error and return 1.
Catch ==
    /\ Goto("catch", "exiting")
    /\ exitCode' = "1"
    /\ UNCHANGED <<handlers, io, ioStopped, registered, running, bus, signals, handled,
                   dangling>>

\* After main returns: static destruction and exit; the handlers stay
\* installed until the process is gone.
Exit ==
    /\ Goto("exiting", "dead")
    /\ UNCHANGED <<handlers, io, ioStopped, registered, running, bus, signals, handled,
                   dangling, exitCode>>

\* Mutant: a handler that only clears g_running.
SignalNoStop ==
    /\ pc # "dead"
    /\ signals < MaxSignals
    /\ signals' = signals + 1
    /\ IF ~handlers
          THEN pc' = "dead" /\ exitCode' = "signal"
               /\ UNCHANGED <<running, ioStopped, handled, dangling>>
          ELSE /\ running' = FALSE
               /\ handled' = (handled \/ (registered /\ io = "alive"))
               /\ UNCHANGED <<pc, exitCode, ioStopped, dangling>>
    /\ UNCHANGED <<handlers, io, registered, bus>>

\* A SIGINT or SIGTERM: the default disposition before the handlers are
\* installed, handle_signal after.
Signal ==
    /\ pc # "dead"
    /\ signals < MaxSignals
    /\ signals' = signals + 1
    /\ IF ~handlers
          THEN pc' = "dead" /\ exitCode' = "signal"
               /\ UNCHANGED <<running, ioStopped, handled, dangling>>
          ELSE /\ running' = FALSE
               /\ ioStopped' = (ioStopped \/ (registered /\ io = "alive"))
               /\ handled' = (handled \/ (registered /\ io = "alive"))
               /\ dangling' = (dangling \/ (registered /\ io = "destroyed"))
               /\ UNCHANGED <<pc, exitCode>>
    /\ UNCHANGED <<handlers, io, registered, bus>>

Dead == pc = "dead" /\ UNCHANGED vars

MainStep == InstallHandlers \/ MakeIo \/ Register \/ Construct \/ Start \/ RunReturns
            \/ AppStop \/ Return \/ Catch \/ Exit

Next == MainStep \/ Serve \/ Signal \/ Dead

\* The main thread is scheduled; signals need not arrive.
Spec == Init /\ [][Next]_vars /\ WF_vars(MainStep)

-----------------------------------------------------------------------------
(***************************************************************************)
(* Properties                                                              *)
(***************************************************************************)

\* Once handle_signal has found g_io_context pointing at the live
\* io_context, the process ends: run returns, app.stop runs and main exits,
\* whatever statement the signal interrupted.
ShutdownOnSignal == handled ~> pc = "dead"

\* Every SIGINT/SIGTERM delivered ends the process ("shutting down...",
\* main.cpp:15).
SignalShutsDown == signals > 0 ~> pc = "dead"

\* handle_signal never calls stop through g_io_context once the io_context
\* it points to has been destroyed.
HandlerStopsLiveIo == ~dangling

=============================================================================
