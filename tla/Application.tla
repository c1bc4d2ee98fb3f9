------------------------------ MODULE Application ------------------------------
(***************************************************************************)
(* The process: smarty_app_t::run (src/src/smarty/smarty_app.cpp) loads    *)
(* the driver's library, whose create_driver starts the controller's poll  *)
(* thread, loads the server's library and starts the server, waits for a   *)
(* signal, stops the server and unloads both.  The server's own threads    *)
(* are those of the module Server.                                         *)
(*                                                                         *)
(* library_t is of the framework: load maps the library or fails, unload   *)
(* unmaps it.  An assertion that fails ends the process and is left out.   *)
(***************************************************************************)
EXTENDS Server

VARIABLES
  app,         \* the next step of run( ), or of the destructors after it
  m_stopping,  \* smarty_app_t::m_stopping, set by the signal handler
  driverLib,   \* driver.so
  serverLib,   \* server.so
  controller,  \* g_pController: its poll thread runs from create_driver on
  strayed      \* history: threads that ran code or used objects that were gone

appVars == <<app, m_stopping, driverLib, serverLib, controller, strayed>>
allVars == <<vars, appVars>>

Installed == app \notin {"configs", "loadDriver", "createDriver", "loadServer", "startServer",
                         "install", "deleteDriver", "closeDriver"}
Ended == app \in {"exited", "killed"}

-----------------------------------------------------------------------------
AppInit ==
  /\ Init
  /\ app = "configs"
  /\ m_stopping = FALSE
  /\ driverLib = "none"
  /\ serverLib = "none"
  /\ controller = "none"
  /\ strayed = {}

\* load_configs; without them run returns 1.
LoadConfigs(works) ==
  /\ app = "configs"
  /\ app' = IF works THEN "loadDriver" ELSE "exited"
  /\ UNCHANGED <<vars, m_stopping, driverLib, serverLib, controller, strayed>>

\* driver_module_t::load up to load_functions; without it run returns 2.
LoadDriver(works) ==
  /\ app = "loadDriver"
  /\ driverLib' = IF works THEN "mapped" ELSE "none"
  /\ app' = IF works THEN "createDriver" ELSE "exited"
  /\ UNCHANGED <<vars, m_stopping, serverLib, controller, strayed>>

\* m_create_driver( ): the poll thread starts.
CreateDriver ==
  /\ app = "createDriver"
  /\ controller' = "running"
  /\ app' = "loadServer"
  /\ UNCHANGED <<vars, m_stopping, driverLib, serverLib, strayed>>

\* server_module_t::load; without it run returns 2 and the application's destructor follows.
LoadServer(works) ==
  /\ app = "loadServer"
  /\ serverLib' = IF works THEN "mapped" ELSE "none"
  /\ app' = IF works THEN "startServer" ELSE "deleteDriver"
  /\ UNCHANGED <<vars, m_stopping, driverLib, controller, strayed>>

\* server_module_t::start; what goes wrong in it is an assertion that fails, so it returns OK.
ServerStarts ==
  /\ app = "startServer"
  /\ StartServer
  /\ app' = IF main' = "up" THEN "install" ELSE app
  /\ UNCHANGED <<m_stopping, driverLib, serverLib, controller, strayed>>

InstallSignalHandlers ==
  /\ app = "install"
  /\ app' = "run"
  /\ UNCHANGED <<vars, m_stopping, driverLib, serverLib, controller, strayed>>

\* SIGINT or SIGTERM: before install_signal_handlers it ends the process.
Signal ==
  /\ ~Ended
  /\ ~m_stopping
  /\ IF Installed THEN m_stopping' = TRUE /\ app' = app
                  ELSE m_stopping' = m_stopping /\ app' = "killed"
  /\ UNCHANGED <<vars, driverLib, serverLib, controller, strayed>>

\* Mutant of DoRunEnds: the program waits for a server that accepts clients.
DoRunEndsIfAccepting ==
  /\ app = "run"
  /\ m_stopping
  /\ net \notin {"init", "startHandlers", "listen", "failed"}
  /\ app' = "stopServer"
  /\ UNCHANGED <<vars, m_stopping, driverLib, serverLib, controller, strayed>>

\* do_run looks at m_stopping once a second.
DoRunEnds ==
  /\ app = "run"
  /\ m_stopping
  /\ app' = "stopServer"
  /\ UNCHANGED <<vars, m_stopping, driverLib, serverLib, controller, strayed>>

\* m_server->stop( )
ServerStops ==
  /\ app = "stopServer"
  /\ StopNetServer \/ StopServer
  /\ UNCHANGED appVars

\* Mutant of UnloadServer: the server is not asked to stop.
UnloadServerRunning ==
  /\ app = "stopServer"
  /\ serverLib' = "unmapped"
  /\ app' = "unloadDriver"
  /\ UNCHANGED <<vars, m_stopping, driverLib, controller, strayed>>

\* m_server->unload( ) and reset( ), when stop( ) has returned.
UnloadServer ==
  /\ app = "stopServer"
  /\ main = "off"
  /\ serverLib' = "unmapped"
  /\ app' = "unloadDriver"
  /\ UNCHANGED <<vars, m_stopping, driverLib, controller, strayed>>

\* m_driver->unload( ): nobody has stopped the poll thread.
UnloadDriver ==
  /\ app = "unloadDriver"
  /\ driverLib' = "unmapped"
  /\ app' = "resetDriver"
  /\ UNCHANGED <<vars, m_stopping, serverLib, controller, strayed>>

\* m_driver.reset( ): the destructor calls m_free_driver, which is no longer there.
ResetDriver ==
  /\ app = "resetDriver"
  /\ strayed' = strayed \cup {"main"}
  /\ app' = "exited"
  /\ UNCHANGED <<vars, m_stopping, driverLib, serverLib, controller>>

\* The same destructor when the server could not be loaded: free_driver deletes the controller
\* with its thread running ...
DeleteDriver ==
  /\ app = "deleteDriver"
  /\ controller' = "deleted"
  /\ app' = "closeDriver"
  /\ UNCHANGED <<vars, m_stopping, driverLib, serverLib, strayed>>

\* ... and ~library_intf_t unloads the library.
CloseDriver ==
  /\ app = "closeDriver"
  /\ driverLib' = "unmapped"
  /\ app' = "exited"
  /\ UNCHANGED <<vars, m_stopping, serverLib, controller, strayed>>

-----------------------------------------------------------------------------
(***************************************************************************)
(* Threads that nobody stops go on when their code or objects are gone:    *)
(* the poll thread; the timer of the event handler, which init starts; and *)
(* the client threads and heartbeats if listen failed.                     *)
(***************************************************************************)
PollThreadStrays ==
  /\ controller = "deleted" \/ (controller = "running" /\ driverLib = "unmapped")
  /\ strayed' = strayed \cup {"poll"}

TimerStrays ==
  /\ event # "none"
  /\ serverLib = "unmapped"
  /\ strayed' = strayed \cup {"timer"}

ClientThreadsStray ==
  /\ \E w \in Worker : pc[w] \notin {"none", "done"}
  /\ serverLib = "unmapped"
  /\ strayed' = strayed \cup {"clients"}

Stray ==
  /\ ~Ended
  /\ PollThreadStrays \/ TimerStrays \/ ClientThreadsStray
  /\ UNCHANGED <<vars, app, m_stopping, driverLib, serverLib, controller>>

\* The threads of the server, while their code is there.
ServerThreads ==
  /\ ~Ended
  /\ serverLib = "mapped"
  /\ \/ QueueCommand
     \/ ExecuteCommand
     \/ EventHandlerEnds
     \/ DeviceEnds
     \/ NetThread
     \/ \E c \in Connection : Accept(c) \/ ForgetLast(c)
     \/ \E w \in Worker : WorkerThread(w) \/ Finish(w)
  /\ UNCHANGED appVars

Run ==
  \/ \E works \in BOOLEAN : LoadConfigs(works) \/ LoadDriver(works) \/ LoadServer(works)
  \/ CreateDriver
  \/ ServerStarts
  \/ InstallSignalHandlers
  \/ DoRunEnds
  \/ ServerStops
  \/ UnloadServer
  \/ UnloadDriver
  \/ ResetDriver
  \/ DeleteDriver
  \/ CloseDriver

AppNext == Run \/ Signal \/ Stray \/ ServerThreads

\* The application's thread and the threads of the server run; nobody has to send a signal,
\* connect or leave.
AppFairness ==
  /\ WF_allVars(Run)
  /\ WF_allVars(~Ended /\ EventHandlerEnds /\ UNCHANGED appVars)
  /\ WF_allVars(~Ended /\ DeviceEnds /\ UNCHANGED appVars)
  /\ WF_allVars(~Ended /\ NetThread /\ UNCHANGED appVars)
  /\ \A w \in Worker : WF_allVars(~Ended /\ WorkerThread(w) /\ UNCHANGED appVars)

AppSpec == AppInit /\ [][AppNext]_allVars
FairAppSpec == AppSpec /\ AppFairness

-----------------------------------------------------------------------------
AppTypeOK ==
  /\ TypeOK
  /\ app \in {"configs", "loadDriver", "createDriver", "loadServer", "startServer", "install",
              "run", "stopServer", "unloadDriver", "resetDriver", "deleteDriver", "closeDriver",
              "exited", "killed"}
  /\ m_stopping \in BOOLEAN
  /\ driverLib \in {"none", "mapped", "unmapped"}
  /\ serverLib \in {"none", "mapped", "unmapped"}
  /\ controller \in {"none", "running", "deleted"}
  /\ strayed \subseteq {"main", "poll", "timer", "clients"}

(***************************************************************************)
(* Code outlives those who run it (unload_plugins, smarty_server_t::stop): *)
(* a running part of the server or a client that is served has the         *)
(* server's library, the driver's library and a controller to call.  Only  *)
(* the threads nobody stops stray: the poll thread, the timer and, if      *)
(* listen failed, the client threads.                                      *)
(***************************************************************************)
PartsEndBeforeTheirCode ==
  /\ (device = "running" \/ event = "running" \/ \E w \in Worker : pc[w] \in {"popped", "serve"})
       => app = "killed" \/ (serverLib = "mapped" /\ driverLib = "mapped" /\ controller = "running")
  /\ "clients" \in strayed => net = "failed"

\* smarty_server_t::stop came before listen, and no client has connected since.
StoppedBeforeListen ==
  /\ net = "accept"
  /\ main = "waitNet"
  /\ listening = "yes"

(***************************************************************************)
(* A signal ends the program (do_run, unload_plugins), but for four        *)
(* reasons smarty_server_t::stop does not return, and then no signal ends  *)
(* it any more: a client thread took the socket pushed for another, a      *)
(* client never leaves, device_t lost the request (device_t::do_stop sets  *)
(* an event that a round of its thread resets), or net_server_t::do_stop   *)
(* was over before net_server_t::init listened and no client wakes accept. *)
(***************************************************************************)
SignalEndsTheProgram ==
  m_stopping ~>
    (Ended \/ stolen \/ lost \/ (\E w \in Worker : [](pc[w] = "serve")) \/ []StoppedBeforeListen)

(***************************************************************************)
(* A client in the queue is taken by a thread, or all threads have clients *)
(* or are being stopped: no thread is lost to a client that came and went, *)
(* nor to a socket pushed for another thread.                              *)
(***************************************************************************)
QueuedClientsAreTaken ==
  \A c \in Connection :
    fate[c] = "queued" ~>
      (fate[c] # "queued" \/ Ended \/ \A w \in Worker : pc[w] = "serve" \/ w \in stopping)
=============================================================================
