--------------------------- MODULE ApplicationProofs ---------------------------
(***************************************************************************)
(* Proofs about Server and Application, for any number of client threads   *)
(* and any connections: the parts of the server are started and stopped in *)
(* an order that leaves no client without them, and the libraries are      *)
(* unloaded when the parts that run their code have ended.                 *)
(***************************************************************************)
EXTENDS Application, TLAPS

-----------------------------------------------------------------------------
(* The inductive invariant of the server. *)

\* How far start( ) and stop( ) are: which threads they have started and which they have asked
\* to end, and whom stop( ) has waited for.
MainInv ==
  /\ device = "none" <=> main = "startDevice"
  /\ event = "none" <=> main \in {"startDevice", "startEvent"}
  /\ net = "none" <=> main \in {"startDevice", "startEvent", "observe", "setClients", "startNet"}
  /\ "net" \in asked <=> main \in {"shutNet", "waitNet", "waitEvent", "waitDevice", "off"}
  /\ "event" \in asked <=> main \in {"waitEvent", "waitDevice", "off"}
  /\ "device" \in asked <=> main \in {"waitDevice", "off"}
  /\ event = "done" => "event" \in asked
  /\ device = "done" => "device" \in asked
  /\ main \in {"waitEvent", "waitDevice", "off"} => net \in {"done", "failed"}
  /\ main \in {"waitDevice", "off"} => event = "done"
  /\ main = "off" => device = "done"

\* The registers are there from StartRegisters to StopRegisters, and finalize( ) follows a stop( ).
NetInv ==
  /\ registers = "none" <=> net \in {"none", "init"}
  /\ registers = "stopped" <=> net = "done"
  /\ net \in {"stop", "wait", "clean", "stopRegisters", "done"} => "net" \in asked

\* The client threads start together; stop_client_handlers asks and awaits them one by one.
WorkerInv ==
  /\ net \in {"none", "init", "startHandlers"} => \A w \in Worker : pc[w] = "none"
  /\ net \in {"listen", "failed"} => \A w \in Worker : pc[w] = "pop"
  /\ net \in {"none", "init", "startHandlers", "listen", "failed"} => queue = <<>>
  /\ net \in {"none", "init", "startHandlers", "listen", "failed", "accept"} =>
       turn = 1 /\ stopping = {}
  /\ net \in {"stop", "wait"} => \A w \in Worker : w < turn => pc[w] = "done"
  /\ net \in {"clean", "stopRegisters", "done"} => \A w \in Worker : pc[w] = "done"

ServerInv == TypeOK /\ MainInv /\ NetInv /\ WorkerInv

-----------------------------------------------------------------------------
(* The inductive invariant of the application. *)

\* Which steps of run( ) have the libraries, the controller and a server in which state.
StageInv ==
  /\ app \in {"configs", "loadDriver", "createDriver", "loadServer", "deleteDriver", "closeDriver"}
       => main = "startDevice" /\ serverLib = "none"
  /\ app \in {"createDriver", "loadServer", "startServer", "install", "run", "stopServer"}
       => driverLib = "mapped"
  /\ app \in {"loadServer", "startServer", "install", "run", "stopServer"}
       => controller = "running"
  /\ app \in {"startServer", "install", "run", "stopServer"} => serverLib = "mapped"
  /\ app \in {"install", "run"} => main = "up"
  /\ app \in {"unloadDriver", "resetDriver"} => main = "off"
  /\ app = "exited" => main \in {"startDevice", "off"}
  /\ serverLib = "unmapped" => main = "off"
  /\ "clients" \in strayed => net = "failed"

AppIInv == AppTypeOK /\ MainInv /\ NetInv /\ WorkerInv /\ StageInv

-----------------------------------------------------------------------------
(* Server: every step preserves the four parts of ServerInv. *)

\* A client thread that pops takes an element of the queue and leaves a queue.
LEMMA PopsASocket ==
  ASSUME NEW q \in Seq(Connection \cup {Dummy}), q # <<>>
  PROVE  Head(q) \in Connection \cup {Dummy} /\ Tail(q) \in Seq(Connection \cup {Dummy})
  OBVIOUS

\* Type correctness of the server; turn stays with the client threads.
LEMMA ServerTypeStep == TypeOK /\ [Next]_vars => TypeOK'
<1> SUFFICES ASSUME TypeOK, [Next]_vars PROVE TypeOK'
  OBVIOUS
<1> USE DEF TypeOK
<1>1. CASE StartServer
  <2>1. CASE StartDevice
    BY <2>1 DEF StartDevice, eventVars, workerVars
  <2>2. CASE StartEventHandler
    BY <2>2 DEF StartEventHandler, eventVars, workerVars
  <2>3. CASE ObserveDevice
    BY <2>3 DEF ObserveDevice, workerVars
  <2>4. CASE SetClientRegister
    BY <2>4 DEF SetClientRegister, workerVars
  <2>5. CASE StartNetServer
    BY <2>5 DEF StartNetServer, eventVars, workerVars
  <2>6. QED
    BY <1>1, <2>1, <2>2, <2>3, <2>4, <2>5 DEF StartServer
<1>2. CASE StopNetServer \/ StopServer
  <2>1. CASE StopNetServer
    BY <2>1 DEF StopNetServer, eventVars, workerVars
  <2>6. CASE ShutSocket
    BY <2>6 DEF ShutSocket, eventVars, workerVars
  <2>2. CASE StopEventHandler
    BY <2>2 DEF StopEventHandler, workerVars
  <2>3. ASSUME NEW wasLost \in BOOLEAN, StopDevice(wasLost) PROVE TypeOK'
    BY <2>3 DEF StopDevice, eventVars, workerVars
  <2>4. CASE Stopped
    BY <2>4 DEF Stopped, eventVars, workerVars
  <2>5. QED
    BY <1>2, <2>1, <2>2, <2>3, <2>4, <2>6 DEF StopServer
<1>3. CASE QueueCommand \/ ExecuteCommand \/ EventHandlerEnds \/ DeviceEnds
  <2>1. CASE QueueCommand
    BY <2>1 DEF QueueCommand, partVars, workerVars
  <2>2. CASE ExecuteCommand
    <3>1. failed' \subseteq failed \cup {"m_clients", "m_mobile_register"}
      BY <2>2, Zenon DEF ExecuteCommand
    <3>2. failed' \subseteq {"m_clients", "m_mobile_register"}
      BY <3>1
    <3>3. command' \in BOOLEAN
      BY <2>2 DEF ExecuteCommand
    <3>4. UNCHANGED <<partVars, observers, clients, asked, turn, workerVars, lost>>
      BY <2>2 DEF ExecuteCommand
    <3>5. QED
      BY <3>2, <3>3, <3>4 DEF partVars, workerVars
  <2>3. CASE EventHandlerEnds
    BY <2>3 DEF EventHandlerEnds, eventVars, workerVars
  <2>4. CASE DeviceEnds
    BY <2>4 DEF DeviceEnds, eventVars, workerVars
  <2>5. QED
    BY <1>3, <2>1, <2>2, <2>3, <2>4
<1>4. CASE NetThread
  <2>1. CASE StartRegisters
    BY <2>1 DEF StartRegisters, workerVars
  <2>7. CASE StartClientHandlers
    BY <2>7 DEF StartClientHandlers, eventVars
  <2>8. ASSUME NEW works \in BOOLEAN, Listen(works) PROVE TypeOK'
    BY <2>8 DEF Listen, eventVars, workerVars
  <2>2. CASE LeaveAccept
    BY <2>2 DEF LeaveAccept, EndAccept, eventVars
  <2>3. CASE StopHandler
    BY <2>3 DEF StopHandler, eventVars
  <2>4. CASE WaitHandler
    BY <2>4, CountAssumption DEF WaitHandler, Worker, eventVars, workerVars
  <2>5. CASE CleanQueue
    BY <2>5 DEF CleanQueue, eventVars
  <2>6. CASE StopRegisters
    BY <2>6 DEF StopRegisters, workerVars
  <2>9. QED
    BY <1>4, <2>1, <2>2, <2>3, <2>4, <2>5, <2>6, <2>7, <2>8 DEF NetThread
<1>5. ASSUME NEW c \in Connection, Accept(c) \/ ForgetLast(c) PROVE TypeOK'
  <2>1. CASE Accept(c)
    BY <2>1 DEF Accept, partVars, eventVars
  <2>2. CASE ForgetLast(c)
    BY <2>2 DEF ForgetLast, EndAccept, eventVars
  <2>3. QED
    BY <1>5, <2>1, <2>2
<1>6. ASSUME NEW w \in Worker, Pop(w) PROVE TypeOK'
  BY <1>6, PopsASocket DEF Pop, partVars, eventVars
<1>7. ASSUME NEW w \in Worker, Break(w) \/ ServeDummy(w) \/ Finish(w) PROVE TypeOK'
  <2>1. Closed(w)
    BY <1>7 DEF Break, ServeDummy, Finish
  <2>2. socket' \in [Worker -> Connection \cup {Dummy, NoSocket}]
    BY <2>1 DEF Closed
  <2>3. fate' \in [Connection -> {"outside", "queued", "popped", "closed", "forgotten"}]
    BY <2>1 DEF Closed
  <2>4. CASE Break(w)
    BY <2>2, <2>3, <2>4 DEF Break, partVars, eventVars
  <2>5. CASE ServeDummy(w)
    BY <2>2, <2>3, <2>5 DEF ServeDummy, partVars, eventVars
  <2>6. CASE Finish(w)
    BY <2>2, <2>3, <2>6 DEF Finish, partVars, eventVars
  <2>7. QED
    BY <1>7, <2>4, <2>5, <2>6
<1>8. ASSUME NEW w \in Worker, Serve(w) PROVE TypeOK'
  BY <1>8 DEF Serve, partVars, eventVars
<1>9. CASE UNCHANGED vars
  BY <1>9 DEF vars
<1>10. QED
  BY <1>1, <1>2, <1>3, <1>4, <1>5, <1>6, <1>7, <1>8, <1>9 DEF Next, WorkerThread

\* Of the threads, start( ) and stop( ) alone move main, and they wait for the part they asked.
LEMMA MainStep == TypeOK /\ MainInv /\ NetInv /\ [Next]_vars => MainInv'
<1> SUFFICES ASSUME TypeOK, MainInv, NetInv, [Next]_vars PROVE MainInv'
  OBVIOUS
<1> USE DEF MainInv
<1>1. CASE StartServer
  BY <1>1 DEF TypeOK, StartServer, StartDevice, StartEventHandler, ObserveDevice,
              SetClientRegister, StartNetServer
<1>2. CASE StopNetServer \/ StopServer
  BY <1>2 DEF TypeOK, StopNetServer, StopServer, ShutSocket, StopEventHandler, StopDevice, Stopped
<1>3. CASE QueueCommand \/ ExecuteCommand
  BY <1>3 DEF QueueCommand, ExecuteCommand, partVars
<1>4. CASE EventHandlerEnds \/ DeviceEnds
  BY <1>4 DEF EventHandlerEnds, DeviceEnds
<1>5. CASE NetThread
  BY <1>5 DEF NetThread, StartRegisters, StartClientHandlers, Listen, LeaveAccept, EndAccept,
              StopHandler, WaitHandler, CleanQueue, StopRegisters
<1>6. ASSUME NEW c \in Connection, Accept(c) \/ ForgetLast(c) PROVE MainInv'
  BY <1>6 DEF Accept, ForgetLast, EndAccept, partVars
<1>7. ASSUME NEW w \in Worker, WorkerThread(w) \/ Finish(w) PROVE MainInv'
  BY <1>7 DEF WorkerThread, Pop, Break, ServeDummy, Serve, Finish, partVars
<1>8. CASE UNCHANGED vars
  BY <1>8 DEF vars
<1>9. QED
  BY <1>1, <1>2, <1>3, <1>4, <1>5, <1>6, <1>7, <1>8 DEF Next

\* The registers are those of the net server's thread alone.
LEMMA NetStep == MainInv /\ NetInv /\ [Next]_vars => NetInv'
<1> SUFFICES ASSUME MainInv, NetInv, [Next]_vars PROVE NetInv'
  OBVIOUS
<1> USE DEF NetInv
<1>1. CASE StartServer
  BY <1>1 DEF MainInv, StartServer, StartDevice, StartEventHandler, ObserveDevice,
              SetClientRegister, StartNetServer
<1>2. CASE StopNetServer \/ StopServer
  BY <1>2 DEF StopNetServer, StopServer, ShutSocket, StopEventHandler, StopDevice, Stopped
<1>3. CASE QueueCommand \/ ExecuteCommand \/ EventHandlerEnds \/ DeviceEnds
  BY <1>3 DEF QueueCommand, ExecuteCommand, EventHandlerEnds, DeviceEnds, partVars
<1>4. CASE NetThread
  BY <1>4 DEF NetThread, StartRegisters, StartClientHandlers, Listen, LeaveAccept, EndAccept,
              StopHandler, WaitHandler, CleanQueue, StopRegisters
<1>5. ASSUME NEW c \in Connection, Accept(c) \/ ForgetLast(c) PROVE NetInv'
  BY <1>5 DEF Accept, ForgetLast, EndAccept, partVars
<1>6. ASSUME NEW w \in Worker, WorkerThread(w) \/ Finish(w) PROVE NetInv'
  BY <1>6 DEF WorkerThread, Pop, Break, ServeDummy, Serve, Finish, partVars
<1>7. CASE UNCHANGED vars
  BY <1>7 DEF vars
<1>8. QED
  BY <1>1, <1>2, <1>3, <1>4, <1>5, <1>6, <1>7 DEF Next

\* stop_client_handlers passes from one client thread to the next only when the first has ended,
\* so when it has come to the last all have.
LEMMA WorkerStep == TypeOK /\ NetInv /\ MainInv /\ WorkerInv /\ [Next]_vars => WorkerInv'
<1> SUFFICES ASSUME TypeOK, NetInv, MainInv, WorkerInv, [Next]_vars PROVE WorkerInv'
  OBVIOUS
<1> USE DEF WorkerInv
<1>1. CASE StartServer
  BY <1>1 DEF MainInv, StartServer, StartDevice, StartEventHandler, ObserveDevice,
              SetClientRegister, StartNetServer, workerVars
<1>2. CASE StopNetServer \/ StopServer
  BY <1>2 DEF StopNetServer, StopServer, ShutSocket, StopEventHandler, StopDevice, Stopped,
              workerVars
<1>3. CASE QueueCommand \/ ExecuteCommand \/ EventHandlerEnds \/ DeviceEnds
  BY <1>3 DEF QueueCommand, ExecuteCommand, EventHandlerEnds, DeviceEnds, partVars, workerVars
<1>4. CASE StartRegisters \/ StartClientHandlers \/ (\E works \in BOOLEAN : Listen(works))
  BY <1>4 DEF StartRegisters, StartClientHandlers, Listen, workerVars
<1>5. CASE LeaveAccept
  BY <1>5, CountAssumption DEF LeaveAccept, EndAccept, Worker
<1>6. CASE StopHandler \/ CleanQueue \/ StopRegisters
  BY <1>6 DEF StopHandler, CleanQueue, StopRegisters, workerVars
<1>7. CASE WaitHandler
  <2>1. \A w \in Worker : w < turn + 1 => pc[w] = "done"
    BY <1>7, CountAssumption DEF WaitHandler, Worker, TypeOK
  <2>2. CASE turn = HANDLERS_COUNT
    BY <1>7, <2>1, <2>2, CountAssumption DEF WaitHandler, Worker, workerVars
  <2>3. CASE turn # HANDLERS_COUNT
    BY <1>7, <2>1, <2>3 DEF WaitHandler, workerVars
  <2>4. QED
    BY <2>2, <2>3
<1>8. ASSUME NEW c \in Connection, Accept(c) \/ ForgetLast(c) PROVE WorkerInv'
  BY <1>8, CountAssumption DEF Accept, ForgetLast, EndAccept, Worker, partVars
<1>9. ASSUME NEW w \in Worker, WorkerThread(w) \/ Finish(w) PROVE WorkerInv'
  <2>1. pc[w] \notin {"none", "done"} /\ UNCHANGED <<net, turn, stopping>>
    BY <1>9 DEF WorkerThread, Pop, Break, ServeDummy, Serve, Finish, partVars
  <2>2. \A v \in Worker \ {w} : pc'[v] = pc[v]
    BY <1>9 DEF WorkerThread, Pop, Break, ServeDummy, Serve, Finish, TypeOK
  <2>3. net \notin {"listen", "failed"}
    BY <1>9 DEF WorkerThread, Pop, Break, ServeDummy, Serve, Finish
  <2>4. QED
    BY <2>1, <2>2, <2>3
<1>10. CASE UNCHANGED vars
  BY <1>10 DEF vars
<1>11. QED
  BY <1>1, <1>2, <1>3, <1>4, <1>5, <1>6, <1>7, <1>8, <1>9, <1>10 DEF Next, NetThread

\* The server starts in a state of its invariant ...
LEMMA ServerInit == Init => ServerInv
<1> SUFFICES ASSUME Init PROVE ServerInv
  OBVIOUS
<1> USE DEF Init
<1>1. TypeOK
  <2>1. turn \in Worker
    BY CountAssumption DEF Worker
  <2>2. queue \in Seq(Connection \cup {Dummy})
    OBVIOUS
  <2>3. clients \in BOOLEAN /\ command \in BOOLEAN /\ stolen \in BOOLEAN /\ lost \in BOOLEAN
    OBVIOUS
  <2>4. /\ pc \in [Worker -> {"none", "pop", "popped", "serve", "done"}]
        /\ socket \in [Worker -> Connection \cup {Dummy, NoSocket}]
        /\ fate \in [Connection -> {"outside", "queued", "popped", "closed", "forgotten"}]
    OBVIOUS
  <2>5. QED
    BY <2>1, <2>2, <2>3, <2>4 DEF TypeOK
<1>2. MainInv /\ NetInv
  BY DEF MainInv, NetInv
<1>3. WorkerInv
  BY DEF WorkerInv
<1>4. QED
  BY <1>1, <1>2, <1>3 DEF ServerInv

\* ... and does not leave it.
LEMMA ServerStep == ServerInv /\ [Next]_vars => ServerInv'
  BY ServerTypeStep, MainStep, NetStep, WorkerStep DEF ServerInv

\* Why a client that is served finds the parts: its thread has not ended, so the registers are
\* there and stop( ) still waits for the net server.
LEMMA ServedFromInv == ServerInv => ServedByRunningParts
<1> SUFFICES ASSUME ServerInv, net # "failed", NEW w \in Worker, pc[w] \in {"popped", "serve"}
             PROVE  registers = "running" /\ event = "running" /\ device = "running"
  BY DEF ServedByRunningParts
<1> USE DEF ServerInv, TypeOK
<1>1. net \in {"listen", "accept", "stop", "wait"}
  BY DEF WorkerInv
<1>2. registers = "running"
  BY <1>1 DEF NetInv
<1>3. main \in {"up", "shutNet", "waitNet"}
  BY <1>1 DEF MainInv
<1>4. QED
  BY <1>2, <1>3 DEF MainInv

-----------------------------------------------------------------------------
(* The theorems about the server. *)

\* ServerInv holds in every state of the server, whatever the clients and the mode commands do.
THEOREM ServerInvariant == Spec => []ServerInv
  BY ServerInit, ServerStep, PTL DEF Spec

\* smarty_server_t::start and stop, net_server_t::finalize: no client is served by a server
\* whose registers, event handler or device have ended.
THEOREM ServerServes == Spec => []ServedByRunningParts
  BY ServerInvariant, ServedFromInv, PTL

-----------------------------------------------------------------------------
(* Application: its steps are steps of the server or leave the server alone. *)

\* The application starts and stops the server; a signal and what strays do nothing to it.
LEMMA AppStepsAreServerSteps == [AppNext]_allVars => [Next]_vars
<1> SUFFICES ASSUME [AppNext]_allVars PROVE [Next]_vars
  OBVIOUS
<1>1. CASE Run
  BY <1>1 DEF Run, LoadConfigs, LoadDriver, LoadServer, CreateDriver, ServerStarts,
              InstallSignalHandlers, DoRunEnds, ServerStops, UnloadServer, UnloadDriver,
              ResetDriver, DeleteDriver, CloseDriver, Next
<1>2. CASE Signal \/ Stray
  BY <1>2 DEF Signal, Stray
<1>3. CASE ServerThreads
  BY <1>3 DEF ServerThreads, Next
<1>4. CASE UNCHANGED allVars
  BY <1>4 DEF allVars
<1>5. QED
  BY <1>1, <1>2, <1>3, <1>4 DEF AppNext

\* Type correctness of what the application adds.
LEMMA AppTypeStep == AppTypeOK /\ [AppNext]_allVars => AppTypeOK'
<1> SUFFICES ASSUME AppTypeOK, [AppNext]_allVars PROVE AppTypeOK'
  OBVIOUS
<1> USE DEF AppTypeOK
<1>1. TypeOK'
  BY AppStepsAreServerSteps, ServerTypeStep
<1>2. CASE Run
  <2>1. CASE \E works \in BOOLEAN : LoadConfigs(works) \/ LoadDriver(works) \/ LoadServer(works)
    BY <1>1, <2>1 DEF LoadConfigs, LoadDriver, LoadServer
  <2>2. CASE CreateDriver \/ ServerStarts \/ InstallSignalHandlers \/ DoRunEnds \/ UnloadServer
    BY <1>1, <2>2 DEF CreateDriver, ServerStarts, InstallSignalHandlers, DoRunEnds, UnloadServer
  <2>3. CASE ServerStops
    BY <1>1, <2>3 DEF ServerStops, appVars
  <2>4. CASE UnloadDriver \/ ResetDriver \/ DeleteDriver \/ CloseDriver
    BY <1>1, <2>4 DEF UnloadDriver, ResetDriver, DeleteDriver, CloseDriver
  <2>5. QED
    BY <1>2, <2>1, <2>2, <2>3, <2>4 DEF Run
<1>3. CASE Signal
  <2>1. m_stopping' \in BOOLEAN
    BY <1>3 DEF Signal
  <2>2. app' \in {app, "killed"} /\ UNCHANGED <<driverLib, serverLib, controller, strayed>>
    BY <1>3 DEF Signal
  <2>3. QED
    BY <1>1, <2>1, <2>2
<1>4. CASE Stray
  BY <1>1, <1>4 DEF Stray, PollThreadStrays, TimerStrays, ClientThreadsStray
<1>5. CASE ServerThreads
  BY <1>1, <1>5 DEF ServerThreads, appVars
<1>6. CASE UNCHANGED allVars
  BY <1>1, <1>6 DEF allVars, appVars
<1>7. QED
  BY <1>2, <1>3, <1>4, <1>5, <1>6 DEF AppNext

\* A net server that ended without finalize( ) stays so.
LEMMA FailedStays == TypeOK /\ MainInv /\ net = "failed" /\ [Next]_vars => net' = "failed"
<1> SUFFICES ASSUME TypeOK, MainInv, net = "failed", [Next]_vars PROVE net' = "failed"
  OBVIOUS
<1>1. CASE StartServer
  BY <1>1 DEF MainInv, StartServer, StartDevice, StartEventHandler, ObserveDevice,
              SetClientRegister, StartNetServer
<1>2. CASE StopNetServer \/ StopServer
  BY <1>2 DEF StopNetServer, StopServer, ShutSocket, StopEventHandler, StopDevice, Stopped
<1>3. CASE QueueCommand \/ ExecuteCommand \/ EventHandlerEnds \/ DeviceEnds
  BY <1>3 DEF QueueCommand, ExecuteCommand, EventHandlerEnds, DeviceEnds, partVars
<1>4. CASE NetThread
  BY <1>4 DEF NetThread, StartRegisters, StartClientHandlers, Listen, LeaveAccept, EndAccept,
              StopHandler, WaitHandler, CleanQueue, StopRegisters
<1>5. ASSUME NEW c \in Connection, Accept(c) \/ ForgetLast(c) PROVE net' = "failed"
  BY <1>5 DEF Accept, ForgetLast, EndAccept, partVars
<1>6. ASSUME NEW w \in Worker, WorkerThread(w) \/ Finish(w) PROVE net' = "failed"
  BY <1>6 DEF WorkerThread, Pop, Break, ServeDummy, Serve, Finish, partVars
<1>7. CASE UNCHANGED vars
  BY <1>7 DEF vars
<1>8. QED
  BY <1>1, <1>2, <1>3, <1>4, <1>5, <1>6, <1>7 DEF Next

\* The threads of the server leave main alone: only start( ) and stop( ) move it.
LEMMA ThreadsLeaveMain == ServerThreads => main' = main
<1> SUFFICES ASSUME ServerThreads PROVE main' = main
  OBVIOUS
<1>1. CASE QueueCommand \/ ExecuteCommand \/ EventHandlerEnds \/ DeviceEnds
  BY <1>1 DEF QueueCommand, ExecuteCommand, EventHandlerEnds, DeviceEnds, partVars
<1>2. CASE NetThread
  BY <1>2 DEF NetThread, StartRegisters, StartClientHandlers, Listen, LeaveAccept, EndAccept,
              StopHandler, WaitHandler, CleanQueue, StopRegisters
<1>3. ASSUME NEW c \in Connection, Accept(c) \/ ForgetLast(c) PROVE main' = main
  BY <1>3 DEF Accept, ForgetLast, EndAccept, partVars
<1>4. ASSUME NEW w \in Worker, WorkerThread(w) \/ Finish(w) PROVE main' = main
  BY <1>4 DEF WorkerThread, Pop, Break, ServeDummy, Serve, Finish, partVars
<1>5. QED
  BY <1>1, <1>2, <1>3, <1>4 DEF ServerThreads

\* Client threads outlive the server's library only if nobody asked them to stop.
LEMMA StrayClientsMeanFailure ==
  ASSUME TypeOK, ServerInv, main = "off", ClientThreadsStray
  PROVE  net = "failed"
<1>1. PICK w \in Worker : pc[w] \notin {"none", "done"}
  BY DEF ClientThreadsStray
<1>2. net # "done"
  BY <1>1 DEF ServerInv, WorkerInv
<1>3. QED
  BY <1>2 DEF ServerInv, MainInv

\* run( ) takes its steps in the order that keeps code and threads together.
LEMMA StageStep == AppIInv /\ [AppNext]_allVars => StageInv'
<1> SUFFICES ASSUME AppIInv, [AppNext]_allVars PROVE StageInv'
  OBVIOUS
<1> USE DEF StageInv
<1>1. TypeOK /\ ServerInv /\ StageInv /\ AppTypeOK
  BY DEF AppIInv, AppTypeOK, ServerInv
<1>2. net = "failed" => net' = "failed"
  BY <1>1, AppStepsAreServerSteps, FailedStays DEF ServerInv
<1>3. CASE Run
  <2>1. CASE \E works \in BOOLEAN : LoadConfigs(works) \/ LoadDriver(works) \/ LoadServer(works)
    BY <1>1, <2>1 DEF LoadConfigs, LoadDriver, LoadServer, vars
  <2>2. CASE CreateDriver \/ InstallSignalHandlers \/ DoRunEnds \/ UnloadServer
    BY <1>1, <2>2 DEF CreateDriver, InstallSignalHandlers, DoRunEnds, UnloadServer, vars
  <2>3. CASE ServerStarts
    BY <1>1, <1>2, <2>3 DEF ServerStarts, StartServer
  <2>4. CASE ServerStops
    <3>1. main # "off" /\ app = "stopServer" /\ UNCHANGED appVars
      BY <2>4 DEF ServerStops, StopNetServer, StopServer, ShutSocket, StopEventHandler,
                  StopDevice, Stopped
    <3>2. QED
      BY <1>1, <1>2, <3>1 DEF appVars
  <2>5. CASE UnloadDriver \/ ResetDriver \/ DeleteDriver \/ CloseDriver
    BY <1>1, <2>5 DEF UnloadDriver, ResetDriver, DeleteDriver, CloseDriver, vars
  <2>6. QED
    BY <1>3, <2>1, <2>2, <2>3, <2>4, <2>5 DEF Run
<1>4. CASE Signal
  BY <1>1, <1>4 DEF Signal, Ended, Installed, vars
<1>5. CASE Stray
  <2>1. UNCHANGED <<vars, app, m_stopping, driverLib, serverLib, controller>>
    BY <1>5 DEF Stray
  <2>2. "clients" \in strayed' => "clients" \in strayed \/ ClientThreadsStray
    BY <1>5 DEF Stray, PollThreadStrays, TimerStrays
  <2>3. ClientThreadsStray => net = "failed"
    BY <1>1, StrayClientsMeanFailure DEF ClientThreadsStray
  <2>4. QED
    BY <1>1, <2>1, <2>2, <2>3 DEF vars
<1>6. CASE ServerThreads
  BY <1>1, <1>2, <1>6, ThreadsLeaveMain DEF ServerThreads, appVars
<1>7. CASE UNCHANGED allVars
  BY <1>1, <1>7 DEF allVars, appVars, vars
<1>8. QED
  BY <1>3, <1>4, <1>5, <1>6, <1>7 DEF AppNext

\* The process starts in a state of its invariant ...
LEMMA AppInitInv == AppInit => AppIInv
<1> SUFFICES ASSUME AppInit PROVE AppIInv
  OBVIOUS
<1>1. ServerInv
  BY ServerInit DEF AppInit
<1>2. AppTypeOK
  BY <1>1 DEF AppInit, AppTypeOK, ServerInv
<1>3. StageInv
  BY DEF AppInit, StageInv, Init
<1>4. QED
  BY <1>1, <1>2, <1>3 DEF AppIInv, ServerInv

\* ... and does not leave it.
LEMMA AppStep == AppIInv /\ [AppNext]_allVars => AppIInv'
  BY AppTypeStep, StageStep, AppStepsAreServerSteps, ServerStep DEF AppIInv, AppTypeOK, ServerInv

\* Parts that run and clients that are served are those of a server that was started and has not
\* yet stopped, and then the libraries and the controller are there.
LEMMA PartsFromInv == AppIInv => PartsEndBeforeTheirCode
<1> SUFFICES ASSUME AppIInv PROVE PartsEndBeforeTheirCode
  OBVIOUS
<1> USE DEF AppIInv, AppTypeOK, TypeOK
<1>1. ASSUME main \notin {"startDevice", "off"}, app # "killed"
      PROVE  serverLib = "mapped" /\ driverLib = "mapped" /\ controller = "running"
  BY <1>1 DEF StageInv
<1>2. device = "running" \/ event = "running" => main \notin {"startDevice", "off"}
  BY DEF MainInv
<1>3. ASSUME NEW w \in Worker, pc[w] \in {"popped", "serve"}
      PROVE  main \notin {"startDevice", "off"}
  <2>1. net \in {"accept", "stop", "wait"}
    BY <1>3 DEF WorkerInv
  <2>2. QED
    BY <2>1 DEF MainInv
<1>4. "clients" \in strayed => net = "failed"
  BY DEF StageInv
<1>5. QED
  BY <1>1, <1>2, <1>3, <1>4 DEF PartsEndBeforeTheirCode

-----------------------------------------------------------------------------
(* The theorems about the application. *)

\* AppIInv holds in every state of the process.
THEOREM AppInvariant == AppSpec => []AppIInv
  BY AppInitInv, AppStep, PTL DEF AppSpec

\* Type correctness of the process, client threads and queue included.
THEOREM AppTypeCorrect == AppSpec => []AppTypeOK
<1>1. AppIInv => AppTypeOK
  BY DEF AppIInv
<1>2. QED
  BY <1>1, AppInvariant, PTL

\* The order of start( ), finalize( ) and stop( ) when it is smarty_app_t::run that calls them,
\* signals at any moment and libraries that do not load included.
THEOREM AppServes == AppSpec => []ServedByRunningParts
<1>1. AppIInv => ServerInv
  BY DEF AppIInv, AppTypeOK, ServerInv
<1>2. QED
  BY <1>1, AppInvariant, ServedFromInv, PTL

\* unload_plugins: the libraries go when the threads that run their code have ended, but for the
\* threads nobody stops; client threads are among these only if listen failed.
THEOREM CodeOutlivesItsThreads == AppSpec => []PartsEndBeforeTheirCode
  BY AppInvariant, PartsFromInv, PTL
=============================================================================
