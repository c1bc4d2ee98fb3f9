-------------------------------- MODULE Server --------------------------------
(***************************************************************************)
(* The life of the server: smarty_server_t starts and stops the device,    *)
(* the event handler and the net server (on the application's thread);     *)
(* net_server_t's thread starts the registers and the client threads,      *)
(* accepts clients and undoes it all when it is asked to stop;             *)
(* client_thread_t's threads take clients off one queue.                   *)
(*                                                                         *)
(* What the parts do while they run is in the modules Device, EventHandler *)
(* and Registers.  Here a part is running or not, the event handler's      *)
(* thread may have a mode command to execute, and device_t::stop may come  *)
(* to nothing, as the module Device shows.                                 *)
(***************************************************************************)
EXTENDS Naturals, Sequences

CONSTANTS
  HANDLERS_COUNT,  \* client threads
  Connection,      \* clients that connect, one connection each
  Dummy,           \* the socket client_thread_t::do_stop pushes
  NoSocket         \* a client thread between two sockets

ASSUME CountAssumption == HANDLERS_COUNT \in Nat \ {0}
ASSUME SocketAssumption ==
  /\ Dummy \notin Connection /\ NoSocket \notin Connection /\ Dummy # NoSocket

Worker == 1 .. HANDLERS_COUNT

VARIABLES
  main,      \* the application's thread: the next step of start( ) or stop( )
  device,    \* the thread of device_t
  event,     \* the thread of event_handler_t
  net,       \* the thread of net_server_t
  listening, \* m_socket of net_server_t
  registers, \* the mobile and the desktop register
  observers, \* the observers of device_t
  clients,   \* event_handler_t::m_clients is set
  command,   \* a mode command is in m_cmd_queue
  asked,     \* threads of the three parts whose stop( ) was called
  turn,      \* the client thread net_server_t::stop_client_handlers is at
  queue,     \* m_clients_queue
  pc,        \* each client thread
  socket,    \* the socket each client thread popped
  stopping,  \* client threads whose stop( ) was called
  fate,      \* what became of each connection
  stolen,    \* history: a client thread took the socket that was to stop another
  lost,      \* history: device_t::stop was wiped out by a round of its thread
  failed     \* history: the assertions that failed

partVars == <<main, device, event, net, listening, registers>>
eventVars == <<observers, clients, command, failed>>
workerVars == <<queue, pc, socket, stopping, fate, stolen>>
vars == <<main, device, event, net, listening, registers, observers, clients, command, asked, turn,
          queue, pc, socket, stopping, fate, stolen, lost, failed>>

-----------------------------------------------------------------------------
Init ==
  /\ main = "startDevice"
  /\ device = "none"
  /\ event = "none"
  /\ net = "none"
  /\ listening = "no"
  /\ registers = "none"
  /\ observers = {}
  /\ clients = FALSE
  /\ command = FALSE
  /\ asked = {}
  /\ turn = 1
  /\ queue = <<>>
  /\ pc = [w \in Worker |-> "none"]
  /\ socket = [w \in Worker |-> NoSocket]
  /\ stopping = {}
  /\ fate = [c \in Connection |-> "outside"]
  /\ stolen = FALSE
  /\ lost = FALSE
  /\ failed = {}

(***************************************************************************)
(* smarty_server_t::start, on the application's thread.                    *)
(***************************************************************************)
StartDevice ==
  /\ main = "startDevice"
  /\ device' = "running"
  /\ main' = "startEvent"
  /\ UNCHANGED <<event, net, listening, registers, eventVars, asked, turn, workerVars, lost>>

StartEventHandler ==
  /\ main = "startEvent"
  /\ event' = "running"
  /\ main' = "observe"
  /\ UNCHANGED <<device, net, listening, registers, eventVars, asked, turn, workerVars, lost>>

\* m_device->add_observer( *m_event_handler ): from here on events may fire.
ObserveDevice ==
  /\ main = "observe"
  /\ observers' = observers \cup {"event"}
  /\ main' = "setClients"
  /\ UNCHANGED <<device, event, net, listening, registers, clients, command, failed, asked, turn,
                 workerVars, lost>>

SetClientRegister ==
  /\ main = "setClients"
  /\ clients' = TRUE
  /\ main' = "startNet"
  /\ UNCHANGED <<device, event, net, listening, registers, observers, command, failed, asked, turn,
                 workerVars, lost>>

StartNetServer ==
  /\ main = "startNet"
  /\ net' = "init"
  /\ main' = "up"
  /\ UNCHANGED <<device, event, listening, registers, eventVars, asked, turn, workerVars, lost>>

(***************************************************************************)
(* smarty_server_t::stop, after a signal.                                  *)
(***************************************************************************)
\* Mutant of StopNetServer: the event handler is stopped first.
StopEventHandlerFirst ==
  /\ main = "up"
  /\ asked' = asked \cup {"event"}
  /\ observers' = observers \ {"event"}
  /\ main' = "waitEvent"
  /\ UNCHANGED <<device, event, net, listening, registers, clients, command, failed, turn,
                 workerVars, lost>>

\* net_server_t::stop: the flag is_stopping looks at ...
StopNetServer ==
  /\ main = "up"
  /\ asked' = asked \cup {"net"}
  /\ main' = "shutNet"
  /\ UNCHANGED <<device, event, net, listening, registers, eventVars, turn, workerVars, lost>>

\* ... and do_stop, which comes to nothing before the socket listens.
ShutSocket ==
  /\ main = "shutNet"
  /\ listening' = IF listening = "yes" THEN "closed" ELSE listening
  /\ main' = "waitNet"
  /\ UNCHANGED <<device, event, net, registers, eventVars, asked, turn, workerVars, lost>>

StopEventHandler ==
  /\ main = "waitNet"
  /\ net \in {"done", "failed"}
  /\ asked' = asked \cup {"event"}
  /\ observers' = observers \ {"event"}
  /\ main' = "waitEvent"
  /\ UNCHANGED <<device, event, net, listening, registers, clients, command, failed, turn,
                 workerVars, lost>>

\* wasLost: m_update_event is set while a round of the device's thread will yet reset it.
StopDevice(wasLost) ==
  /\ main = "waitEvent"
  /\ event = "done"
  /\ asked' = asked \cup {"device"}
  /\ lost' = wasLost
  /\ main' = "waitDevice"
  /\ UNCHANGED <<device, event, net, listening, registers, eventVars, turn, workerVars>>

Stopped ==
  /\ main = "waitDevice"
  /\ device = "done"
  /\ main' = "off"
  /\ UNCHANGED <<device, event, net, listening, registers, eventVars, asked, turn, workerVars,
                 lost>>

(***************************************************************************)
(* The threads of the device and of the event handler.                     *)
(***************************************************************************)
\* A callback of the device's thread fires an event with a mode command.
QueueCommand ==
  /\ device = "running"
  /\ "event" \in observers
  /\ ~command
  /\ command' = TRUE
  /\ UNCHANGED <<partVars, observers, clients, failed, asked, turn, workerVars, lost>>

\* set_mode_bit, with its ASSERT, and on_update_modes_request, with its own.
ExecuteCommand ==
  /\ event = "running"
  /\ "event" \notin asked
  /\ command
  /\ command' = FALSE
  /\ failed' = failed \cup (IF ~clients THEN {"m_clients"}
                            ELSE IF registers = "none" THEN {"m_mobile_register"} ELSE {})
  /\ UNCHANGED <<partVars, observers, clients, asked, turn, workerVars, lost>>

EventHandlerEnds ==
  /\ event = "running"
  /\ "event" \in asked
  /\ event' = "done"
  /\ UNCHANGED <<main, device, net, listening, registers, eventVars, asked, turn, workerVars, lost>>

DeviceEnds ==
  /\ device = "running"
  /\ "device" \in asked
  /\ ~lost
  /\ device' = "done"
  /\ UNCHANGED <<main, event, net, listening, registers, eventVars, asked, turn, workerVars, lost>>

(***************************************************************************)
(* The thread of the net server.                                           *)
(***************************************************************************)
\* start_mobile_register and start_desktop_register.
StartRegisters ==
  /\ net = "init"
  /\ registers' = "running"
  /\ observers' = observers \cup {"mobile"}
  /\ net' = "startHandlers"
  /\ UNCHANGED <<main, device, event, listening, clients, command, failed, asked, turn, workerVars,
                 lost>>

StartClientHandlers ==
  /\ net = "startHandlers"
  /\ pc' = [w \in Worker |-> "pop"]
  /\ net' = "listen"
  /\ UNCHANGED <<main, device, event, listening, registers, eventVars, asked, turn, queue, socket,
                 stopping,
                 fate, stolen, lost>>

\* The result of listen; without it do_run returns and finalize is not called.
Listen(works) ==
  /\ net = "listen"
  /\ net' = IF works THEN "accept" ELSE "failed"
  /\ listening' = IF works THEN "yes" ELSE listening
  /\ UNCHANGED <<main, device, event, registers, eventVars, asked, turn, workerVars, lost>>

Accept(c) ==
  /\ net = "accept"
  /\ "net" \notin asked
  /\ fate[c] = "outside"
  /\ queue' = Append(queue, c)
  /\ fate' = [fate EXCEPT ![c] = "queued"]
  /\ UNCHANGED <<partVars, eventVars, asked, turn, pc, socket, stopping, stolen, lost>>

\* is_stopping, once accept has returned: m_socket is closed, if it was not before.
EndAccept ==
  /\ net = "accept"
  /\ "net" \in asked
  /\ listening' = "closed"
  /\ net' = "stop"
  /\ UNCHANGED <<main, device, event, registers, eventVars, asked, turn, queue, pc, socket,
                 stopping, stolen, lost>>

\* do_stop has closed the socket ...
LeaveAccept ==
  /\ listening = "closed"
  /\ EndAccept
  /\ UNCHANGED fate

\* ... or a last client connects, and is forgotten.
ForgetLast(c) ==
  /\ fate[c] = "outside"
  /\ EndAccept
  /\ fate' = [fate EXCEPT ![c] = "forgotten"]

\* client_thread_t::stop with do_stop, for one client thread ...
StopHandler ==
  /\ net = "stop"
  /\ stopping' = stopping \cup {turn}
  /\ queue' = Append(queue, Dummy)
  /\ net' = "wait"
  /\ UNCHANGED <<main, device, event, listening, registers, eventVars, asked, turn, pc, socket,
                 fate, stolen,
                 lost>>

\* Mutant of WaitHandler: one client thread too many.
WaitPastTheLast ==
  /\ net = "wait"
  /\ pc[turn] = "done"
  /\ turn' = turn + 1
  /\ net' = IF turn > HANDLERS_COUNT THEN "clean" ELSE "stop"
  /\ UNCHANGED <<main, device, event, listening, registers, eventVars, asked, workerVars, lost>>

\* ... and wait( ) before the next.
WaitHandler ==
  /\ net = "wait"
  /\ pc[turn] = "done"
  /\ turn' = IF turn = HANDLERS_COUNT THEN turn ELSE turn + 1
  /\ net' = IF turn = HANDLERS_COUNT THEN "clean" ELSE "stop"
  /\ UNCHANGED <<main, device, event, listening, registers, eventVars, asked, workerVars, lost>>

\* clean_clients_queue pops and deletes nothing.
CleanQueue ==
  /\ net = "clean"
  /\ queue' = <<>>
  /\ fate' = [c \in Connection |-> IF fate[c] = "queued" THEN "forgotten" ELSE fate[c]]
  /\ net' = "stopRegisters"
  /\ UNCHANGED <<main, device, event, listening, registers, eventVars, asked, turn, pc, socket,
                 stopping,
                 stolen, lost>>

\* stop_desktop_register and stop_mobile_register.
StopRegisters ==
  /\ net = "stopRegisters"
  /\ registers' = "stopped"
  /\ observers' = observers \ {"mobile"}
  /\ net' = "done"
  /\ UNCHANGED <<main, device, event, listening, clients, command, failed, asked, turn, workerVars,
                 lost>>

(***************************************************************************)
(* A client thread.                                                        *)
(***************************************************************************)
Pop(w) ==
  /\ pc[w] = "pop"
  /\ queue # <<>>
  /\ socket' = [socket EXCEPT ![w] = Head(queue)]
  /\ queue' = Tail(queue)
  /\ pc' = [pc EXCEPT ![w] = "popped"]
  /\ fate' = IF Head(queue) \in Connection THEN [fate EXCEPT ![Head(queue)] = "popped"] ELSE fate
  /\ UNCHANGED <<partVars, eventVars, asked, turn, stopping, stolen, lost>>

\* What becomes of the socket a client thread is done with.
Closed(w) ==
  /\ fate' = IF socket[w] \in Connection THEN [fate EXCEPT ![socket[w]] = "closed"] ELSE fate
  /\ socket' = [socket EXCEPT ![w] = NoSocket]

\* is_stopping: whatever was popped is deleted.
Break(w) ==
  /\ pc[w] = "popped"
  /\ w \in stopping
  /\ Closed(w)
  /\ pc' = [pc EXCEPT ![w] = "done"]
  /\ UNCHANGED <<partVars, eventVars, asked, turn, queue, stopping, stolen, lost>>

\* Not asked to stop, the thread takes the socket for a client and fails to receive from it.
ServeDummy(w) ==
  /\ pc[w] = "popped"
  /\ w \notin stopping
  /\ socket[w] = Dummy
  /\ Closed(w)
  /\ stolen' = TRUE
  /\ pc' = [pc EXCEPT ![w] = "pop"]
  /\ UNCHANGED <<partVars, eventVars, asked, turn, queue, stopping, lost>>

\* create_client_handler, make_handshake and process_client, until the client leaves ...
Serve(w) ==
  /\ pc[w] = "popped"
  /\ w \notin stopping
  /\ socket[w] \in Connection
  /\ pc' = [pc EXCEPT ![w] = "serve"]
  /\ UNCHANGED <<partVars, eventVars, asked, turn, queue, socket, stopping, fate, stolen, lost>>

\* Mutant of Finish: the thread ends with its client.
FinishAndEnd(w) ==
  /\ pc[w] = "serve"
  /\ Closed(w)
  /\ pc' = [pc EXCEPT ![w] = "done"]
  /\ UNCHANGED <<partVars, eventVars, asked, turn, queue, stopping, stolen, lost>>

\* ... and finish_connection.
Finish(w) ==
  /\ pc[w] = "serve"
  /\ Closed(w)
  /\ pc' = [pc EXCEPT ![w] = "pop"]
  /\ UNCHANGED <<partVars, eventVars, asked, turn, queue, stopping, stolen, lost>>

StartServer ==
  \/ StartDevice
  \/ StartEventHandler
  \/ ObserveDevice
  \/ SetClientRegister
  \/ StartNetServer

StopServer ==
  \/ ShutSocket
  \/ StopEventHandler
  \/ \E wasLost \in BOOLEAN : StopDevice(wasLost)
  \/ Stopped

NetThread ==
  \/ StartRegisters
  \/ StartClientHandlers
  \/ \E works \in BOOLEAN : Listen(works)
  \/ LeaveAccept
  \/ StopHandler
  \/ WaitHandler
  \/ CleanQueue
  \/ StopRegisters

\* All of a client thread that does not wait for its client.
WorkerThread(w) == Pop(w) \/ Break(w) \/ ServeDummy(w) \/ Serve(w)

Next ==
  \/ StartServer
  \/ StopNetServer
  \/ StopServer
  \/ QueueCommand
  \/ ExecuteCommand
  \/ EventHandlerEnds
  \/ DeviceEnds
  \/ NetThread
  \/ \E c \in Connection : Accept(c) \/ ForgetLast(c)
  \/ \E w \in Worker : WorkerThread(w) \/ Finish(w)

Spec == Init /\ [][Next]_vars

-----------------------------------------------------------------------------
TypeOK ==
  /\ main \in {"startDevice", "startEvent", "observe", "setClients", "startNet", "up", "shutNet",
               "waitNet", "waitEvent", "waitDevice", "off"}
  /\ device \in {"none", "running", "done"}
  /\ event \in {"none", "running", "done"}
  /\ net \in {"none", "init", "startHandlers", "listen", "failed", "accept", "stop", "wait",
              "clean", "stopRegisters", "done"}
  /\ listening \in {"no", "yes", "closed"}
  /\ registers \in {"none", "running", "stopped"}
  /\ observers \subseteq {"event", "mobile"}
  /\ clients \in BOOLEAN
  /\ command \in BOOLEAN
  /\ asked \subseteq {"net", "event", "device"}
  /\ turn \in Worker
  /\ queue \in Seq(Connection \cup {Dummy})
  /\ pc \in [Worker -> {"none", "pop", "popped", "serve", "done"}]
  /\ socket \in [Worker -> Connection \cup {Dummy, NoSocket}]
  /\ stopping \subseteq Worker
  /\ fate \in [Connection -> {"outside", "queued", "popped", "closed", "forgotten"}]
  /\ stolen \in BOOLEAN
  /\ lost \in BOOLEAN
  /\ failed \subseteq {"m_clients", "m_mobile_register"}

(***************************************************************************)
(* A client thread that serves a client uses the registers, the event      *)
(* handler and the device, and finds them running: start( ), finalize( )   *)
(* and stop( ) go up and down in the right order.  Not so when listen      *)
(* failed: then do_run returns and nobody stops the client threads.        *)
(***************************************************************************)
ServedByRunningParts ==
  net # "failed" /\ (\E w \in Worker : pc[w] \in {"popped", "serve"}) =>
    registers = "running" /\ event = "running" /\ device = "running"

(***************************************************************************)
(* "ASSERT( m_clients.get( ) != nullptr )" (event_handler.cpp:160) and     *)
(* "ASSERT( m_mobile_register.get( ) != nullptr )" (net_server.cpp:227):   *)
(* a mode command finds whom to tell the clients of it.                    *)
(***************************************************************************)
AssertionsHold == failed = {}
=============================================================================
