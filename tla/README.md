# A model of smarty

smarty switches the lights of a house. A microcontroller reads buttons and
sensors and drives the lights; a server on a small Linux board polls it, runs
events ("when the move sensor changes to low, turn on the lamp and turn it off
after 30 seconds"), and serves mobile clients (an Android application) and
desktop clients over TCP. This directory holds TLA+ modules of the server, of the
process it runs in, of the firmware and of the mobile application, the TLC runs that
check them and the proofs TLAPS checks.
Paths below are relative to `src/src/` unless they start with `cfg/` or `bin/`.

## The system

| part | source | state | operations | threads |
|---|---|---|---|---|
| device driver | `driver/device_driver.cpp`, `driver/main.cpp` | the bus | `execute_command` (its body is commented out), `create_driver`, `free_driver` | the caller's |
| device controller | `driver/device_controller.cpp` | `m_device_state`, `m_light_times`, `m_observers_list`, `m_device_lock` | `execute_command`, `get_state`, `add_observer`, `remove_observer`, poll | its own, every 50 ms, and any caller |
| device | `server/device/device.cpp` | `m_device_state`, `m_prev_device_state`, `m_double_click_pin`, `m_update_event`, `m_observers` | the driver's callbacks, `check_for_changes`, `stop` | its own; the callbacks come under the controller's lock |
| event handler | `server/event/*.cpp`, `server/command/*.cpp`, `server/device/light_object.cpp` | `m_event_modes_bitset`, previous words of the events, `m_cmd_queue`, turn-off times | callbacks of the device, `update_modes`, `add_command`, `process_command`, `check_light_objects`, `set_mode_bit` | its own; the device's; one per mobile client |
| event parser | `server/event/event_parser.cpp` | `m_modes`, `m_sensors`, `m_lights` while it reads | builds events and actions from the configuration | the starting one |
| mobile register and handler | `server/mobile/*.cpp` | `m_client_list` under `m_client_list_mutex` | handshake, `add_client`, `remove_client`, notifications, heartbeats | one per client, heartbeat thread, device thread |
| desktop register and handler | `server/desktop/*.cpp` | `m_desktops` under `m_clients_lock` | handshake, `add_desktop`, `remove_desktop`, `refresh_desktops_info`, `execute_command`, heartbeats | one per client, heartbeat thread, threads of mobiles |
| net server, client threads | `server/server/net_server.cpp`, `server/client/client_thread.cpp` | `m_clients_queue`, `m_client_handlers` | accept, serve, start and stop | its own and `HANDLERS_COUNT` client threads |
| server | `server/server/smarty_server.cpp` | the three parts | `start`, `stop` | the application's |
| application, plugins | `smarty/*.cpp`, `common/library_intf.cpp` | the two libraries | load, start, wait for a signal, stop, unload | main |
| firmware | `mc/smarty_ir.v2.0.c` | `recv_buffer`, `pos`, `process_it`, lights, buttons | SPI interrupt, main loop | interrupt and main loop |
| timer | `server/event/timer.cpp` | a queue nothing fills | a loop of one second | its own, never stopped |
| mobile application | `mobileApp/**/*.java` | the socket, `m_eventModes`, `m_config`, `m_modesActivityForeground` | connect loop, packets, activities | connection thread, main thread |
| configuration, protocol | `common/*` | none | JSON, packet layouts, names | — |

The threads, locks, events, queues and sockets themselves come from a framework
outside the repository; they are modelled by how this code uses them
(`thread_base_t::stop` sets the flag that `is_stopping` reads, then calls
`do_stop`; `lock_queue_t::pop` waits; `event_t` of `device_t` is of manual reset).

How the parts meet: the driver's callbacks run on whichever thread holds the
controller's lock and only write a word of `device_t` and set its event; the
device's thread then calls the event handler and the mobile register; the event
handler's thread executes queued commands, which call the driver again or change
the modes and have the mobile register tell the clients; a desktop's thread
tells the mobiles through the mobile register, and a mobile's thread reaches the
desktops through the desktop register; starting and stopping all of it is a
chain of `start`, `stop` and `wait` inside a process that loads the driver and the
server as libraries. The event parser gives the event handler its events before its
thread starts. The mobile application's main thread writes to the same stream as its
connection's thread; what it clicks becomes an `update_modes` of the event handler,
which the mobile register announces to every client.

What is hard, and where: the unlocked hand-over between callbacks and the
device's thread; state of events, modes and timeouts that three kinds of threads
change; two registers that call each other under two locks, with clients that
vanish; the order of starting, stopping and unloading; and a client with two threads
on one connection whose modes come back to it by two ways. `PROJECT.json` lists the
hazards at their lines with the properties that cover them.

## The modules

### DeviceController

`device_controller_t`. `pc[t]` is where thread `t` is in `do_execute_command`;
`owner` is `m_device_lock`. `ExecuteCommand` is a call of `execute_command` (the
command, then `EC_STATUS`: `calls` counts them), `Poll` one turn of the poll
loop. `SendHalf` is the first half of a 0xFF command, `SendChanged` and
`SendUnchanged` the outcomes of the condition in line 118, `CompareLights` to
`Store` the rest, one step for each loop over the observers. `GetState`,
`AddObserver` and `RemoveObserver` take no lock, as in the code; a `GetState`
during `Store` may read any mix of the old and the new words. The driver's answer
is any state. `halfSent`, `inSync` and `flipped` are history.

* `PairIsAtomic`: nobody is between lock and unlock while another thread has sent
  half of a 0xFF command.
* `ObserversInSync`: with the lock free, an observer that knew the state when it
  registered knows it now.
* `DoubleClickIsTwoFlips`: `on_double_click` only for a light that flips now and
  whose last flip in a stored state is less than two seconds old. (The comment
  in line 161 says one second; on whole seconds, a difference of 1 spans up to
  nearly two.)
* `ImplementsFeed`: the controller implements the abstract specification
  DeviceFeed, what a driver promises to those who observe it. There the device has
  one state after another; a word is told to all followers at once; a state counts
  only when every follower knows all of it. The mapping takes the state just read
  (`fresh`) as pending until `Store`, and the observers in sync as the followers; one
  that registers late, or while a change is told, is none.

### Device

`device_t`. The three words and the pin of a double click are four items looked
at in one order; `item` is the one in hand. `OnChanged` is the write of a
callback and `Announce` its `m_update_event.set( )`; the device's thread goes
through `WaitStateUpdate`, `CheckForChanges`, for each item `CheckSame` or
`CheckDiffers`, `Tell`, `AllTold`, then `SaveWord` three times (the assignment
copies word by word, and callbacks may come in between), `ClearDoubleClick`,
`ResetEvent`. `Stop` is the flag and `DoStop` the event. `late[i]` is history:
item `i` was written after the round in progress had compared it.

* `OnlyLateChangesAreLost`: when the thread sleeps and nothing is under way, an
  observer is wrong about a word only if its last change was late.
* `DoubleClickToldBeforeForgotten`: the pin is cleared after all were told, or
  the click was late.
* `ChangeIsTold`, `StopOutsideARoundEnds`: what does reach everybody, and when
  `stop( )` does work.
* `ChangesAreNotified` is what the comment in line 104 says, and fails: `reset( )` in
  line 84 wipes out whatever was set during the round (run `DeviceChanges`). For the
  same reason a `stop( )` during a round may be lost, which Application assumes.

### EventHandler

`event_handler_t` with its events, commands and light objects. The events a
configuration describes are constants (`Events`, `ModeEvents`); the assumption
`EventsAreParsed` of MCEventHandler has TLC check that those of the runs are what
EventGrammar makes of the texts (in the words of `bin/smarty.cfg`). `Callback` stores the word; then each event is one step:
`OnEvent` or, when `check_mode` keeps it out, `SkipEvent`. `UpdateModes` is the test
of `update_modes` (line 125), `SetModes` its store (130). Then each mode event's
`on_event` runs, and nothing in it is locked: `LoadBits` and `Compare` are line 33,
`Reload` the load of line 34 and `Keep` its store to `m_prev_bitset`, `Act` the last look
at the bitset and the push; another client's thread may come between any two, on the
same event. (The Makefile builds without optimization, so each read is a load.)
`NotifyClients` ends the update. `hold` is the bitset a client's thread has in hand and
`fired` the local of that name; `bypassed`, `overtaken` and `owed` are history. The
handler's thread takes one command at a turn (`ArmLight`, `SwitchLight`, or `LoadModes` and `StoreModes`,
the two halves of `set_mode_bit`) and then runs `CheckLightObjects`. `left` is
the rest of a light's time, counted down by `Second`; `AddCommandDelay` is the
"delayed" command of a mobile client.

* `EventComparesWithTheWordBefore`: an event that saw the last callback for its
  word compares the new word with the one before it.
* `ModeEventsKnowTheirMode`: with no thread in the mode events, each mode event's
  previous bit is the mode's, but for bits that `set_mode_bit` changed since the last
  update (`bypassed`), and for an event that another thread had loaded the bitset for and
  not yet stored when the modes were last set (`overtaken`). Such a late store leaves the
  event with a mode that is gone, until the next update.
* `DueActionsAreQueued`: an update that turns a mode to what an event waits for, with no
  other thread in that event's `on_event`, has had the event's actions queued when the
  updates are over, unless the mode was turned back. With another thread there they may be
  lost: it compares before the update and reloads after it, then `m_prev_bitset` has modes
  that nobody compared, and the updating thread finds no flip. So "night mode is enabled"
  (`bin/smarty.cfg:34`) need not disable the button.
* `ArmedLightGoesOff`: a light whose time has come goes off, or is given a new
  time, or the handler is being stopped.
* `StopEnds`: `stop( )` ends the handler's thread whatever is queued.
* `TurnOffWaitsForTimeout` is what `cfg/smarty.cfg:28` says of the lamp, and fails
  (run `LampTimeout`).

An event whose mode is off is skipped, and its previous word with it; when the mode is
on again it compares with a word of long ago. `EventComparesWithTheWordBefore` holds
because it excepts those (`skipped`).

### EventGrammar and EventParser

`event_parser_t`, and `event_handler_t::init` which calls it. A text is the sequence of
its words, a JSON object a record of the members it has. EventGrammar is pure: how
words, names, conditions and actions are understood, each operator under the name of
its function; what is not understood is `Refusal`. EventParser is the walk over the
file: `InitLightObjects`, `ParseModes`, `ParsePinNames`, then for each event
`ParseCondition`, which puts it in the handler's list, `ParseActions` with the nodes
that are still to be read (`agenda`), and `SetActions`. `Refuse` is `return false`
anywhere below `init`, which the server answers with an assertion; a failing assertion
of the parser or of `create_device_command` is `assert`.

The properties compare with `config.meant`, which the program never sees: what the
author of each event means. `AuthorAssumption` says how an author writes it (`Says`): the
forms of `bin/smarty.cfg` in texts and of `cfg/smarty.cfg` in JSON, with any words between
those that count. The program has no grammar, so this part is external. What it leaves
out, and what the parser does there: actions nested deeper than an array of one text (it
flattens any depth); a delay in other units than seconds (it does not look at the unit);
a mode event or action for "all" (it takes mode 0); pin 0 (it wraps to `INVALID_PIN`).
MCEventParser makes its texts and nodes from the meanings, and TLC evaluates the
assumption on them.

* `EventsAreMeant`: an event that was read is in the right list, watches the pin or
  mode that is meant, in the mode that is meant, and has its own actions, all and in
  order.
* `RefusedIffNotClear`: the start is refused before the events if lights, sensors or modes
  are missing or without names (even where the events would not need them), else at the
  first event that names something undeclared or lacks a part, and at no other. JSON actions are refused whatever they
  say: `parse_action_json` (line 440) returns false after it has made the command. So
  the events of `cfg/smarty.cfg` in that form do not start (they also say "set_state" where
  the parser looks for "turn on").
* `AssertsOnlyForSparsePins`: the assertion in `event_handler.cpp:334` compares a pin
  with the count of lights; texts fail it only if a pin is greater than that count.

A light in a text is watched by its button: `case LIGHT_TURNED` of
`parse_condition_text` creates a button's event (`ListOf`).

### Registers

Both registers with the threads of their clients. A client is one connection; its
`pc` is where its thread is in `make_handshake` and `process_client`. A section
under `m_client_list_mutex` calls nothing that locks, so it is one step; under
`m_clients_lock` the desktop register calls the mobile one, so `lock` has an owner
and the sections have several steps. `gone` are clients that lost power or
network: sends to them may fail, and then `Drop` is `drop_client`. Two places are
undefined in C++ (line 113 of `desktop_register.cpp` goes on from an erased
iterator; line 201 of `mobile_register.cpp` writes a node that may be erased):
either does nothing or ends the process (`up`).

Of `device_t` the registers have the lights, at the grain of the module Device:
`ChangeLights` and `Announced` are the callback's store and its event, at any time, also
in a round; `OtherChange` is a callback for another word. A round of the device's thread is
`WakeUp`, `CompareLights`, `FindNobody` or `FindMobiles` (the list is looked at without
the mutex), `ReadLights` (the observers get a reference, so the lights are read now),
`UpdateClients`, `SaveLights`, `ResetEvent`. `carried` is history: the last change of the
lights is one that some round will tell.

* `ConnectedDesktopsAreKnown`: with the lock free, a registered mobile past its
  refresh knows every registered desktop past its announcement. The converse
  does not hold: `check_liveness` of the desktops tells nobody, so mobiles may
  show desktops that are gone.
* `RegisteredClientsAreServed`: no register holds a client whose thread has left.
* `MobilesSeeTheLights`: when the device's thread sleeps with no event set and no callback
  under way, a registered mobile has the device's lights. Two cases are left out by name:
  other lights were told between its handshake and `add_client` (`missed`: nobody tells
  it), and the last change was one the device's thread swallows (not `carried`: written in
  a round after the lights were read, so that lines 190 and 84 copy it and reset its event,
  as Device shows; or taken back before they were compared). What is left is that nothing
  else makes a mobile stale: not the unlocked look at the list, not a client that
  registers, leaves or is dropped in the round.
* `GoneClientsAreForgotten`: the heartbeats find clients that vanished, also
  where another client beats for their index.

### Server and Application

Server: `smarty_server_t`, `net_server_t` and `client_thread_t`: who is running when.
`main` is the application's thread in `start` and `stop`, `net` the net server's
thread in `do_run`, `pc[w]` client thread `w`. The parts are running or not;
`lost` says that `device_t::stop` was wiped out, as the module Device shows it can
be. `listening` is the net server's socket: not yet listening, listening, or closed. The
stop of the net server is two steps, `StopNetServer` (the flag) and `ShutSocket`
(`do_stop`, which closes the socket if it is open by then). `accept` returns for a closed
socket (`LeaveAccept`), for a client (`Accept`), and for a last client after the flag
(`ForgetLast`), as the flag is read only after it has returned. `Listen(FALSE)` is a
failing `listen`, after which `do_run` returns and nothing is undone.

Application extends it to the process: `app` is where `smarty_app_t::run` is, from
`LoadConfigs` to the destructors (`ResetDriver`, or `DeleteDriver` and `CloseDriver` when
the server's library is not there). Both libraries may fail to load; `Signal` comes at
any time and ends the process if the handlers are not installed yet. `CreateDriver`
starts the controller's poll thread and `StartEventHandler` the timer's, and no code stops
either: `strayed` is history of threads that ran in a library that was unmapped or
used a controller that was deleted.

* `ServedByRunningParts`: a client thread that serves a client finds registers,
  event handler and device running (but for the failing `listen`).
* `PartsEndBeforeTheirCode`: whatever part of the server runs, both libraries and the
  controller are there; but for the poll thread, the timer and (after a failing
  `listen`) the client threads, no thread strays.
* `SignalEndsTheProgram`: a signal ends the program, but for four reasons: a client
  thread took the socket that was pushed for another, a client does not leave, the
  device lost the request, or the stop came before `listen` (`StoppedBeforeListen`):
  `shutdown` and `close` are over then, and `accept` waits on a socket nobody closes until
  a client connects. Then `stop( )` never returns, and as the handlers are
  installed no further signal helps.
* `QueuedClientsAreTaken`: a queued client is taken unless all threads are busy
  or being stopped.
* `AssertionsHold` fails (run `StartAsserts`, of Server alone): the event handler observes
  the device before anything it asserts exists.

### MobileApp

The mobile application's two threads and the server's side of its connection.
`thread` is `ConnectionHandler.run` and `do_run`, `ui` the main thread in a click,
`screen`, `boxes` and `posted` are `ModesActivity` and the runnables it posts; on the
server `handler` is `mobile_handler_t`, `loaded` the half of `set_mode_bit`, `announcing`
who is between `get_modes_bitset( )` and the register's lock. Packets to the server are
words (`toServer`), because `PacketBase.send` of two threads may fall into one another:
`Write` is one word. `setEventModesBitset` runs on both threads, and every read and write
of `m_eventModes` is a step: on the connection's thread `SetEventModes`, `CheckForeground`,
`LoadForeground`, `ReadModes`, `PostModes`; in a click `WriteClick`, `ReadClick`,
`PostClick`, then `RequestModesUpdate`, which reads the field once more for the packet.
(What one thread assigns the other is taken to see at once, although the fields are not
volatile.) `target` is the activity whose boxes a thread is about to post to. Packets to
the application are whole. A light notification has
four bytes of which the application reads one; then it is in the wrong `place`, and
`ReceiveGarbled` says what the next packets may become: the magic is unknown, the size is
64 MB and more, and the application has no memory for that (`died`) or reads away what is
there. `Break` is the network, at any time; `AskAlive` and `DropClient` are `check_liveness`.

`PacketBase` finds a packet's fields by `Class.getField`, which returns public ones only,
and those in `Packets.java` are not public; the model is of what the packets are meant to
hold, as a build in which the fields are not found sends no handshake.

* `ScreenShowsTheModes`: when nothing is under way, the application has the server's
  modes, and its boxes show them if they are in the foreground. The exceptions are
  history: `raced` (two announcements in the wrong order, one between handshake and
  `add_client`, or `set_mode_bit` over an update), `torn` (a packet in a packet: for
  instance a heartbeat answer inside a click makes the server read modes 0), `behind`
  (modes that changed while the boxes were hidden; `onResume` does not ask for them), and
  `crossed`: the modes last posted to the boxes had been overwritten by the other thread
  after line 93 of `SmartyApplication.java` had read them. In the last case the server may
  have the application's modes already, and then no announcement ever corrects the boxes.
* `LostPlaceEnds`: an application in the wrong place does not answer heartbeats, is
  dropped and starts anew, or has died.

Two hazards have no property, as no text of the repository promises otherwise: `onPause`
between test and use of `m_modesActivityForeground` (a null pointer, `died`), and a
thread that ends for good when a handshake cannot be sent (`thread = "ended"`).

### Firmware

`mc/smarty_ir.v2.0.c`. The SPI interrupt is `Transfer` (`Store`, or `Wrap` when the
buffer is full); the main loop is `UpdateLights`, `SetBuffer`, then `process_command`
as `NothingToProcess`, or `Accept` and `ExecuteCommand`, or `Reject`, and its end
`ResetPos` and `ClearProcess`. The interrupt may come between any two of them.
`recv`, `pos` and `process` are the globals; `error` tells which bytes of
`send_buffer` hold 0xEE. The master is external, as the driver's body is
commented out: it sends six bytes at any speed and begins a request only when
`Quiet`, the main loop having come round after the last one. `moved`, `clean` and
`executed` are history. The sensors' word is left out: it is copied, no more.

* `ExecutesWhatWasSent`: what is executed is the request just sent, whole, once.
* `CleanRequestsAreExecuted`: a parameter of 0xFF ends a request early, and
  may cost it and the next one, not the one after. This is why the controller sends
  a 0xFF command as 0x0F and 0xF0 (`SendHalf` of DeviceController).
* `AnswersAreAligned`: in such a request the answer's bytes go out in their places.
* `OnlyButtonsSwitchLights`: a light switched by `update_lights` has a button that
  moved and is not disabled.

Byte 0 of `send_buffer`, once 0xEE, is never cleared: `set_buffer` writes bytes 1 to
3. No property is about it, since nothing in the repository reads that byte.

## The runs and their bounds

| run | instance | distinct states | shows |
|---|---|---|---|
| DeviceController | 2 callers, poll thread, 1 observer, 1 light, 2 values of buttons, 3 seconds | 553 380 | the controller's properties |
| Device | 2 observers, 2 values of lights, 1 button that can double click | 150 144 | the device's properties, safety and liveness, and the invariant the proofs use |
| DeviceChanges | as above, 1 observer | — | the violation |
| EventHandler | 2 mobiles, 1 mode, 1 mode event, 1 sensor event in that mode that turns on a light and the mode, delays of 1 second | 993 252 | the handler's properties |
| LampTimeout | bits of `bin/smarty.cfg`: 1 light, 1 sensor event in mode 1, 1 double click event, 1 mode event, 2 modes, 2 mobiles | — | the violation |
| EventParser | two events: 14 conditions with 5 lists of actions in 4 forms, then one shipped event; dense and sparse pins; 10 broken files | 4 488 | what is built, refused and asserted |
| Registers | 1 mobile, 2 desktops that share 1 index | 67 454 | the registers' safety; clients that vanish are found |
| RegistersLights | 2 mobiles (symmetric), 2 values of lights (symmetric), 1 other word | 1 370 384 | mobiles have the lights |
| Application | 2 client threads, 3 clients | 37 309 | loading, starting, serving, stopping, unloading |
| StartAsserts | Server with the same | — | the violation |
| MobileApp | 1 mode, 1 packet on its way to it, any breaks of the network, 1 click, 1 mode set by an event | 1 665 470 | the application's modes and its lost place |
| Firmware | 1 light and its button, 8 requests that cover the commands, some with 0xFF | 881 448 | the firmware's properties and the invariant the proofs use |

Why these are enough: the interesting cases need one thread against another on
one datum, and the instances have two of whatever competes: two callers against
the poll thread; two observers, so that one is told and one is not; two clients
updating modes, in one mode event at once; two desktops for one index; two mobiles in
one round of the device's thread; more clients than
threads, and two threads so that one can take the other's socket. Values beyond
two add nothing where only equality is looked at, and one mode is enough where each
mode event looks at its own bit. Desktops with indices of their own are covered by the
proofs. Bounds that are not in the
code: `QueueLen`, `MaxClicks`, `MaxSets` and `Others` of MobileApp (a race needs two
announcements, which one packet at a time already orders either way; the bound holds back
the connection's thread and the server, never the main thread, so a click may post behind
a notification that is still to be shown: without its exception `crossed` the run finds
`ScreenShowsTheModes` violated), `OtherWord` of Registers, `MaxNow` (seconds of the clock; the window is two), `MaxButton`, `MaxSensor`
(values of words), `QueueRoom` (callbacks and updates begin only while the command
queue is that short: it bounds the arrivals, not what is queued by those under
way), `Delay` (one second for thirty; what matters is whether it has run out),
and each connection of Server is used once. Deadlock is not checked: the servers
may idle for ever, stop for good, and (Application) wait for ever for the reasons
`SignalEndsTheProgram` names; a parser ends; an application may have died.

Each property is broken by a mutant of the code's step it is about; the mutated
definitions stand before the ones they replace, marked "Mutant of".

## Fairness

Weak fairness for a thread that is able to run, nothing else: the device's thread,
a callback that has written and is about to set the event, a `do_stop` whose flag
is set (Device); the handler's thread (EventHandler); the application's thread
in `run`, the net server's, each client thread up to the client it serves
(Application); the connection's thread of the mobile application as far as it reads in the
wrong place or from a closed connection, and the heartbeat's drop of a client (MobileApp). Nothing obliges a client to leave, to connect or to answer (nor a
last client to free `accept`: `ForgetLast` is in no thread that is fair),
an event to fire, or time to pass where a property does not need it. In Registers
a client that is gone becomes late (time passes), heartbeat threads run, and a
section that holds the lock ends; `CheckDesktops` is strongly fair because it
competes for `m_clients_lock`, and a waiting thread is assumed to get a lock that
is free again and again. `AskAlive` of MobileApp is strongly fair for the same reason: the
timer fires for ever, and the room to send comes and goes.

## What is proved

Each theorem holds for every value of the constants the named assumptions allow: any
observers, clients, threads, events, requests, any length of a queue. None of the
properties is inductive; each proof module has an inductive invariant `IInv`, proves
`InductiveInvariant` from `InitIInv` and `NextIInv`, and the properties from it
(ApplicationProofs has two, `ServerInv` and `AppIInv`). What
follows is what each `IInv` adds and why. The runs Device and Firmware check theirs,
too. `TypeCorrect` is `Spec => []TypeOK` in each of them (`AppTypeCorrect` in
ApplicationProofs).

**DeviceProofs**, from no assumption at all:
`NoChangeIsLostUnlessLate` (`[]OnlyLateChangesAreLost`) and `DoubleClickIsTold`
(`[]DoubleClickToldBeforeForgotten`). When the thread sleeps, the observers know the words
because of what the last round did, and the round may be cut by a callback after
every step; so `PhaseInv` says what holds of each item in each phase of a round:
before it is compared, the observers know its previous value; while they are told,
those told know its present one; after that all do; once copied, its previous value
is its present one — all of it unless the item is `late`. `WakeUpInv` adds that a
difference the sleeping thread has not seen is about to wake it, and `PlaceInv` that
nothing is written before the thread has registered.

**DeviceControllerProofs**, from `ThreadAssumption` (the poll thread is no caller, "no
thread" is no thread) and `BoundAssumption` (the bounds are naturals):
`PairNotInterrupted` (`[]PairIsAtomic`), `ObserversStayInSync` (`[]ObserversInSync`),
`DoubleClickNeedsTwoFlips` (the action property `DoubleClickIsTwoFlips`) and
`ControllerImplementsFeed`: `Spec => ImplementsFeed`, the refinement, from
`InitIInv`'s states being initial states of DeviceFeed and each action being one of its
steps or a stutter. The invariant says what the holder of the lock has done so far.
`LockInv`: the owner is the one thread between lock and unlock, with calls left.
`PairInv`: half a 0xFF command is out only while its owner is about to send the other
half. `SyncInv`: for each word, an observer in sync has the new value once that word's
loop is over and the stored one before. `FlipInv`: the time of a light differs from
that of its last stored flip only while a state that flips it is being told, and only
once `update_light_times` has passed it. `TypeStep` needs `LockInv`: `calls` would go
below zero if a thread could release twice.

**EventHandlerProofs**, from `LightAssumption` (lights are finitely many numbers),
`DelayAssumption` and `EventsAssumption` (the events are lists with lists of commands):
`EventsSeeEachFlip` (`[]EventComparesWithTheWordBefore`), `ModeEventsKeepUp`
(`[]ModeEventsKnowTheirMode`) and `DueActionsAreNotLost` (`[]DueActionsAreQueued`), for any
number of clients whose threads are in the mode events at once. `WordInv`: an event the device's thread has passed, or that
waits for the next callback, knows the word, one it has not come to knows the word
before. `ModeInv`: a mode event knows its mode, or a command changed the mode since, or it
is overtaken, or some client has still to store what the event remembers. `KeepInv`: what a
thread between load and store holds is the bitset, but for the bits a command changed
since and for an event that is overtaken. `OwedInv`: an event that is owed its actions has its mode in the state it
waits for, and either it does not know that yet and a client has still to compare, or some
client has found the flip and has yet to act; a thread that came to the event
since has loaded the modes as they are. `StoreInv` keeps the command of `set_mode_bit` at
the head of the queue between its halves. Only `TypeCorrect` needs `SwitchedModesAssumption`
too: no action switches the mode "all", for whose bit the code shifts by `(uint)-1`.

**RegistersProofs**, from `ClientAssumption` and `IndexAssumption`:
`RegisteredAreServed` (`[]RegisteredClientsAreServed`), `MobilesHaveTheLights`
(`[]MobilesSeeTheLights`) and `DesktopsAreKnown` (`[]ConnectedDesktopsAreKnown`). `LockInv`:
`m_clients_lock` is held by the one thread in a section of several steps, which is what
keeps the two registers from undoing each other's announcements. `EntryInv`: an entry of
`m_desktops` is that of a desktop that is served, under the index it gave. `MobileInv`
follows a mobile from the handshake to `add_client`. `LightsInv` has a conjunct for each
phase of a round, as long as the thread tells of the last change (`carried`): lights equal to
those of the last round are known to every mobile that missed nothing, others have a
callback or a set event before them in the wait, are the ones told in the telling, and are
known again when the round copies and resets. `KnownInv`: with any
thread in any section, a registered mobile knows an announced desktop, or the refresh has
still to tell it, or the desktop is being erased.

**ApplicationProofs**, from `CountAssumption` alone (`HANDLERS_COUNT` is positive):
of the server alone `ServerServes`
(`[]ServedByRunningParts` of Server's `Spec`), of the process `AppTypeCorrect`, `AppServes` and
`CodeOutlivesItsThreads` (`[]PartsEndBeforeTheirCode`). `MainInv` says which threads
`start( )` and `stop( )` have started, asked to end and waited for at each of their steps,
`NetInv` the same of the registers, `WorkerInv` of the client threads: none runs
before `start_client_handlers`, those that `stop_client_handlers` has awaited are done.
`StageInv` ties them to the process: which step of `run( )` has which library mapped,
the controller alive and the server in which state.

**FirmwareProofs**, from `RequestAssumption` alone (commands of the protocol,
parameters of one byte): `WholeRequestsAreExecuted` (the action property
`ExecutesWhatWasSent`), `CleanRequestIsExecuted`, `AnswerIsAligned` and
`LightsFollowButtons` (the action property `OnlyButtonsSwitchLights`). A request after one
of 0xFF may start at any `pos`. `ReceivedInv`: `recv_buffer` holds the `pos` bytes that came
last, so bytes of two requests that lie together are the end of one and the beginning of
the next; `OnlyWholeRequestsPass` shows that `check_command` refuses all such mixtures:
their last byte is a command or a zero, or it is a parameter of 0xFF, and then the end
of the request before lies where zeros belong. `CommandInv` adds that nothing comes between the check and the end of the turn. For the
requests after a 0xFF, `SendingInv`: without a 0xFF nothing sets the flag before the last
byte; `SentInv`: that byte sets the flag, which makes the main loop reset `pos`, or wraps
`pos` to 0, so the second request starts at 0; `AlignedInv`: the second lies in the buffer
as it was sent. `MovedInv` is what the buttons need. `TypeCorrect` says that the interrupt
stays inside `recv_buffer`.

**EventParserProofs**, for any configurations. From `ConfigurationAssumption` (what is
declared is a list, pins are not negative, who writes JSON actions means some):
`TextsAssertOnlyForGaps` (`[]AssertsOnlyForSparsePins`), and `TypeCorrect`, that the mode of
every event is one that was read. The lemmas say of the operators of EventGrammar what
they return for any text: `PinIsDeclared` and `ModeIsDeclared` (a name gives the pin or
mode of an entry of that name, or is invalid), `ConditionIsCondition`, `ActionIsCommand`.

With `AuthorAssumption` as well: `ReadAsMeant` (`[]EventsAreMeant`) and `RefusesTheUnclear`
(`[]RefusedIffNotClear`), for texts of any length, any names and any number of events.
First the operators: `FindIn` and `FindWithDelay` say where `std::string::find` finds the
phrase, `PartsOf` what is before and after it; with them `TextIsRead`, `JsonIsRead` and
`ActionIsRead` say that what the author writes is refused unless every name in it is
declared, and otherwise is the event or command that is meant. Then the walk, with
`MeantInv`, inductive relative to `IInv`. Neither property is inductive: that the event of
node i has the place `Built` counts needs `CountInv` (each list has one event for each
node of it before `next`, and one more for the event in hand), that `set_actions` completes the
right event needs `HandInv` (the event in hand is the last of its list and has the
condition of its node), and that it has all its actions in order needs `ActionsInv` (those
read are the first of those meant, and the agenda says the rest). The first attempt showed that
`RefusedIffNotClear` said too much: it had called events clear in a file without
"lights", which `init` refuses before it looks at them.

**MobileAppProofs**, from `BoundAssumption` alone: `ScreenIsRight`
(`[]ScreenShowsTheModes`). `LinkInv` says who is where when the link is open or
not, `OutInv` what each thread of the application has still to write of its packet.
`WordsInv` serves `TypeCorrect`, for packets torn in any way: the password and the first
word of the request for the configuration come once in a connection, and two others
follow the first word of a request for modes, so that what the server takes for a bitset
is one (or a 0 of another packet). `StreamInv` is about an open link on which nothing
was torn: there is a set of places where packets start (`Framed`), the missing
words of the last being those its thread has still to write, and once nothing has
gone wrong (`Settled`) the last packet on its way to the application tells the
server's modes; if none is on its way, the application has those modes or a request for
what it has is on its way (`Known`). `BoxesInv` follows the modes to the check boxes through
both threads: what a thread has read for them is `m_eventModes` unless the other has
assigned since (`crossed`), and so is what they show, once no thread has a post to make and
the runnables are done. Where the packets start is no variable
of the program, hence the existential; without it the server's reading of two words or
three cannot be matched with what was written.

Only model-checked:

* liveness, as the prover handles neither fairness nor `ENABLED`: `ChangeIsTold`,
  `StopOutsideARoundEnds`, `ArmedLightGoesOff`, `StopEnds`, `GoneClientsAreForgotten`,
  `SignalEndsTheProgram`, `QueuedClientsAreTaken`, `LostPlaceEnds`.

Every invariant and every safety property of steps that a passing run checks is stated by
a theorem.

## What is not modelled, and the plan

Not modelled:

* reading the JSON file and formatting names (`common/config.cpp`, `enums.cpp`): data. The
  parser's texts have no double spaces and no names with spaces in them, its nodes have members of
  the types it expects one level down (jsoncpp throws on others), and pins are numbers;
* the serialisation of packets, threads, locks and sockets: in the external framework;
* `timer_t`'s queue (nothing fills it), `remove_desktop( uint )` (nobody calls it), logging;
* the desktop client library (`common/client_lib.cpp`), a client the server knows by its packets only;
* of the mobile application: voice commands (`VoiceCommandParser.java`, a matching of phrases:
  note that `contains("block")` in it also finds "unblock"), the colours and commands of the
  buttons, desktops' notifications (`onMobileNotification` does nothing with them) and a
  second `MainActivity.onCreate`, which would start a second connection;
* of the firmware: the sensors' word, the older versions, the circuit drawings;
* containers as such: iterating over a `std::set` or a list while another thread changes
  it is undefined; Registers lets it end the process, DeviceController and Device
  (`m_observers_list`, `m_observers`) do not show it.

Done, in this order: DeviceController and Device, because everything else hangs on the
changes they pass on; EventHandler, Registers, Server, Firmware; then EventGrammar and
EventParser, DeviceFeed, Application and MobileApp. To come:

DeviceController and Device as one module, with observers that register while a round
runs and `off_on_start`.

To check everything: `tlc -config X.cfg MCmodule` for each run in `PROJECT.json`, and
`tlapm` for each `*Proofs.tla`. The proofs take about seven minutes in all, most of
them those of MobileApp and EventParser.
