----------------------------- MODULE EventHandler -----------------------------
(***************************************************************************)
(* event_handler_t (src/src/server/event/event_handler.cpp) with its       *)
(* events, commands and light objects.  Three kinds of threads meet here:  *)
(*   - the device thread calls on_light_changed, on_button_pressed,        *)
(*     on_sensor_triggered and on_double_click;                            *)
(*   - the threads of mobile clients call update_modes and add_command;    *)
(*   - the handler's own thread takes one command off m_cmd_queue at each  *)
(*     turn, executes it, and turns off the lights whose time has come.    *)
(* Only the queue is locked.                                               *)
(*                                                                         *)
(* What the configuration file says is a constant: the lists of events, in *)
(* the order the parser built them.  Modes are numbered from 1; mode 0 is  *)
(* "all".  m_event_modes_bitset is the set of its bits, from 0.  Bit words *)
(* of the device are the sets of the pins that are high.                   *)
(***************************************************************************)
EXTENDS Integers, Sequences, SequencesExt, FiniteSets

CONSTANTS
  Mobile,        \* threads that serve mobile clients
  Light,         \* indices of m_lights
  Pin,           \* bits of a word of the device state
  ModeCount,     \* modes of the configuration, "all" left out
  Events,        \* m_light_events, m_button_events, m_sensor_events, m_double_click_events
  ModeEvents,    \* m_mode_events
  Delay,         \* seconds a mobile client may ask a light to be turned off after
  QueueRoom      \* bound: callbacks and updates begin only while the queue is this short

Word == {"lights", "buttons", "sensors", "click"}
ModeBit == 0 .. ModeCount - 1

\* Commands: what command_device_t, command_mode_t and do_stop's fake_command hold.
DeviceCommand(cmd, light, delay) ==
  [kind |-> "device", cmd |-> cmd, light |-> light, delay |-> delay, by |-> "event"]
ModeCommand(mode, on) == [kind |-> "mode", mode |-> mode, on |-> on]
FakeCommand == [kind |-> "fake"]
\* check_light_objects: EC_TURNOFF without a timeout.
TimerCommand(light) ==
  [kind |-> "device", cmd |-> "off", light |-> light, delay |-> 0, by |-> "timer"]

\* Every command the queue may hold.  create_device_command asserts that a light is one of
\* m_lights; delays and modes are uints.
Command ==
  [kind : {"device"}, cmd : {"on", "off"}, light : Light, delay : Nat, by : {"event", "timer"}]
  \cup [kind : {"device"}, cmd : {"onbutton", "offbutton"}, light : Nat, delay : Nat,
        by : {"event"}]
  \cup [kind : {"mode"}, mode : 0 .. ModeCount, on : BOOLEAN]
  \cup {FakeCommand}

\* m_lights is a vector.
ASSUME LightAssumption == Light \subseteq Nat /\ IsFiniteSet(Light)

\* A delay is an uint of the protocol.
ASSUME DelayAssumption == Delay \subseteq Nat

\* What event_parser_t creates and add_action fills.
ASSUME EventsAssumption ==
  /\ ModeCount \in Nat
  /\ Events \in [Word -> Seq([pin : Nat, high : BOOLEAN, mode : 0 .. ModeCount,
                              actions : Seq(Command)])]
  /\ ModeEvents \in Seq([mode : 0 .. ModeCount, enabled : BOOLEAN, actions : Seq(Command)])

NamesAMode(actions) == \A i \in DOMAIN actions : actions[i].kind = "mode" => actions[i].mode # 0

\* No action of the configuration turns "all" on or off: set_mode_bit would shift by (uint)-1,
\* which is undefined.  The parser takes such an action; this model does not follow it further.
ASSUME SwitchedModesAssumption ==
  /\ \A w \in Word : \A i \in DOMAIN Events[w] : NamesAMode(Events[w][i].actions)
  /\ \A e \in DOMAIN ModeEvents : NamesAMode(ModeEvents[e].actions)

VARIABLES
  modes,       \* m_event_modes_bitset
  seen,        \* m_device_state, and under "click" m_last_dblclck_pin
  prev,        \* m_prev_state of each device event, its own word of it
  modePrev,    \* m_prev_bitset of each mode event
  queue,       \* m_cmd_queue
  left,        \* seconds until m_turnoff_time of each light, NotArmed for 0
  lit,         \* the lights that are on (behind device_t)
  device,      \* the device thread: the word being announced and the next event to look at
  pc,          \* the handler's thread
  local,       \* the handler's thread: m_event_modes_bitset as set_mode_bit loaded it
  pcMobile,    \* each mobile thread
  next,        \* each mobile thread: the next mode event to look at
  hold,        \* each mobile thread: the bitset to set, then m_event_modes_bitset as it loaded it
  fired,       \* each mobile thread: fired of mode_event_t::on_event
  stopping,
  before,      \* history: the word before the callback that is being handled
  skipped,     \* history: check_mode kept the event from looking at the last callback
  bypassed,    \* history: mode bits changed by set_mode_bit since the last update_modes
  overtaken,   \* history: mode events another thread was storing m_prev_bitset of at the last one
  owed         \* history: what update_modes turned on or off for each mode event, not acted upon

handlerVars == <<pc, local>>
mobileVars == <<pcMobile, next, hold, fired>>
historyVars == <<bypassed, overtaken, owed>>
eventVars == <<seen, prev, device, before, skipped>>
vars == <<modes, seen, prev, modePrev, queue, left, lit, device, pc, local, pcMobile, next,
          hold, fired, stopping, before, skipped, bypassed, overtaken, owed>>

NotArmed == -1
NoWord == "none"

Idle == device.word = NoWord

\* Bit b of the number n.
HasBit(n, b) == (n \div 2^b) % 2 = 1

\* check_mode: the bitset is masked with the mode's number.
CheckMode(event) == event.mode = 0 \/ \E b \in modes : HasBit(event.mode, b)

-----------------------------------------------------------------------------
Init ==
  /\ modes = {}
  /\ seen = [w \in Word |-> {}]
  /\ prev = [w \in Word |-> [i \in DOMAIN Events[w] |-> {}]]
  /\ modePrev = [e \in DOMAIN ModeEvents |-> {}]
  /\ queue = <<>>
  /\ left = [l \in Light |-> NotArmed]
  /\ lit = {}
  /\ device = [word |-> NoWord, next |-> 1]
  /\ pc = "sleep"
  /\ local = {}
  /\ pcMobile = [m \in Mobile |-> "idle"]
  /\ next = [m \in Mobile |-> 1]
  /\ hold = [m \in Mobile |-> {}]
  /\ fired = [m \in Mobile |-> FALSE]
  /\ stopping = FALSE
  /\ before = {}
  /\ skipped = [w \in Word |-> [i \in DOMAIN Events[w] |-> FALSE]]
  /\ bypassed = {}
  /\ overtaken = {}
  /\ owed = [e \in DOMAIN ModeEvents |-> "nothing"]

(***************************************************************************)
(* The device thread.                                                      *)
(***************************************************************************)
\* on_light_changed, on_button_pressed, on_sensor_triggered, on_double_click: the store.
\* A word no event watches is left out.
Callback(w, pins) ==
  /\ Idle
  /\ Events[w] # <<>>
  /\ ~stopping
  /\ Len(queue) <= QueueRoom
  /\ w = "click" => Cardinality(pins) = 1
  /\ before' = seen[w]
  /\ seen' = [seen EXCEPT ![w] = pins]
  /\ device' = [word |-> w, next |-> 1]
  /\ UNCHANGED <<modes, prev, modePrev, queue, left, lit, handlerVars, mobileVars, stopping,
                 skipped, historyVars>>

Event == Events[device.word][device.next]

\* The event's pin flipped, between two words, to the state that triggers the event.
Edge(event, from, to) ==
  /\ event.pin \in SymDiff(from, to)
  /\ (event.pin \in to) = event.high

\* What device_event_t::on_event and double_click_event_t::on_event compare.
Fires ==
  IF device.word = "click" THEN Event.pin \in seen["click"]
  ELSE Edge(Event, prev[device.word][device.next], seen[device.word])

\* Mutant of Remembered: m_prev_state is kept up only when the event fires.
RememberedIfFired ==
  IF Fires THEN [prev EXCEPT ![device.word][device.next] = seen[device.word]] ELSE prev

\* m_prev_state = m_device_state, before the early returns.  A double click remembers nothing.
Remembered ==
  IF device.word = "click" THEN prev
  ELSE [prev EXCEPT ![device.word][device.next] = seen[device.word]]

\* check_mode passes: on_event.
OnEvent ==
  /\ ~Idle
  /\ device.next <= Len(Events[device.word])
  /\ CheckMode(Event)
  /\ prev' = Remembered
  /\ queue' = IF Fires THEN queue \o Event.actions ELSE queue
  /\ skipped' = [skipped EXCEPT ![device.word][device.next] = FALSE]
  /\ device' = [device EXCEPT !.next = @ + 1]
  /\ UNCHANGED <<modes, seen, modePrev, left, lit, handlerVars, mobileVars, stopping, before,
                 historyVars>>

\* check_mode fails: the event is not told.
SkipEvent ==
  /\ ~Idle
  /\ device.next <= Len(Events[device.word])
  /\ ~CheckMode(Event)
  /\ skipped' = [skipped EXCEPT ![device.word][device.next] = TRUE]
  /\ device' = [device EXCEPT !.next = @ + 1]
  /\ UNCHANGED <<modes, seen, prev, modePrev, queue, left, lit, handlerVars, mobileVars, stopping,
                 before, historyVars>>

CallbackEnds ==
  /\ ~Idle
  /\ device.next > Len(Events[device.word])
  /\ device' = [word |-> NoWord, next |-> 1]
  /\ before' = {}
  /\ UNCHANGED <<modes, seen, prev, modePrev, queue, left, lit, handlerVars, mobileVars, stopping,
                 skipped, historyVars>>

(***************************************************************************)
(* A mobile client's thread: update_modes and add_command_delay.           *)
(***************************************************************************)
\* A "delayed" server command of the client.
AddCommandDelay(m, light, delay) ==
  /\ pcMobile[m] = "idle"
  /\ ~stopping
  /\ Len(queue) <= QueueRoom
  /\ queue' = Append(queue, DeviceCommand("off", light, delay))
  /\ UNCHANGED <<modes, eventVars, modePrev, left, lit, handlerVars, mobileVars, stopping,
                 historyVars>>

\* update_modes: the test.  For an equal bitset nothing is done.
UpdateModes(m, bitset) ==
  /\ pcMobile[m] = "idle"
  /\ ~stopping
  /\ Len(queue) <= QueueRoom
  /\ bitset # modes
  /\ pcMobile' = [pcMobile EXCEPT ![m] = "set"]
  /\ hold' = [hold EXCEPT ![m] = bitset]
  /\ UNCHANGED <<modes, eventVars, modePrev, queue, left, lit, handlerVars, next, fired, stopping,
                 historyVars>>

ModeOf(e) == ModeEvents[e].mode - 1

Knows(e) == ModeOf(e) \in modes <=> ModeOf(e) \in modePrev[e]

\* The thread is between the first load and the store of the event's on_event.
InEvent(m, e) == pcMobile[m] \in {"compare", "reload", "keep"} /\ next[m] = e

\* The history of the step that gives m_event_modes_bitset another value: an event whose mode is
\* turned back is owed nothing any more.
StillOwed(e, bitset) == IF ModeOf(e) \in SymDiff(modes, bitset) THEN "nothing" ELSE owed[e]

\* The update turns the mode of an event that knows it to the event's state.
Turns(e, bitset) ==
  /\ Knows(e)
  /\ ModeOf(e) \in SymDiff(modes, bitset)
  /\ (ModeOf(e) \in bitset) = ModeEvents[e].enabled

\* update_modes: the store.  Another thread may have stored since the test.
SetModes(m) ==
  /\ pcMobile[m] = "set"
  /\ modes' = hold[m]
  /\ pcMobile' = [pcMobile EXCEPT ![m] = "events"]
  /\ next' = [next EXCEPT ![m] = 1]
  /\ hold' = [hold EXCEPT ![m] = {}]
  /\ bypassed' = {}
  /\ overtaken' = {next[k] : k \in {k \in Mobile : pcMobile[k] = "keep"}}
  /\ owed' = [e \in DOMAIN ModeEvents |->
                IF Turns(e, hold[m]) /\ \A k \in Mobile : ~InEvent(k, e) THEN "due"
                ELSE StillOwed(e, hold[m])]
  /\ UNCHANGED <<eventVars, modePrev, queue, left, lit, handlerVars, fired, stopping>>

(***************************************************************************)
(* mode_event_t::on_event, which several clients' threads may run at once  *)
(* on one event.  Nothing is locked, and the Makefile builds without       *)
(* optimization: each read of m_modes_bitset is a load.                    *)
(***************************************************************************)
EventLeft(m) ==
  /\ pcMobile' = [pcMobile EXCEPT ![m] = "events"]
  /\ next' = [next EXCEPT ![m] = @ + 1]
  /\ hold' = [hold EXCEPT ![m] = {}]
  /\ fired' = [fired EXCEPT ![m] = FALSE]

LoadBits(m) ==
  /\ pcMobile[m] = "events"
  /\ next[m] <= Len(ModeEvents)
  /\ pcMobile' = [pcMobile EXCEPT ![m] = "compare"]
  /\ hold' = [hold EXCEPT ![m] = modes]
  /\ UNCHANGED <<modes, eventVars, modePrev, queue, left, lit, handlerVars, next, fired, stopping,
                 historyVars>>

\* Mutant of Compare: the mode's number is taken for its bit.
CompareNextMode(m) ==
  /\ pcMobile[m] = "compare"
  /\ fired' = [fired EXCEPT ![m] =
                 ModeEvents[next[m]].mode \in SymDiff(hold[m], modePrev[next[m]])]
  /\ hold' = [hold EXCEPT ![m] = {}]
  /\ pcMobile' = [pcMobile EXCEPT ![m] = "reload"]
  /\ UNCHANGED <<modes, eventVars, modePrev, queue, left, lit, handlerVars, next, stopping,
                 historyVars>>

Compare(m) ==
  /\ pcMobile[m] = "compare"
  /\ fired' = [fired EXCEPT ![m] = ModeOf(next[m]) \in SymDiff(hold[m], modePrev[next[m]])]
  /\ hold' = [hold EXCEPT ![m] = {}]
  /\ pcMobile' = [pcMobile EXCEPT ![m] = "reload"]
  /\ UNCHANGED <<modes, eventVars, modePrev, queue, left, lit, handlerVars, next, stopping,
                 historyVars>>

Reload(m) ==
  /\ pcMobile[m] = "reload"
  /\ hold' = [hold EXCEPT ![m] = modes]
  /\ pcMobile' = [pcMobile EXCEPT ![m] = "keep"]
  /\ UNCHANGED <<modes, eventVars, modePrev, queue, left, lit, handlerVars, next, fired, stopping,
                 historyVars>>

\* Mutant of Keep: m_prev_bitset is kept up only for the state the event waits for.
KeepIfEnabled(m) ==
  /\ pcMobile[m] = "keep"
  /\ modePrev' = IF (ModeOf(next[m]) \in hold[m]) = ModeEvents[next[m]].enabled
                  THEN [modePrev EXCEPT ![next[m]] = hold[m]] ELSE modePrev
  /\ IF fired[m]
     THEN /\ pcMobile' = [pcMobile EXCEPT ![m] = "act"]
          /\ hold' = [hold EXCEPT ![m] = {}]
          /\ UNCHANGED <<next, fired>>
     ELSE EventLeft(m)
  /\ UNCHANGED <<modes, eventVars, queue, left, lit, handlerVars, stopping, historyVars>>

\* The store of m_prev_bitset, and the return of an event that has not fired.
Keep(m) ==
  /\ pcMobile[m] = "keep"
  /\ modePrev' = [modePrev EXCEPT ![next[m]] = hold[m]]
  /\ IF fired[m]
     THEN /\ pcMobile' = [pcMobile EXCEPT ![m] = "act"]
          /\ hold' = [hold EXCEPT ![m] = {}]
          /\ UNCHANGED <<next, fired>>
     ELSE EventLeft(m)
  /\ UNCHANGED <<modes, eventVars, queue, left, lit, handlerVars, stopping, historyVars>>

\* The bitset is loaded once more for current_state; the actions are pushed.
Act(m) ==
  /\ pcMobile[m] = "act"
  /\ LET e == next[m]
     IN  IF (ModeOf(e) \in modes) = ModeEvents[e].enabled
         THEN /\ queue' = queue \o ModeEvents[e].actions
              /\ owed' = [owed EXCEPT ![e] = "nothing"]
         ELSE UNCHANGED <<queue, owed>>
  /\ EventLeft(m)
  /\ UNCHANGED <<modes, eventVars, modePrev, left, lit, handlerVars, stopping, bypassed,
                 overtaken>>

\* on_update_modes_request: what the clients get of it is the registers' affair.
NotifyClients(m) ==
  /\ pcMobile[m] = "events"
  /\ next[m] > Len(ModeEvents)
  /\ pcMobile' = [pcMobile EXCEPT ![m] = "idle"]
  /\ next' = [next EXCEPT ![m] = 1]
  /\ UNCHANGED <<modes, eventVars, modePrev, queue, left, lit, handlerVars, hold, fired, stopping,
                 historyVars>>

(***************************************************************************)
(* The handler's thread: do_run.                                           *)
(***************************************************************************)
Pop(kind) ==
  /\ pc = "sleep"
  /\ ~stopping
  /\ queue # <<>>
  /\ Head(queue).kind = kind

\* Mutant of LeaveLoop: the queue has to be empty first.
LeaveEmptyLoop ==
  /\ pc = "sleep"
  /\ stopping
  /\ queue = <<>>
  /\ pc' = "done"
  /\ UNCHANGED <<modes, eventVars, modePrev, queue, left, lit, local, mobileVars, stopping,
                 historyVars>>

LeaveLoop ==
  /\ pc = "sleep"
  /\ stopping
  /\ pc' = "done"
  /\ UNCHANGED <<modes, eventVars, modePrev, queue, left, lit, local, mobileVars, stopping,
                 historyVars>>

NothingQueued ==
  /\ pc = "sleep"
  /\ ~stopping
  /\ queue = <<>>
  /\ pc' = "lights"
  /\ UNCHANGED <<modes, eventVars, modePrev, queue, left, lit, local, mobileVars, stopping,
                 historyVars>>

\* command_device_t::execute with a timeout: only the light's turn-off time is set.
ArmLight ==
  /\ Pop("device")
  /\ Head(queue).delay # 0
  /\ queue' = Tail(queue)
  /\ left' = [left EXCEPT ![Head(queue).light] = Head(queue).delay]
  /\ pc' = "lights"
  /\ UNCHANGED <<modes, eventVars, modePrev, lit, local, mobileVars, stopping, historyVars>>

\* command_device_t::execute without one: device_t::execute_command.
SwitchLight ==
  /\ Pop("device")
  /\ Head(queue).delay = 0
  /\ queue' = Tail(queue)
  /\ lit' = CASE Head(queue).cmd = "on" -> lit \cup {Head(queue).light}
              [] Head(queue).cmd = "off" -> lit \ {Head(queue).light}
              [] OTHER -> lit
  /\ pc' = "lights"
  /\ UNCHANGED <<modes, eventVars, modePrev, left, local, mobileVars, stopping, historyVars>>

\* command_mode_t::execute: set_mode_bit loads the bitset ...
LoadModes ==
  /\ Pop("mode")
  /\ local' = modes
  /\ pc' = "store"
  /\ UNCHANGED <<modes, eventVars, modePrev, queue, left, lit, mobileVars, stopping, historyVars>>

\* Mutant of StoreModes: the mode's number is taken for its bit.
StoreNextMode ==
  /\ pc = "store"
  /\ LET bit == Head(queue).mode
         changed == IF Head(queue).on THEN local \cup {bit} ELSE local \ {bit}
     IN  /\ modes' = changed
         /\ bypassed' = bypassed \cup SymDiff(modes, changed)
         /\ owed' = [e \in DOMAIN ModeEvents |-> StillOwed(e, changed)]
  /\ local' = {}
  /\ queue' = Tail(queue)
  /\ pc' = "lights"
  /\ UNCHANGED <<eventVars, modePrev, left, lit, mobileVars, stopping, overtaken>>

\* ... and stores it with the bit changed.  Mode events are not run; clients are told.
StoreModes ==
  /\ pc = "store"
  /\ LET bit == Head(queue).mode - 1
         changed == IF Head(queue).on THEN local \cup {bit} ELSE local \ {bit}
     IN  /\ modes' = changed
         /\ bypassed' = bypassed \cup SymDiff(modes, changed)
         /\ owed' = [e \in DOMAIN ModeEvents |-> StillOwed(e, changed)]
  /\ local' = {}
  /\ queue' = Tail(queue)
  /\ pc' = "lights"
  /\ UNCHANGED <<eventVars, modePrev, left, lit, mobileVars, stopping, overtaken>>

Expired == {l \in Light : left[l] = 0}

\* Mutant of CheckLightObjects: the time is cleared, the command is not added.
ForgetLightObjects ==
  /\ pc = "lights"
  /\ left' = [l \in Light |-> IF l \in Expired THEN NotArmed ELSE left[l]]
  /\ pc' = "sleep"
  /\ UNCHANGED <<modes, eventVars, modePrev, queue, lit, local, mobileVars, stopping, historyVars>>

\* check_light_objects, lights in index order.
CheckLightObjects ==
  /\ pc = "lights"
  /\ \E expired \in [1 .. Cardinality(Expired) -> Expired] :
       /\ \A i, j \in DOMAIN expired : i < j => expired[i] < expired[j]
       /\ queue' = queue \o [i \in DOMAIN expired |-> TimerCommand(expired[i])]
  /\ left' = [l \in Light |-> IF l \in Expired THEN NotArmed ELSE left[l]]
  /\ pc' = "sleep"
  /\ UNCHANGED <<modes, eventVars, modePrev, lit, local, mobileVars, stopping, historyVars>>

\* stop( ), with do_stop: the fake command.  smarty_server_t::stop has stopped the net server
\* and its client threads before (smarty_server.cpp:149-156).
Stop ==
  /\ ~stopping
  /\ \A m \in Mobile : pcMobile[m] = "idle"
  /\ stopping' = TRUE
  /\ queue' = Append(queue, FakeCommand)
  /\ UNCHANGED <<modes, eventVars, modePrev, left, lit, handlerVars, mobileVars, historyVars>>

\* A second passes; after stop( ) no light is looked at any more.
Second ==
  /\ ~stopping
  /\ \E l \in Light : left[l] > 0
  /\ left' = [l \in Light |-> IF left[l] > 0 THEN left[l] - 1 ELSE left[l]]
  /\ UNCHANGED <<modes, eventVars, modePrev, queue, lit, handlerVars, mobileVars, stopping,
                 historyVars>>

DeviceThread == OnEvent \/ SkipEvent \/ CallbackEnds

MobileThread(m) ==
  \/ SetModes(m)
  \/ LoadBits(m)
  \/ Compare(m)
  \/ Reload(m)
  \/ Keep(m)
  \/ Act(m)
  \/ NotifyClients(m)

HandlerThread ==
  \/ LeaveLoop
  \/ NothingQueued
  \/ ArmLight
  \/ SwitchLight
  \/ LoadModes
  \/ StoreModes
  \/ CheckLightObjects

Next ==
  \/ \E w \in Word, pins \in SUBSET Pin : Callback(w, pins)
  \/ DeviceThread
  \/ \E m \in Mobile, bitset \in SUBSET ModeBit : UpdateModes(m, bitset)
  \/ \E m \in Mobile, light \in Light, delay \in Delay : AddCommandDelay(m, light, delay)
  \/ \E m \in Mobile : MobileThread(m)
  \/ HandlerThread
  \/ Stop
  \/ Second

\* The handler's thread runs on; nothing is asked of the other threads, nor of time.
Fairness == WF_vars(HandlerThread)

Spec == Init /\ [][Next]_vars
FairSpec == Spec /\ Fairness

-----------------------------------------------------------------------------
Position(events) == 1 .. Len(events) + 1

TypeOK ==
  /\ modes \subseteq ModeBit
  /\ seen \in [Word -> SUBSET Pin]
  /\ \A w \in Word : prev[w] \in [DOMAIN Events[w] -> SUBSET Pin]
  /\ modePrev \in [DOMAIN ModeEvents -> SUBSET ModeBit]
  /\ \A i \in DOMAIN queue : queue[i].kind \in {"device", "mode", "fake"}
  /\ left \in [Light -> Int] /\ \A l \in Light : left[l] >= NotArmed
  /\ lit \subseteq Light
  /\ device.word \in Word \cup {NoWord}
  /\ ~Idle => device.next \in Position(Events[device.word])
  /\ pc \in {"sleep", "store", "lights", "done"}
  /\ local \subseteq ModeBit
  /\ pcMobile \in [Mobile -> {"idle", "set", "events", "compare", "reload", "keep", "act"}]
  /\ next \in [Mobile -> Position(ModeEvents)]
  /\ hold \in [Mobile -> SUBSET ModeBit]
  /\ fired \in [Mobile -> BOOLEAN]
  /\ stopping \in BOOLEAN
  /\ before \subseteq Pin
  /\ \A w \in Word : skipped[w] \in [DOMAIN Events[w] -> BOOLEAN]
  /\ bypassed \subseteq ModeBit
  /\ overtaken \subseteq DOMAIN ModeEvents
  /\ owed \in [DOMAIN ModeEvents -> {"nothing", "due"}]

(***************************************************************************)
(* An event that its mode let look at the last callback for its word       *)
(* compares the new word with the one before, no older: it neither misses  *)
(* a flip nor fires for one that is over (device_event_t::on_event).       *)
(***************************************************************************)
EventComparesWithTheWordBefore ==
  ~Idle /\ device.word # "click" /\ device.next <= Len(Events[device.word]) =>
    (~skipped[device.word][device.next] => prev[device.word][device.next] = before)

\* No client's thread is at work on the mode events.
ModeEventsAtRest == \A m \in Mobile : pcMobile[m] \in {"idle", "set"}

(***************************************************************************)
(* Between updates every mode event knows the state of its mode, but for   *)
(* the bits a mode command changed since the last update, and for an event *)
(* whose m_prev_bitset another client's thread had loaded and not stored   *)
(* (mode_event.cpp:34) when the last update set the modes.                 *)
(***************************************************************************)
ModeEventsKnowTheirMode ==
  ModeEventsAtRest =>
    \A e \in DOMAIN ModeEvents :
      ModeOf(e) \notin bypassed /\ e \notin overtaken => Knows(e)

(***************************************************************************)
(* An update that turned a mode to the state an event waits for, at a time *)
(* when no other thread was in that event's on_event, has had the event's  *)
(* actions queued when the updates are over, unless the mode was turned    *)
(* back before: however many clients' threads run the event at once, one   *)
(* of them finds the flip.                                                 *)
(***************************************************************************)
DueActionsAreQueued ==
  ModeEventsAtRest => \A e \in DOMAIN ModeEvents : owed[e] # "due"

(***************************************************************************)
(* A light that is to be turned off in some seconds is off in the end, or  *)
(* was given a new time, or the handler is being stopped.                  *)
(***************************************************************************)
ArmedLightGoesOff ==
  \A l \in Light :
    left[l] = 0 ~> (l \notin lit \/ left[l] > 0 \/ stopping)

(***************************************************************************)
(* stop( ) ends the handler's thread whatever is still queued.             *)
(***************************************************************************)
StopEnds == stopping ~> pc = "done"

(***************************************************************************)
(* "automaticly turn on lamp and turn off in timeout" (cfg/smarty.cfg:28): *)
(* while a light's timeout runs, no earlier timeout turns the light off.   *)
(***************************************************************************)
TurnOffWaitsForTimeout ==
  [][\A l \in Light :
       SwitchLight /\ Head(queue) = TimerCommand(l) => left[l] = NotArmed]_vars
=============================================================================
