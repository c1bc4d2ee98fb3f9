--------------------------- MODULE DeviceController ---------------------------
(***************************************************************************)
(* device_controller_t (src/src/driver/device_controller.cpp): the object  *)
(* behind driver_intf_t.  Any server thread may call execute_command; a    *)
(* thread of its own polls the device with EC_STATUS.  m_device_lock is    *)
(* held for a whole do_execute_command, the callbacks to the observers     *)
(* included.  get_state, add_observer and remove_observer take no lock.    *)
(*                                                                         *)
(* The driver behind it (driver_t) answers with any Boolean and any state: *)
(* the body of device_driver_t::execute_command is commented out and       *)
(* leaves the state it returns uninitialised.                              *)
(***************************************************************************)
EXTENDS Integers, FiniteSetsExt

CONSTANTS
  Caller,      \* threads that call execute_command
  Poller,      \* the controller's own thread
  Observer,    \* objects that may register with add_observer
  Light,       \* indices of m_light_times
  MaxButton,   \* bound on the values of device_state_t::buttons
  MaxSensor,   \* bound on the values of device_state_t::sensors
  MaxNow,      \* bound on time( ), in seconds
  NoThread     \* m_device_lock is free

ASSUME ThreadAssumption == Poller \notin Caller /\ NoThread \notin Caller \cup {Poller}
ASSUME BoundAssumption == MaxButton \in Nat /\ MaxSensor \in Nat /\ MaxNow \in Nat
ASSUME LightAssumption == Light \subseteq Nat

Thread == Caller \cup {Poller}

\* device_state_t: the lights as the set of the bits that are on, the other two words abstract.
DeviceState == [lights : SUBSET Light, buttons : 0 .. MaxButton, sensors : 0 .. MaxSensor]
NoDeviceState == [lights |-> {}, buttons |-> 0, sensors |-> 0]

DoubleClickSeconds == 2   \* diff < 2, line 161
Boot == DoubleClickSeconds \* m_light_times starts at the epoch: long before the first poll

VARIABLES
  owner,       \* the thread that holds m_device_lock
  pc,          \* where each thread is
  calls,       \* do_execute_command calls left to the thread, the current one included
  full,        \* the thread's own command carries the parameter 0xFF
  stopping,    \* the poll thread was asked to stop
  fresh,       \* local `state` of the thread that holds the lock
  state,       \* m_device_state
  flipping,    \* changed lights update_light_times has still to look at
  lightTimes,  \* m_light_times
  now,         \* time( nullptr )
  observers,   \* m_observers_list
  view,        \* what each observer last learned, by a callback or by get_state
  halfSent,    \* history: the thread that sent 0x0F and not yet 0xF0
  inSync,      \* history: registered while the lock was free, knowing m_device_state
  flipped      \* history: when m_device_state last recorded a flip of the light

threadVars == <<owner, pc, calls, full, stopping>>
stateVars == <<fresh, state, flipping, lightTimes>>
observerVars == <<observers, view, inSync>>
vars == <<owner, pc, calls, full, stopping, fresh, state, flipping, lightTimes, now,
          observers, view, halfSent, inSync, flipped>>

Locked == {"half", "send", "lights", "flips", "tellLights", "buttons", "sensors", "store"}

GoTo(t, place) == pc' = [pc EXCEPT ![t] = place]

-----------------------------------------------------------------------------
Init ==
  /\ owner = NoThread
  /\ pc = [t \in Thread |-> "idle"]
  /\ calls = [t \in Thread |-> 0]
  /\ full = [t \in Thread |-> FALSE]
  /\ stopping = FALSE
  /\ fresh = NoDeviceState
  /\ state = NoDeviceState
  /\ flipping = {}
  /\ lightTimes = [l \in Light |-> 0]
  /\ now = Boot
  /\ observers = {}
  /\ view = [o \in Observer |-> NoDeviceState]
  /\ halfSent = NoThread
  /\ inSync = {}
  /\ flipped = [l \in Light |-> 0]

(***************************************************************************)
(* The calls: execute_command runs the command, then EC_STATUS; the poll   *)
(* thread runs EC_STATUS until it is asked to stop.                        *)
(***************************************************************************)
ExecuteCommand(t) ==
  /\ t \in Caller
  /\ pc[t] = "idle"
  /\ \E isFull \in BOOLEAN : full' = [full EXCEPT ![t] = isFull]
  /\ calls' = [calls EXCEPT ![t] = 2]
  /\ GoTo(t, "lock")
  /\ UNCHANGED <<owner, stopping, stateVars, now, observerVars, halfSent, flipped>>

Poll ==
  /\ pc[Poller] = "idle"
  /\ ~stopping
  /\ calls' = [calls EXCEPT ![Poller] = 1]
  /\ GoTo(Poller, "lock")
  /\ UNCHANGED <<owner, full, stopping, stateVars, now, observerVars, halfSent, flipped>>

\* do_stop sets m_wait_timeout: the wait between two polls ends, the loop sees is_stopping.
Stop ==
  /\ ~stopping
  /\ stopping' = TRUE
  /\ UNCHANGED <<owner, pc, calls, full, stateVars, now, observerVars, halfSent, flipped>>

LeavePollLoop ==
  /\ pc[Poller] = "idle"
  /\ stopping
  /\ GoTo(Poller, "done")
  /\ UNCHANGED <<owner, calls, full, stopping, stateVars, now, observerVars, halfSent, flipped>>

(***************************************************************************)
(* do_execute_command.                                                     *)
(***************************************************************************)
Lock(t) ==
  /\ pc[t] = "lock"
  /\ owner = NoThread
  /\ owner' = t
  /\ GoTo(t, IF full[t] THEN "half" ELSE "send")
  /\ UNCHANGED <<calls, full, stopping, stateVars, now, observerVars, halfSent, flipped>>

\* Mutant of Release: one turn too many.
ReleaseOnceMore(t) ==
  /\ owner' = NoThread
  /\ calls' = [calls EXCEPT ![t] = @ - 1]
  /\ full' = [full EXCEPT ![t] = FALSE]
  /\ GoTo(t, IF calls[t] >= 1 THEN "lock" ELSE "idle")

\* The next do_execute_command of execute_command is EC_STATUS 0x00; the poll thread has none.
Release(t) ==
  /\ owner' = NoThread
  /\ calls' = [calls EXCEPT ![t] = @ - 1]
  /\ full' = [full EXCEPT ![t] = FALSE]
  /\ GoTo(t, IF calls[t] > 1 THEN "lock" ELSE "idle")

\* Mutant of SendHalf: the mutex is released between the halves, taken again
\* for the second one.
SendHalfUnlocked(t) ==
  /\ pc[t] = "half"
  /\ halfSent' = t
  /\ owner' = NoThread
  /\ GoTo(t, "lock")
  /\ full' = [full EXCEPT ![t] = FALSE]
  /\ UNCHANGED <<calls, stopping, stateVars, now, observerVars, flipped>>

\* 0x0F of a 0xFF command.  What the driver answers is overwritten by the answer to 0xF0.
SendHalf(t) ==
  /\ pc[t] = "half"
  /\ halfSent' = t
  /\ GoTo(t, "send")
  /\ UNCHANGED <<owner, calls, full, stopping, stateVars, now, observerVars, flipped>>

\* m_device.execute_command( cmd, state ) && m_device_state != state
SendChanged(t) ==
  /\ pc[t] = "send"
  /\ fresh' \in DeviceState \ {state}
  /\ halfSent' = NoThread
  /\ GoTo(t, "lights")
  /\ UNCHANGED <<owner, calls, full, stopping, state, flipping, lightTimes, now, observerVars,
                 flipped>>

\* The driver fails, or the state it returns is the one already held.
SendUnchanged(t) ==
  /\ pc[t] = "send"
  /\ halfSent' = NoThread
  /\ Release(t)
  /\ UNCHANGED <<stopping, stateVars, now, observerVars, flipped>>

\* Mutant of CompareLights: with the lights as before, the buttons are not looked at either.
CompareLightsOnly(t) ==
  /\ pc[t] = "lights"
  /\ flipping' = SymDiff(state.lights, fresh.lights)
  /\ GoTo(t, IF fresh.lights # state.lights THEN "flips" ELSE "sensors")
  /\ UNCHANGED <<owner, calls, full, stopping, fresh, state, lightTimes, now, observerVars,
                 halfSent, flipped>>

CompareLights(t) ==
  /\ pc[t] = "lights"
  /\ flipping' = SymDiff(state.lights, fresh.lights)
  /\ GoTo(t, IF fresh.lights # state.lights THEN "flips" ELSE "buttons")
  /\ UNCHANGED <<owner, calls, full, stopping, fresh, state, lightTimes, now, observerVars,
                 halfSent, flipped>>

\* Mutant of IsDoubleClick: two flips two seconds apart count.
IsSlowDoubleClick(l) == now - lightTimes[l] <= DoubleClickSeconds

IsDoubleClick(l) == now - lightTimes[l] < DoubleClickSeconds

(***************************************************************************)
(* One turn of update_light_times for the changed light of least index:    *)
(* on_double_click to every observer if the light flipped a moment ago,    *)
(* then the new time.  An observer's reaction is not modelled here.        *)
(***************************************************************************)
UpdateLightTime(t, l) ==
  /\ pc[t] = "flips"
  /\ l \in flipping
  /\ \A k \in flipping : l <= k
  /\ flipping' = flipping \ {l}
  /\ lightTimes' = [lightTimes EXCEPT ![l] = now]
  /\ UNCHANGED <<threadVars, fresh, state, now, observerVars, halfSent, flipped>>

NotifyDoubleClick(t, l) == UpdateLightTime(t, l) /\ IsDoubleClick(l)

NotifyNothing(t, l) == UpdateLightTime(t, l) /\ ~IsDoubleClick(l)

\* The end of update_light_times.
LightTimesUpdated(t) ==
  /\ pc[t] = "flips"
  /\ flipping = {}
  /\ GoTo(t, "tellLights")
  /\ UNCHANGED <<owner, calls, full, stopping, stateVars, now, observerVars, halfSent, flipped>>

\* Mutant of Told: a callback passes the state the controller still holds.
ToldHeld(field) ==
  view' = [o \in Observer |->
             IF o \in observers THEN [view[o] EXCEPT ![field] = state[field]] ELSE view[o]]

\* The loop over m_observers_list with the field of the new state.
Told(field) ==
  view' = [o \in Observer |->
             IF o \in observers THEN [view[o] EXCEPT ![field] = fresh[field]] ELSE view[o]]

NotifyLights(t) ==
  /\ pc[t] = "tellLights"
  /\ Told("lights")
  /\ GoTo(t, "buttons")
  /\ UNCHANGED <<owner, calls, full, stopping, stateVars, now, observers, inSync, halfSent,
                 flipped>>

NotifyButtons(t) ==
  /\ pc[t] = "buttons"
  /\ IF fresh.buttons # state.buttons THEN Told("buttons") ELSE UNCHANGED view
  /\ GoTo(t, "sensors")
  /\ UNCHANGED <<owner, calls, full, stopping, stateVars, now, observers, inSync, halfSent,
                 flipped>>

NotifySensors(t) ==
  /\ pc[t] = "sensors"
  /\ IF fresh.sensors # state.sensors THEN Told("sensors") ELSE UNCHANGED view
  /\ GoTo(t, "store")
  /\ UNCHANGED <<owner, calls, full, stopping, stateVars, now, observers, inSync, halfSent,
                 flipped>>

\* m_device_state = state, and the lock is released.
Store(t) ==
  /\ pc[t] = "store"
  /\ state' = fresh
  /\ fresh' = NoDeviceState
  /\ flipped' = [l \in Light |-> IF l \in SymDiff(state.lights, fresh.lights)
                                 THEN lightTimes[l] ELSE flipped[l]]
  /\ Release(t)
  /\ UNCHANGED <<stopping, flipping, lightTimes, now, observerVars, halfSent>>

(***************************************************************************)
(* What takes no lock.                                                     *)
(***************************************************************************)
\* What get_state may copy: while another thread assigns m_device_state, any mix of words.
Readable ==
  IF \E t \in Thread : pc[t] = "store"
  THEN [lights : {state.lights, fresh.lights}, buttons : {state.buttons, fresh.buttons},
        sensors : {state.sensors, fresh.sensors}]
  ELSE {state}

GetState(o) ==
  /\ o \notin observers
  /\ \E s \in Readable : view' = [view EXCEPT ![o] = s]
  /\ UNCHANGED <<threadVars, stateVars, now, observers, inSync, halfSent, flipped>>

AddObserver(o) ==
  /\ o \notin observers
  /\ observers' = observers \cup {o}
  /\ inSync' = IF owner = NoThread /\ view[o] = state THEN inSync \cup {o} ELSE inSync
  /\ UNCHANGED <<threadVars, stateVars, now, view, halfSent, flipped>>

RemoveObserver(o) ==
  /\ o \in observers
  /\ observers' = observers \ {o}
  /\ inSync' = inSync \ {o}
  /\ UNCHANGED <<threadVars, stateVars, now, view, halfSent, flipped>>

Tick ==
  /\ now < MaxNow
  /\ now' = now + 1
  /\ UNCHANGED <<threadVars, stateVars, observerVars, halfSent, flipped>>

DoExecuteCommand(t) ==
  \/ Lock(t)
  \/ SendHalf(t)
  \/ SendChanged(t)
  \/ SendUnchanged(t)
  \/ CompareLights(t)
  \/ \E l \in Light : NotifyDoubleClick(t, l) \/ NotifyNothing(t, l)
  \/ LightTimesUpdated(t)
  \/ NotifyLights(t)
  \/ NotifyButtons(t)
  \/ NotifySensors(t)
  \/ Store(t)

Next ==
  \/ \E t \in Thread : ExecuteCommand(t) \/ DoExecuteCommand(t)
  \/ Poll
  \/ Stop
  \/ LeavePollLoop
  \/ \E o \in Observer : GetState(o) \/ AddObserver(o) \/ RemoveObserver(o)
  \/ Tick

Spec == Init /\ [][Next]_vars

-----------------------------------------------------------------------------
TypeOK ==
  /\ owner \in Thread \cup {NoThread}
  /\ pc \in [Thread -> Locked \cup {"idle", "lock", "done"}]
  /\ calls \in [Thread -> 0 .. 2]
  /\ full \in [Thread -> BOOLEAN]
  /\ stopping \in BOOLEAN
  /\ fresh \in DeviceState
  /\ state \in DeviceState
  /\ flipping \subseteq Light
  /\ lightTimes \in [Light -> Nat]
  /\ now \in Nat
  /\ observers \subseteq Observer
  /\ view \in [Observer -> DeviceState]
  /\ halfSent \in Thread \cup {NoThread}
  /\ inSync \subseteq observers
  /\ flipped \in [Light -> Nat]

(***************************************************************************)
(* A 0xFF command is one command to the rest of the program: from its 0x0F *)
(* to its 0xF0 nobody else talks to the driver ("two stage command         *)
(* execution", device_controller.cpp:109).                                 *)
(***************************************************************************)
PairIsAtomic ==
  halfSent # NoThread =>
    \A t \in Thread : pc[t] \in Locked => t = halfSent

(***************************************************************************)
(* Whenever the lock is free, an observer that knew the device's state     *)
(* when it registered knows it still: no change is dropped between the     *)
(* callbacks, the early exits and the store of do_execute_command.         *)
(***************************************************************************)
ObserversInSync ==
  owner = NoThread => \A o \in inSync : view[o] = state

(***************************************************************************)
(* on_double_click is only called for a light that m_device_state recorded *)
(* as flipped less than two seconds ago and that is being flipped again by *)
(* the state just read: m_light_times never disagrees with what was stored.*)
(***************************************************************************)
DoubleClickIsTwoFlips ==
  [][\A t \in Thread, l \in Light :
       NotifyDoubleClick(t, l) =>
         /\ now - flipped[l] < DoubleClickSeconds
         /\ l \in SymDiff(state.lights, fresh.lights)]_vars

(***************************************************************************)
(* The inductive invariant behind these properties.                        *)
(***************************************************************************)
\* The thread that holds the lock is at one of these places of do_execute_command.
At(places) == owner # NoThread /\ pc[owner] \in places

\* The lock is held by the one thread that is between lock and unlock, on a call it has left.
LockInv ==
  /\ owner # NoThread => pc[owner] \in Locked
  /\ \A t \in Thread : pc[t] \in Locked => owner = t
  /\ \A t \in Thread : pc[t] \in Locked \cup {"lock"} => calls[t] > 0

PairInv == halfSent # NoThread => halfSent = owner /\ At({"send"})

\* A word is the new one for the observers once its loop is over, the old one before.
SyncInv ==
  \A o \in inSync :
    /\ view[o].lights = IF At({"buttons", "sensors", "store"}) THEN fresh.lights ELSE state.lights
    /\ view[o].buttons = IF At({"sensors", "store"}) THEN fresh.buttons ELSE state.buttons
    /\ view[o].sensors = IF At({"store"}) THEN fresh.sensors ELSE state.sensors

\* m_light_times is ahead of what is stored only for lights that update_light_times has done.
FlipInv ==
  /\ At({"flips"}) => flipping \subseteq SymDiff(state.lights, fresh.lights)
  /\ \A l \in Light : lightTimes[l] # flipped[l] =>
       /\ At({"flips", "tellLights", "buttons", "sensors", "store"})
       /\ l \in SymDiff(state.lights, fresh.lights)
       /\ At({"flips"}) => l \notin flipping

IInv == TypeOK /\ LockInv /\ PairInv /\ SyncInv /\ FlipInv

(***************************************************************************)
(* The controller implements DeviceFeed: the state read from the driver is *)
(* pending until it is stored, and the observers in sync are the followers *)
(* (do_execute_command tells lights, buttons and sensors before the store).*)
(***************************************************************************)
Feed == INSTANCE DeviceFeed WITH
  State <- DeviceState,
  Word <- {"lights", "buttons", "sensors"},
  pending <- IF At({"lights", "flips", "tellLights", "buttons", "sensors", "store"})
             THEN fresh ELSE state,
  learned <- [o \in inSync |-> view[o]]

ImplementsFeed == Feed!Spec
=============================================================================
