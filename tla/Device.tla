-------------------------------- MODULE Device --------------------------------
(***************************************************************************)
(* device_t (src/src/server/device/device.cpp): a thread that sits between *)
(* the driver's callbacks and the server's observers (event handler,       *)
(* mobile register).  A callback writes one word of m_device_state and     *)
(* sets m_update_event; the thread wakes up, compares every word with      *)
(* m_prev_device_state, tells the observers what differs, copies the state *)
(* and resets the event.  Nothing is locked between the two sides: the     *)
(* controller's lock only keeps two callbacks from running at once.        *)
(*                                                                         *)
(* The three words and the pin of a double click are four items that are   *)
(* checked in one order; the pin's previous value is always PIN_NOT_SET.   *)
(***************************************************************************)
EXTENDS Naturals

CONSTANTS
  Observer,    \* m_observers: the event handler and the mobile register
  Lights, Buttons, Sensors,  \* the values of the three words of device_state_t
  Pin,         \* values of a double click's button_pin
  PinNotSet    \* PIN_NOT_SET

ASSUME ValueAssumption == PinNotSet \notin Pin

Item == {"lights", "buttons", "sensors", "click"}
Word == Item \ {"click"}
State == Lights \cup Buttons \cup Sensors
Values == [lights |-> Lights, buttons |-> Buttons, sensors |-> Sensors,
           click |-> Pin \cup {PinNotSet}]

\* The order in which check_for_changes looks at the items, and copies the words.
Rank == [lights |-> 1, buttons |-> 2, sensors |-> 3, click |-> 4]
Following == [lights |-> "buttons", buttons |-> "sensors", sensors |-> "click",
              click |-> "lights"]

NoCallback == "none"

VARIABLES
  pc,        \* where the device thread is
  item,      \* the item it is checking, or copying
  todo,      \* observers its current loop has still to call
  current,   \* m_device_state, with m_double_click_pin
  previous,  \* m_prev_device_state
  updated,   \* m_update_event, manual reset
  stop,      \* thread_base_t::stop( ): asked for, flagged, do_stop done
  attached,  \* registered with the driver
  callback,  \* item a callback has written and not yet announced
  told,      \* what each observer was last told
  late       \* history: the item changed after the current round had looked at it

threadVars == <<pc, item, todo, previous, attached>>
vars == <<pc, item, todo, current, previous, updated, stop, attached, callback, told, late>>

Place == {"idle", "attach", "wait", "woken", "check", "tell", "save", "clear", "reset",
          "detach", "done"}

Differs(i) == current[i] # previous[i]

\* The round in progress has already compared item i: what is written now is not seen by it.
Passed(i) ==
  \/ pc = "check" /\ Rank[i] < Rank[item]
  \/ pc = "tell" /\ Rank[i] <= Rank[item]
  \/ pc \in {"save", "clear", "reset"}

-----------------------------------------------------------------------------
\* After init( ): both states hold what get_state returned, and so do the observers.
Init ==
  /\ pc = "idle"
  /\ item = "lights"
  /\ todo = {}
  /\ current \in {c \in [Item -> State \cup {PinNotSet}] :
                   c["click"] = PinNotSet /\ \A i \in Word : c[i] \in Values[i]}
  /\ previous = current
  /\ updated = FALSE
  /\ stop = "no"
  /\ attached = FALSE
  /\ callback = NoCallback
  /\ told = [o \in Observer |-> current]
  /\ late = [i \in Item |-> FALSE]

(***************************************************************************)
(* Callbacks, made by whichever thread holds the controller's lock.        *)
(***************************************************************************)
\* on_light_changed, on_button_pressed, on_sensor_triggered, on_double_click: the write ...
OnChanged(i, v) ==
  /\ attached
  /\ callback = NoCallback
  /\ current' = [current EXCEPT ![i] = v]
  /\ callback' = i
  /\ late' = [late EXCEPT ![i] = @ \/ Passed(i)]
  /\ UNCHANGED <<threadVars, updated, stop, told>>

\* ... and m_update_event.set( ).
Announce ==
  /\ callback # NoCallback
  /\ updated' = TRUE
  /\ callback' = NoCallback
  /\ UNCHANGED <<threadVars, current, stop, told, late>>

(***************************************************************************)
(* thread_base_t: start( ), and stop( ) with do_stop( ).                   *)
(***************************************************************************)
Start ==
  /\ pc = "idle"
  /\ pc' = "attach"
  /\ UNCHANGED <<item, todo, current, previous, updated, stop, attached, callback, told, late>>

Stop ==
  /\ pc # "idle"
  /\ stop = "no"
  /\ stop' = "flagged"
  /\ UNCHANGED <<threadVars, current, updated, callback, told, late>>

DoStop ==
  /\ stop = "flagged"
  /\ stop' = "signalled"
  /\ updated' = TRUE
  /\ UNCHANGED <<threadVars, current, callback, told, late>>

(***************************************************************************)
(* do_run                                                                  *)
(***************************************************************************)
AddObserver ==
  /\ pc = "attach"
  /\ attached' = TRUE
  /\ pc' = "wait"
  /\ UNCHANGED <<item, todo, current, previous, updated, stop, callback, told, late>>

WaitStateUpdate ==
  /\ pc = "wait"
  /\ updated
  /\ pc' = "woken"
  /\ UNCHANGED <<item, todo, current, previous, updated, stop, attached, callback, told, late>>

LeaveLoop ==
  /\ pc = "woken"
  /\ stop # "no"
  /\ pc' = "detach"
  /\ UNCHANGED <<item, todo, current, previous, updated, stop, attached, callback, told, late>>

\* Mutant of CheckForChanges: is_stopping is not looked at after the wait.
CheckEvenIfStopping ==
  /\ pc = "woken"
  /\ pc' = "check"
  /\ item' = "lights"
  /\ UNCHANGED <<todo, current, previous, updated, stop, attached, callback, told, late>>

\* Mutant of CheckForChanges: the state is copied before it is compared.
CheckAfterSaving ==
  /\ pc = "woken"
  /\ stop = "no"
  /\ pc' = "check"
  /\ item' = "lights"
  /\ previous' = [current EXCEPT !["click"] = PinNotSet]
  /\ UNCHANGED <<todo, current, updated, stop, attached, callback, told, late>>

CheckForChanges ==
  /\ pc = "woken"
  /\ stop = "no"
  /\ pc' = "check"
  /\ item' = "lights"
  /\ UNCHANGED <<todo, current, previous, updated, stop, attached, callback, told, late>>

RemoveObserver ==
  /\ pc = "detach"
  /\ attached' = FALSE
  /\ pc' = "done"
  /\ UNCHANGED <<item, todo, current, previous, updated, stop, callback, told, late>>

NextCheck ==
  /\ pc' = IF item = "click" THEN "save" ELSE "check"
  /\ item' = Following[item]

\* check_lights_changes, check_buttons_changes, check_sensors_changes, check_double_click.
CheckSame ==
  /\ pc = "check"
  /\ ~Differs(item)
  /\ NextCheck
  /\ UNCHANGED <<todo, current, previous, updated, stop, attached, callback, told, late>>

CheckDiffers ==
  /\ pc = "check"
  /\ Differs(item)
  /\ pc' = "tell"
  /\ todo' = Observer
  /\ late' = [late EXCEPT ![item] = FALSE]
  /\ UNCHANGED <<item, current, previous, updated, stop, attached, callback, told>>

\* Mutant of Tell: the word is compared after it was copied, so the old one is passed on.
TellPrevious(o) ==
  /\ pc = "tell"
  /\ o \in todo
  /\ told' = [told EXCEPT ![o][item] = previous[item]]
  /\ todo' = todo \ {o}
  /\ UNCHANGED <<pc, item, current, previous, updated, stop, attached, callback, late>>

\* Every observer gets the word as it is now: the callbacks take a reference to it.
Tell(o) ==
  /\ pc = "tell"
  /\ o \in todo
  /\ told' = [told EXCEPT ![o][item] = current[item]]
  /\ todo' = todo \ {o}
  /\ UNCHANGED <<pc, item, current, previous, updated, stop, attached, callback, late>>

\* Mutant of AllTold: the loop ends after the first observer.
OneTold ==
  /\ pc = "tell"
  /\ todo # Observer
  /\ todo' = {}
  /\ NextCheck
  /\ UNCHANGED <<current, previous, updated, stop, attached, callback, told, late>>

AllTold ==
  /\ pc = "tell"
  /\ todo = {}
  /\ NextCheck
  /\ UNCHANGED <<todo, current, previous, updated, stop, attached, callback, told, late>>

\* Mutant of SaveWord: the pin is copied with the words.
SavePin ==
  /\ pc = "save"
  /\ previous' = [previous EXCEPT ![item] = current[item]]
  /\ pc' = IF item = "click" THEN "clear" ELSE "save"
  /\ item' = Following[item]
  /\ UNCHANGED <<todo, current, updated, stop, attached, callback, told, late>>

\* Mutant of SaveWord: the lights are left out.
SaveAllButLights ==
  /\ pc = "save"
  /\ previous' = IF item = "lights" THEN previous ELSE [previous EXCEPT ![item] = current[item]]
  /\ pc' = IF item = "sensors" THEN "clear" ELSE "save"
  /\ item' = IF item = "sensors" THEN "lights" ELSE Following[item]
  /\ UNCHANGED <<todo, current, updated, stop, attached, callback, told, late>>

\* m_prev_device_state = m_device_state, one word after the other.
SaveWord ==
  /\ pc = "save"
  /\ previous' = [previous EXCEPT ![item] = current[item]]
  /\ pc' = IF item = "sensors" THEN "clear" ELSE "save"
  /\ item' = IF item = "sensors" THEN "lights" ELSE Following[item]
  /\ UNCHANGED <<todo, current, updated, stop, attached, callback, told, late>>

ClearDoubleClick ==
  /\ pc = "clear"
  /\ current' = [current EXCEPT !["click"] = PinNotSet]
  /\ pc' = "reset"
  /\ UNCHANGED <<item, todo, previous, updated, stop, attached, callback, told, late>>

ResetEvent ==
  /\ pc = "reset"
  /\ updated' = FALSE
  /\ pc' = "wait"
  /\ UNCHANGED <<item, todo, current, previous, stop, attached, callback, told, late>>

DeviceThread ==
  \/ AddObserver
  \/ WaitStateUpdate
  \/ LeaveLoop
  \/ CheckForChanges
  \/ CheckSame
  \/ CheckDiffers
  \/ \E o \in Observer : Tell(o)
  \/ AllTold
  \/ SaveWord
  \/ ClearDoubleClick
  \/ ResetEvent
  \/ RemoveObserver

Next ==
  \/ DeviceThread
  \/ \E i \in Word : \E v \in Values[i] : OnChanged(i, v)
  \/ \E pin \in Pin : OnChanged("click", pin)
  \/ Announce
  \/ Start
  \/ Stop
  \/ DoStop

\* A runnable thread runs on; a callback and a stop that have begun end.  Nobody has to call.
Fairness ==
  /\ WF_vars(DeviceThread)
  /\ WF_vars(Announce)
  /\ WF_vars(DoStop)

Spec == Init /\ [][Next]_vars
FairSpec == Spec /\ Fairness

-----------------------------------------------------------------------------
TypeOK ==
  /\ pc \in Place
  /\ item \in Item
  /\ todo \subseteq Observer
  /\ current \in [Item -> State \cup Pin \cup {PinNotSet}]
  /\ \A i \in Item : current[i] \in Values[i]
  /\ previous \in [Item -> State \cup Pin \cup {PinNotSet}]
  /\ previous["click"] = PinNotSet
  /\ updated \in BOOLEAN
  /\ stop \in {"no", "flagged", "signalled"}
  /\ attached \in BOOLEAN
  /\ callback \in Item \cup {NoCallback}
  /\ told \in [Observer -> [Item -> State \cup Pin \cup {PinNotSet}]]
  /\ late \in [Item -> BOOLEAN]

Known(i) == \A o \in Observer : told[o][i] = current[i]

\* Nothing is going on and nothing will, unless the driver or stop( ) calls again.
Quiet == pc = "wait" /\ ~updated /\ callback = NoCallback

(***************************************************************************)
(* When the thread sleeps with nothing announced, the only words its       *)
(* observers may be wrong about are those written after the round in       *)
(* progress had looked at them: check_for_changes (device.cpp:183-192) and *)
(* reset( ) (line 84) lose nothing else.                                   *)
(***************************************************************************)
OnlyLateChangesAreLost ==
  Quiet => \A i \in Word : ~late[i] => Known(i)

(***************************************************************************)
(* A double click is only forgotten (line 191) once every observer has     *)
(* been told of it, or if it came after check_double_click had looked.     *)
(***************************************************************************)
DoubleClickToldBeforeForgotten ==
  pc = "clear" /\ current["click"] # PinNotSet /\ ~late["click"] => Known("click")

(***************************************************************************)
(* A word that differs when the thread is about to wake up reaches every   *)
(* observer, unless it changes again or the thread is asked to stop.       *)
(***************************************************************************)
ChangeIsTold ==
  \A i \in Word : \A v \in Values[i] :
    (pc = "wait" /\ updated /\ Differs(i) /\ current[i] = v)
      ~> (Known(i) \/ current[i] # v \/ stop # "no")

(***************************************************************************)
(* stop( ) called while the thread is outside a round ends it: the flag is *)
(* seen at the next wake-up and nothing can take the wake-up away.         *)
(***************************************************************************)
StopOutsideARoundEnds ==
  (stop = "flagged" /\ pc \in {"attach", "wait", "woken"}) ~> pc = "done"

(***************************************************************************)
(* "notify about changes" (lines 104, 113, 122, 129): when the thread      *)
(* sleeps and nothing is under way, its observers know the state.          *)
(***************************************************************************)
ChangesAreNotified ==
  Quiet => \A i \in Word : Known(i)

(***************************************************************************)
(* The inductive invariant behind OnlyLateChangesAreLost and               *)
(* DoubleClickToldBeforeForgotten.  For an item that was not written late: *)
(*   - before the round looks at it, the observers know its previous value;*)
(*   - while they are being told, those already told know its value;       *)
(*   - after that, all know it (of the pin, only if there is one);         *)
(*   - once copied, its previous value is its value.                       *)
(***************************************************************************)
Telling(i) == pc = "tell" /\ item = i

Copied(i) ==
  \/ pc = "save" /\ Rank[i] < Rank[item]
  \/ pc \in {"clear", "reset"}

PhaseInv(i) ==
  ~late[i] =>
    /\ i \in Word /\ ~Passed(i) => \A o \in Observer : told[o][i] = previous[i]
    /\ Telling(i) => \A o \in Observer \ todo : told[o][i] = current[i]
    /\ Passed(i) /\ ~Telling(i) /\ (i \in Word \/ current[i] # PinNotSet) => Known(i)
    /\ i \in Word /\ Copied(i) => previous[i] = current[i]

\* A difference the sleeping thread has not been told of is about to be announced.
WakeUpInv ==
  pc = "wait" =>
    \A i \in Word : ~late[i] /\ Differs(i) => updated \/ callback = i

\* Before AddObserver nothing is written, and the copying loop only visits words.
PlaceInv ==
  /\ pc \in {"idle", "attach"} =>
       ~attached /\ callback = NoCallback /\ \A i \in Word : ~Differs(i)
  /\ pc = "save" => item \in Word

IInv == TypeOK /\ PlaceInv /\ WakeUpInv /\ \A i \in Item : PhaseInv(i)
=============================================================================
