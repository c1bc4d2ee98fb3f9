------------------------------ MODULE DeviceFeed ------------------------------
(***************************************************************************)
(* What a device driver promises to those who observe it (driver_intf_t    *)
(* and device_observer_t): the device has one state after another; before  *)
(* a state counts, every word that differs from the last has been told to  *)
(* everybody who follows the device, and only such words are told; who     *)
(* follows it knows all of the last state.                                 *)
(***************************************************************************)
CONSTANTS
  Observer,  \* who may follow the device
  State,     \* states of the device: functions of Word
  Word       \* the words of a state, told one by one

VARIABLES
  state,     \* the last state that was told in full
  pending,   \* the state that is being told, or the last one
  learned    \* what each follower knows; its domain are the followers

vars == <<state, pending, learned>>

Follower == DOMAIN learned

Init ==
  /\ state \in State
  /\ pending = state
  /\ learned = [o \in {} |-> state]

\* The device is found in another state.
Read(new) ==
  /\ pending = state
  /\ new # state
  /\ pending' = new
  /\ UNCHANGED <<state, learned>>

Tell(word) ==
  /\ pending[word] # state[word]
  /\ learned' = [o \in Follower |-> [learned[o] EXCEPT ![word] = pending[word]]]
  /\ UNCHANGED <<state, pending>>

\* Everybody knows the new state.
Commit ==
  /\ pending # state
  /\ \A o \in Follower : learned[o] = pending
  /\ state' = pending
  /\ UNCHANGED <<pending, learned>>

\* Somebody who knows the state begins to follow it, between two changes.
Follow(o) ==
  /\ pending = state
  /\ o \notin Follower
  /\ learned' = [f \in Follower \cup {o} |-> IF f = o THEN state ELSE learned[f]]
  /\ UNCHANGED <<state, pending>>

Leave(o) ==
  /\ o \in Follower
  /\ learned' = [f \in Follower \ {o} |-> learned[f]]
  /\ UNCHANGED <<state, pending>>

Next ==
  \/ \E new \in State : Read(new)
  \/ \E word \in Word : Tell(word)
  \/ Commit
  \/ \E o \in Observer : Follow(o) \/ Leave(o)

Spec == Init /\ [][Next]_vars
=============================================================================
