------------------------- MODULE DeviceControllerProofs -------------------------
(***************************************************************************)
(* Proofs about DeviceController, for any threads, observers, lights and   *)
(* bounds: IInv is inductive, so the lock, the pair of a 0xFF command, the *)
(* observers and the light times agree in every state.                     *)
(***************************************************************************)
EXTENDS DeviceController, TLAPS

\* What every step of do_execute_command but the first knows of its thread.
LEMMA HolderIsOwner ==
  ASSUME TypeOK, LockInv, NEW t \in Thread, pc[t] \in Locked
  PROVE  owner = t /\ owner # NoThread /\ \A u \in Thread \ {t} : pc[u] \notin Locked
  BY ThreadAssumption DEF LockInv, Thread

\* Type correctness: the lock invariant is what keeps calls from going below zero.
LEMMA TypeStep == TypeOK /\ LockInv /\ [Next]_vars => TypeOK'
<1> SUFFICES ASSUME TypeOK, LockInv, [Next]_vars PROVE TypeOK'
  OBVIOUS
<1> USE DEF TypeOK, Locked, GoTo
<1>1. ASSUME NEW t \in Thread, ExecuteCommand(t) PROVE TypeOK'
  BY <1>1 DEF ExecuteCommand, stateVars, observerVars
<1>2. CASE Poll
  BY <1>2 DEF Poll, Thread, stateVars, observerVars
<1>3. CASE Stop \/ LeavePollLoop
  BY <1>3 DEF Stop, LeavePollLoop, Thread, stateVars, observerVars
<1>4. ASSUME NEW t \in Thread, Lock(t) \/ SendHalf(t) \/ CompareLights(t) \/ LightTimesUpdated(t)
      PROVE  TypeOK'
  BY <1>4 DEF Lock, SendHalf, CompareLights, LightTimesUpdated, SymDiff, DeviceState, stateVars,
              observerVars
<1>5. ASSUME NEW t \in Thread, SendChanged(t) PROVE TypeOK'
  BY <1>5 DEF SendChanged, observerVars
<1>6. ASSUME NEW t \in Thread, Release(t), pc[t] \in Locked
      PROVE  /\ owner' \in Thread \cup {NoThread}
             /\ pc' \in [Thread -> Locked \cup {"idle", "lock", "done"}]
             /\ calls' \in [Thread -> 0 .. 2]
             /\ full' \in [Thread -> BOOLEAN]
  <2>1. calls[t] \in 1 .. 2
    BY <1>6 DEF LockInv
  <2>2. calls' \in [Thread -> 0 .. 2]
    BY <1>6, <2>1 DEF Release
  <2>3. full' \in [Thread -> BOOLEAN]
    BY <1>6 DEF Release
  <2>4. QED
    BY <1>6, <2>2, <2>3 DEF Release
<1>7. ASSUME NEW t \in Thread, SendUnchanged(t) PROVE TypeOK'
  BY <1>6, <1>7 DEF SendUnchanged, stateVars, observerVars
<1>8. ASSUME NEW t \in Thread, NEW l \in Light, UpdateLightTime(t, l) PROVE TypeOK'
  BY <1>8 DEF UpdateLightTime, threadVars, observerVars
<1>9. ASSUME NEW t \in Thread, NEW f \in {"lights", "buttons", "sensors"}, Told(f)
      PROVE  view' \in [Observer -> DeviceState]
  BY <1>9 DEF Told, DeviceState
<1>10. ASSUME NEW t \in Thread, NotifyLights(t) \/ NotifyButtons(t) \/ NotifySensors(t)
       PROVE  TypeOK'
  <2>1. view' \in [Observer -> DeviceState]
    BY <1>9, <1>10 DEF NotifyLights, NotifyButtons, NotifySensors
  <2>2. QED
    BY <1>10, <2>1 DEF NotifyLights, NotifyButtons, NotifySensors, stateVars
<1>11. ASSUME NEW t \in Thread, Store(t) PROVE TypeOK'
  <2>1. flipped' \in [Light -> Nat]
    BY <1>11 DEF Store
  <2>2. fresh' \in DeviceState
    BY <1>11, BoundAssumption DEF Store, NoDeviceState, DeviceState
  <2>3. QED
    BY <1>6, <1>11, <2>1, <2>2 DEF Store, observerVars
<1>12. ASSUME NEW o \in Observer, GetState(o) PROVE TypeOK'
  <2>1. Readable \subseteq DeviceState
    BY DEF Readable, DeviceState
  <2>2. QED
    BY <1>12, <2>1 DEF GetState, threadVars, stateVars
<1>13. ASSUME NEW o \in Observer, AddObserver(o) \/ RemoveObserver(o) PROVE TypeOK'
  BY <1>13 DEF AddObserver, RemoveObserver, threadVars, stateVars
<1>14. CASE Tick
  BY <1>14 DEF Tick, threadVars, stateVars, observerVars
<1>15. CASE UNCHANGED vars
  BY <1>15 DEF vars
<1>16. QED
  BY <1>1, <1>2, <1>3, <1>4, <1>5, <1>7, <1>8, <1>10, <1>11, <1>12, <1>13, <1>14, <1>15
     DEF Next, DoExecuteCommand, NotifyDoubleClick, NotifyNothing

\* Only the thread that holds the lock leaves it, and only one takes it when it is free.
LEMMA LockStep == TypeOK /\ LockInv /\ [Next]_vars => LockInv'
<1> SUFFICES ASSUME TypeOK, LockInv, [Next]_vars PROVE LockInv'
  OBVIOUS
<1> USE DEF TypeOK, LockInv, Locked, GoTo
<1>1. ASSUME NEW t \in Thread, ExecuteCommand(t) PROVE LockInv'
  BY <1>1 DEF ExecuteCommand
<1>2. CASE Poll
  BY <1>2 DEF Poll
<1>3. CASE Stop \/ LeavePollLoop
  BY <1>3, ThreadAssumption DEF Stop, LeavePollLoop, Thread
<1>4. ASSUME NEW t \in Thread, Lock(t) PROVE LockInv'
  BY <1>4, ThreadAssumption DEF Lock, Thread
<1>5. ASSUME NEW t \in Thread,
             \/ SendHalf(t) \/ SendChanged(t) \/ CompareLights(t) \/ LightTimesUpdated(t)
             \/ NotifyLights(t) \/ NotifyButtons(t) \/ NotifySensors(t)
      PROVE  LockInv'
  <2>1. pc[t] \in Locked /\ UNCHANGED <<owner, calls>>
    BY <1>5 DEF SendHalf, SendChanged, CompareLights, LightTimesUpdated, NotifyLights,
                NotifyButtons, NotifySensors
  <2>2. \E place \in Locked : pc' = [pc EXCEPT ![t] = place]
    BY <1>5 DEF SendHalf, SendChanged, CompareLights, LightTimesUpdated, NotifyLights,
                NotifyButtons, NotifySensors
  <2>3. QED
    BY <2>1, <2>2, HolderIsOwner
<1>6. ASSUME NEW t \in Thread, SendUnchanged(t) \/ Store(t) PROVE LockInv'
  <2>1. pc[t] \in Locked /\ Release(t)
    BY <1>6 DEF SendUnchanged, Store
  <2>2. owner' = NoThread /\ \A u \in Thread \ {t} : pc'[u] = pc[u] /\ calls'[u] = calls[u]
    BY <2>1 DEF Release
  <2>3. pc'[t] = "idle" \/ (pc'[t] = "lock" /\ calls'[t] > 0)
    BY <2>1 DEF Release
  <2>4. QED
    BY <2>1, <2>2, <2>3, HolderIsOwner
<1>7. ASSUME NEW t \in Thread, NEW l \in Light, UpdateLightTime(t, l) PROVE LockInv'
  BY <1>7 DEF UpdateLightTime, threadVars
<1>8. ASSUME NEW o \in Observer, GetState(o) \/ AddObserver(o) \/ RemoveObserver(o) PROVE LockInv'
  BY <1>8 DEF GetState, AddObserver, RemoveObserver, threadVars
<1>9. CASE Tick \/ UNCHANGED vars
  BY <1>9 DEF Tick, threadVars, vars
<1>10. QED
  BY <1>1, <1>2, <1>3, <1>4, <1>5, <1>6, <1>7, <1>8, <1>9
     DEF Next, DoExecuteCommand, NotifyDoubleClick, NotifyNothing

\* The second half of a 0xFF command follows the first under the same lock.
LEMMA PairStep == TypeOK /\ LockInv /\ PairInv /\ [Next]_vars => PairInv'
<1> SUFFICES ASSUME TypeOK, LockInv, PairInv, [Next]_vars PROVE PairInv'
  OBVIOUS
<1> USE DEF TypeOK, PairInv, At, Locked, GoTo
<1>1. ASSUME NEW t \in Thread, ExecuteCommand(t) PROVE PairInv'
  BY <1>1 DEF ExecuteCommand
<1>2. CASE Poll \/ Stop \/ LeavePollLoop
  BY <1>2, ThreadAssumption DEF Poll, Stop, LeavePollLoop, Thread
<1>3. ASSUME NEW t \in Thread, Lock(t) PROVE PairInv'
  BY <1>3 DEF Lock
<1>4. ASSUME NEW t \in Thread, SendHalf(t) PROVE PairInv'
  BY <1>4, HolderIsOwner DEF SendHalf
<1>5. ASSUME NEW t \in Thread, SendChanged(t) \/ SendUnchanged(t) PROVE PairInv'
  BY <1>5 DEF SendChanged, SendUnchanged
<1>6. ASSUME NEW t \in Thread,
             \/ CompareLights(t) \/ LightTimesUpdated(t)
             \/ NotifyLights(t) \/ NotifyButtons(t) \/ NotifySensors(t) \/ Store(t)
      PROVE  PairInv'
  <2>1. pc[t] \in Locked \ {"send"} /\ halfSent' = halfSent
    BY <1>6 DEF CompareLights, LightTimesUpdated, NotifyLights, NotifyButtons, NotifySensors, Store
  <2>2. owner = t /\ owner # NoThread
    BY <2>1, HolderIsOwner
  <2>3. halfSent = NoThread
    BY <2>1, <2>2
  <2>4. QED
    BY <2>1, <2>3
<1>7. ASSUME NEW t \in Thread, NEW l \in Light, UpdateLightTime(t, l) PROVE PairInv'
  BY <1>7 DEF UpdateLightTime, threadVars
<1>8. ASSUME NEW o \in Observer, GetState(o) \/ AddObserver(o) \/ RemoveObserver(o) PROVE PairInv'
  BY <1>8 DEF GetState, AddObserver, RemoveObserver, threadVars
<1>9. CASE Tick \/ UNCHANGED vars
  BY <1>9 DEF Tick, threadVars, vars
<1>10. QED
  BY <1>1, <1>2, <1>3, <1>4, <1>5, <1>6, <1>7, <1>8, <1>9
     DEF Next, DoExecuteCommand, NotifyDoubleClick, NotifyNothing

\* A change of one word reaches every observer in sync before the next word is looked at.
LEMMA SyncStep == TypeOK /\ LockInv /\ SyncInv /\ [Next]_vars => SyncInv'
<1> SUFFICES ASSUME TypeOK, LockInv, SyncInv, [Next]_vars PROVE SyncInv'
  OBVIOUS
<1> USE DEF GoTo
<1>1. ASSUME UNCHANGED <<state, fresh, view, inSync>>,
             ~At({"buttons", "sensors", "store"}), ~At({"buttons", "sensors", "store"})'
      PROVE  SyncInv'
  BY <1>1 DEF SyncInv, At
<1>2. ASSUME UNCHANGED <<state, fresh, view, inSync, owner>>, owner # NoThread => pc'[owner] = pc[owner]
      PROVE  SyncInv'
  BY <1>2 DEF SyncInv, At
<1>3. ASSUME NEW t \in Thread, ExecuteCommand(t) PROVE SyncInv'
  BY <1>2, <1>3 DEF ExecuteCommand, TypeOK, LockInv, Locked, stateVars, observerVars
<1>4. CASE Poll \/ Stop \/ LeavePollLoop
  BY <1>2, <1>4 DEF Poll, Stop, LeavePollLoop, TypeOK, LockInv, Locked, Thread, stateVars,
                    observerVars
<1>5. ASSUME NEW t \in Thread, Lock(t) PROVE SyncInv'
  BY <1>1, <1>5 DEF Lock, At, TypeOK, stateVars, observerVars
<1>6. ASSUME NEW t \in Thread, SendHalf(t) \/ LightTimesUpdated(t) PROVE SyncInv'
  <2>1. pc[t] \in Locked \ {"buttons", "sensors", "store"}
    BY <1>6 DEF SendHalf, LightTimesUpdated, Locked
  <2>2. owner = t
    BY <2>1, HolderIsOwner
  <2>3. QED
    BY <1>1, <1>6, <2>1, <2>2 DEF SendHalf, LightTimesUpdated, At, TypeOK, stateVars, observerVars
<1>7. ASSUME NEW t \in Thread, SendUnchanged(t) PROVE SyncInv'
  <2>1. pc[t] \in Locked \ {"buttons", "sensors", "store"}
    BY <1>7 DEF SendUnchanged, Locked
  <2>2. owner = t
    BY <2>1, HolderIsOwner
  <2>3. QED
    BY <1>1, <1>7, <2>1, <2>2 DEF SendUnchanged, Release, At, TypeOK, stateVars, observerVars
<1>8. ASSUME NEW t \in Thread, SendChanged(t) PROVE SyncInv'
  <2>1. pc[t] = "send" /\ pc'[t] = "lights" /\ owner = t /\ owner' = t
    BY <1>8, HolderIsOwner DEF SendChanged, Locked, TypeOK
  <2>2. QED
    BY <1>8, <2>1 DEF SendChanged, SyncInv, At, observerVars
<1>9. ASSUME NEW t \in Thread, CompareLights(t) PROVE SyncInv'
  <2>1. pc[t] = "lights" /\ owner = t /\ owner' = t /\ owner # NoThread
    BY <1>9, HolderIsOwner DEF CompareLights, Locked
  <2>2. pc'[t] = IF fresh.lights # state.lights THEN "flips" ELSE "buttons"
    BY <1>9 DEF CompareLights, TypeOK
  <2>3. QED
    BY <1>9, <2>1, <2>2 DEF CompareLights, SyncInv, At, observerVars
<1>10. ASSUME NEW t \in Thread, NEW l \in Light, UpdateLightTime(t, l) PROVE SyncInv'
  BY <1>2, <1>10 DEF UpdateLightTime, threadVars, observerVars
<1>11. ASSUME NEW t \in Thread, NotifyLights(t) PROVE SyncInv'
  <2>1. pc[t] = "tellLights" /\ pc'[t] = "buttons" /\ owner = t /\ owner' = t /\ owner # NoThread
    BY <1>11, HolderIsOwner DEF NotifyLights, Locked, TypeOK
  <2>2. \A o \in inSync : view[o] \in DeviceState /\ o \in observers /\ o \in Observer
    BY DEF TypeOK
  <2>3. \A o \in inSync : /\ view'[o].lights = fresh.lights
                          /\ view'[o].buttons = view[o].buttons
                          /\ view'[o].sensors = view[o].sensors
    BY <1>11, <2>1, <2>2 DEF NotifyLights, Told, SyncInv, At, DeviceState
  <2>4. UNCHANGED <<state, fresh, inSync>>
    BY <1>11 DEF NotifyLights, stateVars
  <2>5. QED
    BY <2>1, <2>3, <2>4 DEF SyncInv, At
<1>12. ASSUME NEW t \in Thread, NotifyButtons(t) PROVE SyncInv'
  <2>1. pc[t] = "buttons" /\ pc'[t] = "sensors" /\ owner = t /\ owner' = t /\ owner # NoThread
    BY <1>12, HolderIsOwner DEF NotifyButtons, Locked, TypeOK
  <2>2. \A o \in inSync : view[o] \in DeviceState /\ o \in observers /\ o \in Observer
    BY DEF TypeOK
  <2>3. \A o \in inSync : /\ view'[o].buttons = fresh.buttons
                          /\ view'[o].lights = view[o].lights
                          /\ view'[o].sensors = view[o].sensors
    BY <1>12, <2>1, <2>2 DEF NotifyButtons, Told, SyncInv, At, DeviceState
  <2>4. UNCHANGED <<state, fresh, inSync>>
    BY <1>12 DEF NotifyButtons, stateVars
  <2>5. QED
    BY <2>1, <2>3, <2>4 DEF SyncInv, At
<1>13. ASSUME NEW t \in Thread, NotifySensors(t) PROVE SyncInv'
  <2>1. pc[t] = "sensors" /\ pc'[t] = "store" /\ owner = t /\ owner' = t /\ owner # NoThread
    BY <1>13, HolderIsOwner DEF NotifySensors, Locked, TypeOK
  <2>2. \A o \in inSync : view[o] \in DeviceState /\ o \in observers /\ o \in Observer
    BY DEF TypeOK
  <2>3. \A o \in inSync : /\ view'[o].sensors = fresh.sensors
                          /\ view'[o].lights = view[o].lights
                          /\ view'[o].buttons = view[o].buttons
    BY <1>13, <2>1, <2>2 DEF NotifySensors, Told, SyncInv, At, DeviceState
  <2>4. UNCHANGED <<state, fresh, inSync>>
    BY <1>13 DEF NotifySensors, stateVars
  <2>5. QED
    BY <2>1, <2>3, <2>4 DEF SyncInv, At
<1>14. ASSUME NEW t \in Thread, Store(t) PROVE SyncInv'
  <2>1. pc[t] = "store" /\ owner = t /\ owner # NoThread /\ owner' = NoThread
    BY <1>14, HolderIsOwner DEF Store, Release, Locked
  <2>2. QED
    BY <1>14, <2>1 DEF Store, SyncInv, At, observerVars
<1>15. ASSUME NEW o \in Observer, GetState(o) PROVE SyncInv'
  <2>1. \A p \in inSync : view'[p] = view[p]
    BY <1>15 DEF GetState, TypeOK
  <2>2. QED
    BY <1>15, <2>1 DEF GetState, SyncInv, At, threadVars, stateVars
<1>16. ASSUME NEW o \in Observer, AddObserver(o) \/ RemoveObserver(o) PROVE SyncInv'
  BY <1>16 DEF AddObserver, RemoveObserver, SyncInv, At, threadVars, stateVars
<1>17. CASE Tick \/ UNCHANGED vars
  BY <1>2, <1>17 DEF Tick, threadVars, stateVars, observerVars, vars
<1>18. QED
  BY <1>3, <1>4, <1>5, <1>6, <1>7, <1>8, <1>9, <1>10, <1>11, <1>12, <1>13, <1>14, <1>15, <1>16,
     <1>17 DEF Next, DoExecuteCommand, NotifyDoubleClick, NotifyNothing

\* What update_light_times still has to do is part of what the new state changes.
LEMMA FlipStep == TypeOK /\ LockInv /\ FlipInv /\ [Next]_vars => FlipInv'
<1> SUFFICES ASSUME TypeOK, LockInv, FlipInv, [Next]_vars PROVE FlipInv'
  OBVIOUS
<1> USE DEF GoTo
<1>1. ASSUME UNCHANGED <<state, fresh, lightTimes, flipped>>,
             ~At({"flips", "tellLights", "buttons", "sensors", "store"}), ~At({"flips"})'
      PROVE  FlipInv'
  BY <1>1 DEF FlipInv, At
<1>2. ASSUME UNCHANGED <<state, fresh, lightTimes, flipped, flipping, owner>>,
             owner # NoThread => pc'[owner] = pc[owner]
      PROVE  FlipInv'
  BY <1>2 DEF FlipInv, At
<1>3. ASSUME NEW t \in Thread, ExecuteCommand(t) PROVE FlipInv'
  BY <1>2, <1>3 DEF ExecuteCommand, TypeOK, LockInv, Locked, stateVars
<1>4. CASE Poll \/ Stop \/ LeavePollLoop
  BY <1>2, <1>4 DEF Poll, Stop, LeavePollLoop, TypeOK, LockInv, Locked, Thread, stateVars
<1>5. ASSUME NEW t \in Thread, Lock(t) PROVE FlipInv'
  BY <1>1, <1>5 DEF Lock, At, TypeOK, stateVars
<1>6. ASSUME NEW t \in Thread, SendHalf(t) \/ SendUnchanged(t) PROVE FlipInv'
  <2>1. pc[t] \in {"half", "send"} /\ owner = t
    BY <1>6, HolderIsOwner DEF SendHalf, SendUnchanged, Locked
  <2>2. ~At({"flips"})'
    BY <1>6, <2>1 DEF SendHalf, SendUnchanged, Release, At, TypeOK
  <2>3. QED
    BY <1>1, <1>6, <2>1, <2>2 DEF SendHalf, SendUnchanged, At, stateVars
<1>7. ASSUME NEW t \in Thread, SendChanged(t) PROVE FlipInv'
  <2>1. pc[t] = "send" /\ pc'[t] = "lights" /\ owner = t /\ owner' = t
    BY <1>7, HolderIsOwner DEF SendChanged, Locked, TypeOK
  <2>2. QED
    BY <1>7, <2>1 DEF SendChanged, FlipInv, At
<1>8. ASSUME NEW t \in Thread, CompareLights(t) PROVE FlipInv'
  <2>1. pc[t] = "lights" /\ owner = t
    BY <1>8, HolderIsOwner DEF CompareLights, Locked
  <2>2. \A l \in Light : lightTimes[l] = flipped[l]
    BY <2>1 DEF FlipInv, At
  <2>3. QED
    BY <1>8, <2>2 DEF CompareLights, FlipInv, At
<1>9. ASSUME NEW t \in Thread, NEW l \in Light, UpdateLightTime(t, l) PROVE FlipInv'
  <2>1. pc[t] = "flips" /\ owner = t /\ owner # NoThread /\ l \in flipping
    BY <1>9, HolderIsOwner DEF UpdateLightTime, Locked
  <2>2. \A k \in Light \ {l} : lightTimes'[k] = lightTimes[k]
    BY <1>9 DEF UpdateLightTime, TypeOK
  <2>3. flipping' = flipping \ {l}
    BY <1>9 DEF UpdateLightTime
  <2>4. QED
    BY <1>9, <2>1, <2>2, <2>3 DEF UpdateLightTime, FlipInv, At, threadVars
<1>10. ASSUME NEW t \in Thread,
              LightTimesUpdated(t) \/ NotifyLights(t) \/ NotifyButtons(t) \/ NotifySensors(t)
       PROVE  FlipInv'
  <2>1. pc[t] \in {"flips", "tellLights", "buttons", "sensors"} /\ owner = t /\ owner # NoThread
    BY <1>10, HolderIsOwner
       DEF LightTimesUpdated, NotifyLights, NotifyButtons, NotifySensors, Locked
  <2>2. pc'[t] \in {"tellLights", "buttons", "sensors", "store"} /\ owner' = owner
    BY <1>10 DEF LightTimesUpdated, NotifyLights, NotifyButtons, NotifySensors, TypeOK
  <2>3. UNCHANGED <<state, fresh, lightTimes, flipped>>
    BY <1>10 DEF LightTimesUpdated, NotifyLights, NotifyButtons, NotifySensors, stateVars
  <2>4. QED
    BY <2>1, <2>2, <2>3 DEF FlipInv, At
<1>11. ASSUME NEW t \in Thread, Store(t) PROVE FlipInv'
  <2>1. pc[t] = "store" /\ owner = t /\ owner' = NoThread
    BY <1>11, HolderIsOwner DEF Store, Release, Locked
  <2>2. \A l \in Light : flipped'[l] = lightTimes[l]
    BY <1>11 DEF Store, FlipInv
  <2>3. QED
    BY <1>11, <2>1, <2>2 DEF Store, FlipInv, At
<1>12. ASSUME NEW o \in Observer, GetState(o) \/ AddObserver(o) \/ RemoveObserver(o) PROVE FlipInv'
  BY <1>2, <1>12 DEF GetState, AddObserver, RemoveObserver, threadVars, stateVars
<1>13. CASE Tick \/ UNCHANGED vars
  BY <1>2, <1>13 DEF Tick, threadVars, stateVars, vars
<1>14. QED
  BY <1>3, <1>4, <1>5, <1>6, <1>7, <1>8, <1>9, <1>10, <1>11, <1>12, <1>13
     DEF Next, DoExecuteCommand, NotifyDoubleClick, NotifyNothing

LEMMA InitIInv == Init => IInv
<1> SUFFICES ASSUME Init PROVE IInv
  OBVIOUS
<1>1. NoDeviceState \in DeviceState
  BY BoundAssumption DEF NoDeviceState, DeviceState
<1>2. TypeOK
  <2>1. fresh \in DeviceState /\ state \in DeviceState /\ view \in [Observer -> DeviceState]
    BY <1>1 DEF Init
  <2>2. /\ pc \in [Thread -> Locked \cup {"idle", "lock", "done"}]
        /\ calls \in [Thread -> 0 .. 2]
        /\ full \in [Thread -> BOOLEAN]
    BY DEF Init
  <2>3. lightTimes \in [Light -> Nat] /\ flipped \in [Light -> Nat] /\ now \in Nat
    BY DEF Init, Boot, DoubleClickSeconds
  <2>4. QED
    BY <2>1, <2>2, <2>3 DEF Init, TypeOK
<1>3. LockInv /\ PairInv /\ SyncInv /\ FlipInv
  BY DEF Init, LockInv, PairInv, SyncInv, FlipInv, At, Locked
<1>4. QED
  BY <1>2, <1>3 DEF IInv

LEMMA NextIInv == IInv /\ [Next]_vars => IInv'
  BY TypeStep, LockStep, PairStep, SyncStep, FlipStep DEF IInv

(***************************************************************************)
(* The invariant of do_execute_command: lock, pair, observers and light    *)
(* times.                                                                  *)
(***************************************************************************)
THEOREM InductiveInvariant == Spec => []IInv
<1>1. QED
  BY InitIInv, NextIInv, PTL DEF Spec

\* The variables keep their types; only a thread inside the lock counts its calls down.
THEOREM TypeCorrect == Spec => []TypeOK
<1>1. IInv => TypeOK
  BY DEF IInv
<1>2. QED
  BY <1>1, InductiveInvariant, PTL

(***************************************************************************)
(* Between 0x0F and 0xF0 no other thread is inside do_execute_command.     *)
(***************************************************************************)
THEOREM PairNotInterrupted == Spec => []PairIsAtomic
<1>1. IInv => PairIsAtomic
  BY DEF IInv, LockInv, PairInv, PairIsAtomic
<1>2. QED
  BY <1>1, InductiveInvariant, PTL

(***************************************************************************)
(* An observer that knew the state when it registered knows it whenever    *)
(* the lock is free.                                                       *)
(***************************************************************************)
THEOREM ObserversStayInSync == Spec => []ObserversInSync
<1>1. ASSUME IInv PROVE ObserversInSync
  <2> SUFFICES ASSUME owner = NoThread, NEW o \in inSync PROVE view[o] = state
    BY DEF ObserversInSync
  <2>1. view[o] \in DeviceState /\ state \in DeviceState
    BY <1>1 DEF IInv, TypeOK
  <2>2. /\ view[o].lights = state.lights
        /\ view[o].buttons = state.buttons
        /\ view[o].sensors = state.sensors
    BY <1>1 DEF IInv, SyncInv, At
  <2>3. QED
    BY <2>1, <2>2 DEF DeviceState
<1>2. QED
  BY <1>1, InductiveInvariant, PTL

(***************************************************************************)
(* on_double_click means two flips of the stored light within two seconds. *)
(***************************************************************************)
THEOREM DoubleClickNeedsTwoFlips == Spec => DoubleClickIsTwoFlips
<1> DEFINE TwoFlips ==
      \A t \in Thread, l \in Light :
        NotifyDoubleClick(t, l) =>
          /\ now - flipped[l] < DoubleClickSeconds
          /\ l \in SymDiff(state.lights, fresh.lights)
<1>1. ASSUME IInv PROVE TwoFlips
  <2> SUFFICES ASSUME NEW t \in Thread, NEW l \in Light, NotifyDoubleClick(t, l)
               PROVE  /\ now - flipped[l] < DoubleClickSeconds
                      /\ l \in SymDiff(state.lights, fresh.lights)
    OBVIOUS
  <2>1. pc[t] = "flips" /\ l \in flipping /\ now - lightTimes[l] < DoubleClickSeconds
    BY DEF NotifyDoubleClick, UpdateLightTime, IsDoubleClick
  <2>2. At({"flips"})
    BY <1>1, <2>1, HolderIsOwner DEF IInv, At, Locked
  <2>3. QED
    BY <1>1, <2>1, <2>2 DEF IInv, FlipInv
<1>2. IInv /\ [Next]_vars => [TwoFlips]_vars
  BY <1>1
<1>3. QED
  BY <1>2, InductiveInvariant, PTL DEF Spec, DoubleClickIsTwoFlips

-----------------------------------------------------------------------------
(* The controller implements DeviceFeed. *)

\* The places of do_execute_command where a state was read and is not yet stored.
Telling == {"lights", "flips", "tellLights", "buttons", "sensors", "store"}

\* What the feed does not see: steps that keep the state, what is pending and what those in sync
\* know.
LEMMA FeedStutter ==
  ASSUME state' = state, inSync' = inSync, \A o \in inSync : view'[o] = view[o],
         At(Telling)' <=> At(Telling), At(Telling) => fresh' = fresh
  PROVE  UNCHANGED Feed!vars
<1>1. (IF At(Telling) THEN fresh ELSE state)' = IF At(Telling) THEN fresh ELSE state
  OBVIOUS
<1>2. [o \in inSync |-> view[o]]' = [o \in inSync |-> view[o]]
  OBVIOUS
<1>3. QED
  BY <1>1, <1>2 DEF Feed!vars, Telling

\* One loop over m_observers_list is one Tell of the feed, or tells what everybody knew.
LEMMA FeedTell ==
  ASSUME TypeOK, SyncInv, NEW word \in {"lights", "buttons", "sensors"},
         At(Telling), At(Telling)', UNCHANGED <<state, fresh, inSync>>,
         \A o \in inSync : view[o][word] = state[word],
         Told(word)
  PROVE  Feed!Tell(word) \/ UNCHANGED Feed!vars
<1>1. \A o \in inSync : view'[o] = [view[o] EXCEPT ![word] = fresh[word]]
  BY DEF Told, TypeOK
<1>2. CASE fresh[word] = state[word]
  <2>1. \A o \in inSync : view[o] \in DeviceState
    BY DEF TypeOK
  <2>2. \A o \in inSync : view'[o] = view[o]
    BY <1>1, <1>2, <2>1 DEF DeviceState
  <2>3. QED
    BY <2>2, FeedStutter
<1>3. CASE fresh[word] # state[word]
  <2>1. [o \in inSync |-> view[o]]'
          = [o \in inSync |-> [[p \in inSync |-> view[p]][o] EXCEPT ![word] = fresh[word]]]
    BY <1>1
  <2>2. QED
    BY <1>3, <2>1 DEF Feed!Tell, Feed!Follower, Telling
<1>4. QED
  BY <1>2, <1>3

\* Every step of the controller is a step of the feed, or the feed does not see it.
LEMMA FeedStep == IInv /\ [Next]_vars => [Feed!Next]_(Feed!vars)
<1> SUFFICES ASSUME IInv, [Next]_vars PROVE Feed!Next \/ UNCHANGED Feed!vars
  OBVIOUS
<1> USE DEF IInv, GoTo
<1>1. ASSUME UNCHANGED <<state, fresh, view, inSync, owner>>, owner # NoThread => pc'[owner] = pc[owner]
      PROVE  UNCHANGED Feed!vars
  BY <1>1, FeedStutter DEF At
<1>2. ASSUME NEW t \in Thread, ExecuteCommand(t) PROVE UNCHANGED Feed!vars
  BY <1>1, <1>2 DEF ExecuteCommand, TypeOK, LockInv, Locked, stateVars, observerVars
<1>3. CASE Poll \/ Stop \/ LeavePollLoop
  BY <1>1, <1>3 DEF Poll, Stop, LeavePollLoop, TypeOK, LockInv, Locked, Thread, stateVars,
                    observerVars
<1>4. ASSUME NEW t \in Thread, Lock(t) \/ SendHalf(t) \/ SendUnchanged(t) PROVE UNCHANGED Feed!vars
  <2>1. ~At(Telling) /\ ~At(Telling)'
    <3>1. CASE Lock(t)
      BY <3>1 DEF Lock, At, Telling, TypeOK
    <3>2. CASE SendHalf(t) \/ SendUnchanged(t)
      <4>1. pc[t] \in {"half", "send"} /\ owner = t
        BY <3>2, HolderIsOwner DEF SendHalf, SendUnchanged, Locked
      <4>2. QED
        BY <3>2, <4>1 DEF SendHalf, SendUnchanged, Release, At, Telling, TypeOK
    <3>3. QED
      BY <1>4, <3>1, <3>2
  <2>2. UNCHANGED <<state, inSync, view>>
    BY <1>4 DEF Lock, SendHalf, SendUnchanged, stateVars, observerVars
  <2>3. QED
    BY <2>1, <2>2, FeedStutter
<1>5. ASSUME NEW t \in Thread, SendChanged(t) PROVE Feed!Next
  <2>1. pc[t] = "send" /\ pc'[t] = "lights" /\ owner = t /\ owner' = t /\ owner # NoThread
    BY <1>5, HolderIsOwner DEF SendChanged, Locked, TypeOK
  <2>2. ~At(Telling) /\ At(Telling)'
    BY <2>1 DEF At, Telling
  <2>3. fresh' \in DeviceState /\ fresh' # state /\ UNCHANGED <<state, view, inSync>>
    BY <1>5 DEF SendChanged, observerVars
  <2>4. Feed!Read(fresh')
    BY <2>2, <2>3 DEF Feed!Read, Telling
  <2>5. QED
    BY <2>3, <2>4 DEF Feed!Next
<1>6. ASSUME NEW t \in Thread, CompareLights(t) \/ LightTimesUpdated(t) PROVE UNCHANGED Feed!vars
  <2>1. pc[t] \in {"lights", "flips"} /\ owner = t /\ owner' = t /\ owner # NoThread
    BY <1>6, HolderIsOwner DEF CompareLights, LightTimesUpdated, Locked
  <2>2. At(Telling) /\ At(Telling)'
    BY <1>6, <2>1 DEF CompareLights, LightTimesUpdated, At, Telling, TypeOK
  <2>3. UNCHANGED <<state, fresh, inSync, view>>
    BY <1>6 DEF CompareLights, LightTimesUpdated, stateVars, observerVars
  <2>4. QED
    BY <2>2, <2>3, FeedStutter
<1>7. ASSUME NEW t \in Thread, NEW l \in Light, UpdateLightTime(t, l) PROVE UNCHANGED Feed!vars
  BY <1>1, <1>7 DEF UpdateLightTime, threadVars, observerVars
<1>8. ASSUME NEW t \in Thread, NotifyLights(t) PROVE Feed!Tell("lights") \/ UNCHANGED Feed!vars
  <2>1. pc[t] = "tellLights" /\ pc'[t] = "buttons" /\ owner = t /\ owner' = t /\ owner # NoThread
    BY <1>8, HolderIsOwner DEF NotifyLights, Locked, TypeOK
  <2>2. At(Telling) /\ At(Telling)' /\ \A o \in inSync : view[o]["lights"] = state["lights"]
    BY <2>1 DEF At, Telling, SyncInv
  <2>3. Told("lights") /\ UNCHANGED <<state, fresh, inSync>>
    BY <1>8 DEF NotifyLights, stateVars
  <2>4. QED
    BY <2>2, <2>3, FeedTell
<1>9. ASSUME NEW t \in Thread, NotifyButtons(t) PROVE Feed!Tell("buttons") \/ UNCHANGED Feed!vars
  <2>1. pc[t] = "buttons" /\ pc'[t] = "sensors" /\ owner = t /\ owner' = t /\ owner # NoThread
    BY <1>9, HolderIsOwner DEF NotifyButtons, Locked, TypeOK
  <2>2. At(Telling) /\ At(Telling)' /\ \A o \in inSync : view[o]["buttons"] = state["buttons"]
    BY <2>1 DEF At, Telling, SyncInv
  <2>3. UNCHANGED <<state, fresh, inSync>> /\ (Told("buttons") \/ UNCHANGED view)
    BY <1>9 DEF NotifyButtons, stateVars
  <2>4. QED
    BY <2>2, <2>3, FeedTell, FeedStutter
<1>10. ASSUME NEW t \in Thread, NotifySensors(t) PROVE Feed!Tell("sensors") \/ UNCHANGED Feed!vars
  <2>1. pc[t] = "sensors" /\ pc'[t] = "store" /\ owner = t /\ owner' = t /\ owner # NoThread
    BY <1>10, HolderIsOwner DEF NotifySensors, Locked, TypeOK
  <2>2. At(Telling) /\ At(Telling)' /\ \A o \in inSync : view[o]["sensors"] = state["sensors"]
    BY <2>1 DEF At, Telling, SyncInv
  <2>3. UNCHANGED <<state, fresh, inSync>> /\ (Told("sensors") \/ UNCHANGED view)
    BY <1>10 DEF NotifySensors, stateVars
  <2>4. QED
    BY <2>2, <2>3, FeedTell, FeedStutter
<1>11. ASSUME NEW t \in Thread, Store(t) PROVE Feed!Commit \/ UNCHANGED Feed!vars
  <2>1. pc[t] = "store" /\ owner = t /\ owner # NoThread /\ owner' = NoThread
    BY <1>11, HolderIsOwner DEF Store, Release, Locked
  <2>2. At(Telling) /\ ~At(Telling)'
    BY <2>1 DEF At, Telling
  <2>3. state' = fresh /\ UNCHANGED <<view, inSync>>
    BY <1>11 DEF Store, observerVars
  <2>4. \A o \in inSync : view[o] = fresh
    <3> SUFFICES ASSUME NEW o \in inSync PROVE view[o] = fresh
      OBVIOUS
    <3>1. view[o] \in DeviceState /\ fresh \in DeviceState
      BY DEF TypeOK
    <3>2. /\ view[o].lights = fresh.lights
          /\ view[o].buttons = fresh.buttons
          /\ view[o].sensors = fresh.sensors
      BY <2>1 DEF SyncInv, At
    <3>3. QED
      BY <3>1, <3>2 DEF DeviceState
  <2>5. CASE fresh = state
    BY <2>2, <2>3, <2>5 DEF Feed!vars, Telling
  <2>6. CASE fresh # state
    BY <2>2, <2>3, <2>4, <2>6 DEF Feed!Commit, Feed!Follower, Telling
  <2>7. QED
    BY <2>5, <2>6
<1>12. ASSUME NEW o \in Observer, GetState(o) PROVE UNCHANGED Feed!vars
  <2>1. \A p \in inSync : view'[p] = view[p]
    BY <1>12 DEF GetState, TypeOK
  <2>2. QED
    BY <1>12, <2>1, FeedStutter DEF GetState, At, threadVars, stateVars
<1>13. ASSUME NEW o \in Observer, AddObserver(o) PROVE Feed!Follow(o) \/ UNCHANGED Feed!vars
  <2>1. o \notin inSync /\ UNCHANGED <<state, fresh, view, owner, pc>>
    BY <1>13 DEF AddObserver, TypeOK, threadVars, stateVars
  <2>2. CASE owner = NoThread /\ view[o] = state
    <3>1. inSync' = inSync \cup {o}
      BY <1>13, <2>2 DEF AddObserver
    <3>2. ~At(Telling) /\ ~At(Telling)'
      BY <2>1, <2>2 DEF At
    <3>3. [p \in inSync |-> view[p]]'
            = [p \in inSync \cup {o} |-> IF p = o THEN state ELSE [q \in inSync |-> view[q]][p]]
      BY <2>1, <2>2, <3>1
    <3>4. QED
      BY <2>1, <3>2, <3>3 DEF Feed!Follow, Feed!Follower, Telling
  <2>3. CASE ~(owner = NoThread /\ view[o] = state)
    <3>1. inSync' = inSync
      BY <1>13, <2>3 DEF AddObserver
    <3>2. QED
      BY <1>1, <2>1, <3>1
  <2>4. QED
    BY <2>2, <2>3
<1>14. ASSUME NEW o \in Observer, RemoveObserver(o) PROVE Feed!Leave(o) \/ UNCHANGED Feed!vars
  <2>1. inSync' = inSync \ {o} /\ UNCHANGED <<state, fresh, view, owner, pc>>
    BY <1>14 DEF RemoveObserver, threadVars, stateVars
  <2>2. CASE o \in inSync
    <3>1. [p \in inSync |-> view[p]]' = [p \in inSync \ {o} |-> [q \in inSync |-> view[q]][p]]
      BY <2>1
    <3>2. At(Telling)' <=> At(Telling)
      BY <2>1 DEF At
    <3>3. QED
      BY <2>1, <2>2, <3>1, <3>2 DEF Feed!Leave, Feed!Follower, Telling
  <2>3. CASE o \notin inSync
    BY <1>1, <2>1, <2>3
  <2>4. QED
    BY <2>2, <2>3
<1>15. CASE Tick \/ UNCHANGED vars
  BY <1>1, <1>15 DEF Tick, threadVars, stateVars, observerVars, vars
<1>16. QED
  BY <1>2, <1>3, <1>4, <1>5, <1>6, <1>7, <1>8, <1>9, <1>10, <1>11, <1>12, <1>13, <1>14, <1>15
     DEF Next, DoExecuteCommand, NotifyDoubleClick, NotifyNothing, Feed!Next

(***************************************************************************)
(* do_execute_command keeps the promise of driver_intf_t and               *)
(* device_observer_t: every observer in sync is told every word that       *)
(* changes, and only those, before the new state counts.                   *)
(***************************************************************************)
THEOREM ControllerImplementsFeed == Spec => ImplementsFeed
<1>1. Init => Feed!Init
  <2> SUFFICES ASSUME Init PROVE Feed!Init
    OBVIOUS
  <2>1. state \in DeviceState
    BY InitIInv DEF IInv, TypeOK
  <2>2. owner = NoThread /\ inSync = {}
    BY DEF Init
  <2>3. QED
    BY <2>1, <2>2 DEF Feed!Init, At
<1>2. QED
  BY <1>1, FeedStep, InductiveInvariant, PTL DEF Spec, ImplementsFeed, Feed!Spec
=============================================================================
