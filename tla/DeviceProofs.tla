----------------------------- MODULE DeviceProofs -----------------------------
(***************************************************************************)
(* Proofs about Device, for any sets of observers, words and pins: IInv is *)
(* inductive, so the device thread loses no change but a late one.         *)
(***************************************************************************)
EXTENDS Device, TLAPS

\* The order of the checks, as a fact about any item.
LEMMA ItemOrder ==
  /\ Item = {"lights", "buttons", "sensors", "click"}
  /\ Word = {"lights", "buttons", "sensors"}
  /\ Rank["lights"] = 1 /\ Rank["buttons"] = 2 /\ Rank["sensors"] = 3 /\ Rank["click"] = 4
  /\ \A i \in Item : Following[i] \in Item
  /\ Following["lights"] = "buttons" /\ Following["buttons"] = "sensors"
  /\ Following["sensors"] = "click" /\ Following["click"] = "lights"
  BY DEF Item, Word, Rank, Following

LEMMA ValuesInRange ==
  ASSUME NEW i \in Item
  PROVE  Values[i] \subseteq State \cup Pin \cup {PinNotSet}
  BY DEF Values, State, Item

\* Type correctness alone: every action keeps every variable in its set.
LEMMA TypeStep == TypeOK /\ PlaceInv /\ [Next]_vars => TypeOK'
<1> SUFFICES ASSUME TypeOK, PlaceInv, [Next]_vars PROVE TypeOK'
  OBVIOUS
<1> USE ItemOrder DEF TypeOK, Place
<1>1. ASSUME NEW i \in Item, NEW v \in Values[i], OnChanged(i, v) PROVE TypeOK'
  BY <1>1, ValuesInRange DEF OnChanged, threadVars, NoCallback
<1>2. CASE Announce
  BY <1>2 DEF Announce, threadVars
<1>3. CASE Start
  BY <1>3 DEF Start
<1>4. CASE Stop
  BY <1>4 DEF Stop, threadVars
<1>5. CASE DoStop
  BY <1>5 DEF DoStop, threadVars
<1>6. CASE AddObserver
  BY <1>6 DEF AddObserver
<1>7. CASE WaitStateUpdate
  BY <1>7 DEF WaitStateUpdate
<1>8. CASE LeaveLoop
  BY <1>8 DEF LeaveLoop
<1>9. CASE CheckForChanges
  BY <1>9 DEF CheckForChanges
<1>10. CASE CheckSame
  BY <1>10 DEF CheckSame, NextCheck
<1>11. CASE CheckDiffers
  BY <1>11 DEF CheckDiffers
<1>12. ASSUME NEW o \in Observer, Tell(o) PROVE TypeOK'
  BY <1>12 DEF Tell
<1>13. CASE AllTold
  BY <1>13 DEF AllTold, NextCheck
<1>14. CASE SaveWord
  BY <1>14 DEF SaveWord, PlaceInv
<1>15. CASE ClearDoubleClick
  <2>1. current'["click"] = PinNotSet /\ \A i \in Item \ {"click"} : current'[i] = current[i]
    BY <1>15 DEF ClearDoubleClick
  <2>2. current'["click"] \in Values["click"]
    BY <2>1 DEF Values
  <2>3. QED
    BY <1>15, <2>1, <2>2 DEF ClearDoubleClick
<1>16. CASE ResetEvent
  BY <1>16 DEF ResetEvent
<1>17. CASE RemoveObserver
  BY <1>17 DEF RemoveObserver
<1>18. CASE UNCHANGED vars
  BY <1>18 DEF vars
<1>19. QED
  BY <1>1, <1>2, <1>3, <1>4, <1>5, <1>6, <1>7, <1>8, <1>9, <1>10, <1>11, <1>12, <1>13, <1>14,
     <1>15, <1>16, <1>17, <1>18 DEF Next, DeviceThread, Values

LEMMA PlaceStep == TypeOK /\ PlaceInv /\ [Next]_vars => PlaceInv'
<1> SUFFICES ASSUME TypeOK, PlaceInv, [Next]_vars PROVE PlaceInv'
  OBVIOUS
<1> USE ItemOrder DEF PlaceInv, Differs
<1>1. ASSUME NEW i \in Item, NEW v \in Values[i], OnChanged(i, v) PROVE PlaceInv'
  BY <1>1 DEF OnChanged, threadVars
<1>2. CASE Announce
  BY <1>2 DEF Announce, threadVars
<1>3. CASE Start \/ Stop \/ DoStop \/ AddObserver \/ WaitStateUpdate \/ LeaveLoop
        \/ CheckForChanges \/ CheckDiffers \/ ResetEvent \/ RemoveObserver
  BY <1>3 DEF Start, Stop, DoStop, AddObserver, WaitStateUpdate, LeaveLoop, CheckForChanges,
              CheckDiffers, ResetEvent, RemoveObserver, threadVars
<1>4. CASE CheckSame
  BY <1>4 DEF CheckSame, NextCheck, TypeOK
<1>5. ASSUME NEW o \in Observer, Tell(o) PROVE PlaceInv'
  BY <1>5 DEF Tell
<1>6. CASE AllTold
  BY <1>6 DEF AllTold, NextCheck, TypeOK
<1>7. CASE SaveWord
  BY <1>7 DEF SaveWord
<1>8. CASE ClearDoubleClick
  BY <1>8 DEF ClearDoubleClick
<1>9. CASE UNCHANGED vars
  BY <1>9 DEF vars
<1>10. QED
  BY <1>1, <1>2, <1>3, <1>4, <1>5, <1>6, <1>7, <1>8, <1>9 DEF Next, DeviceThread, Values

(***************************************************************************)
(* The heart of the argument: what an item that was not written late keeps *)
(* through every step.  Only five kinds of step touch it: a callback that  *)
(* writes it, the comparison, a call to an observer, the copy, the reset.  *)
(***************************************************************************)
LEMMA PhaseStep ==
  ASSUME TypeOK, PlaceInv, [Next]_vars, NEW i \in Item, PhaseInv(i)
  PROVE  PhaseInv(i)'
<1> USE ItemOrder DEF TypeOK, PhaseInv, Passed, Telling, Copied, Known
<1>1. ASSUME NEW j \in Item, NEW v \in Values[j], OnChanged(j, v) PROVE PhaseInv(i)'
  <2>1. CASE i = j
    <3>1. UNCHANGED <<pc, item, todo, previous, told>>
      BY <1>1 DEF OnChanged, threadVars
    <3>2. late'[i] <=> late[i] \/ Passed(i)
      BY <1>1, <2>1, Zenon DEF OnChanged
    <3>3. ~late'[i] => ~late[i] /\ ~Passed(i)
      BY <3>2
    <3>4. Passed(i)' = Passed(i) /\ Telling(i)' = Telling(i) /\ Copied(i)' = Copied(i)
      BY <3>1
    <3>5. QED
      BY <3>1, <3>3, <3>4
  <2>2. CASE i # j
    BY <1>1, <2>2 DEF OnChanged, threadVars
  <2>3. QED
    BY <2>1, <2>2
<1>2. CASE Announce \/ Stop \/ DoStop
  BY <1>2 DEF Announce, Stop, DoStop, threadVars
<1>3. CASE Start \/ AddObserver \/ WaitStateUpdate \/ LeaveLoop \/ RemoveObserver
  BY <1>3 DEF Start, AddObserver, WaitStateUpdate, LeaveLoop, RemoveObserver
<1>4. CASE CheckForChanges
  BY <1>4 DEF CheckForChanges
<1>5. CASE CheckSame
  <2>1. CASE item = "click"
    BY <1>5, <2>1 DEF CheckSame, NextCheck, Differs
  <2>2. CASE item # "click" /\ item = i
    BY <1>5, <2>2 DEF CheckSame, NextCheck, Differs
  <2>3. CASE item # "click" /\ item # i
    BY <1>5, <2>3 DEF CheckSame, NextCheck, Differs
  <2>4. QED
    BY <2>1, <2>2, <2>3
<1>6. CASE CheckDiffers
  BY <1>6 DEF CheckDiffers
<1>7. ASSUME NEW o \in Observer, Tell(o) PROVE PhaseInv(i)'
  BY <1>7 DEF Tell
<1>8. CASE AllTold
  <2>1. CASE item = "click"
    BY <1>8, <2>1 DEF AllTold, NextCheck
  <2>2. CASE item # "click"
    BY <1>8, <2>2 DEF AllTold, NextCheck
  <2>3. QED
    BY <2>1, <2>2
<1>9. CASE SaveWord
  BY <1>9 DEF SaveWord, PlaceInv
<1>10. CASE ClearDoubleClick
  BY <1>10 DEF ClearDoubleClick
<1>11. CASE ResetEvent
  BY <1>11 DEF ResetEvent
<1>12. CASE UNCHANGED vars
  BY <1>12 DEF vars
<1>13. QED
  BY <1>1, <1>2, <1>3, <1>4, <1>5, <1>6, <1>7, <1>8, <1>9, <1>10, <1>11, <1>12
  DEF Next, DeviceThread, Values

\* A sleeping thread is woken for every difference that is not late.
LEMMA WakeUpStep == IInv /\ [Next]_vars => WakeUpInv'
<1> SUFFICES ASSUME IInv, [Next]_vars PROVE WakeUpInv'
  OBVIOUS
<1> USE ItemOrder DEF IInv, TypeOK, WakeUpInv, Differs
<1>1. ASSUME NEW i \in Item, NEW v \in Values[i], OnChanged(i, v) PROVE WakeUpInv'
  <2> SUFFICES ASSUME pc = "wait", NEW j \in Word, ~late'[j], (Differs(j))'
               PROVE  updated \/ callback' = j
    BY <1>1 DEF OnChanged, threadVars
  <2>1. CASE i = j
    BY <1>1, <2>1 DEF OnChanged
  <2>2. CASE i # j
    <3>1. late'[j] = late[j] /\ current'[j] = current[j] /\ previous' = previous
      BY <1>1, <2>2 DEF OnChanged, threadVars
    <3>2. callback = NoCallback
      BY <1>1 DEF OnChanged
    <3>3. callback # j
      BY <3>2 DEF NoCallback
    <3>4. QED
      BY <3>1, <3>3
  <2>3. QED
    BY <2>1, <2>2
<1>2. CASE Announce
  BY <1>2 DEF Announce, threadVars
<1>3. CASE Stop \/ DoStop
  BY <1>3 DEF Stop, DoStop, threadVars
<1>4. CASE AddObserver
  BY <1>4 DEF AddObserver, PlaceInv
<1>5. CASE Start \/ WaitStateUpdate \/ LeaveLoop \/ RemoveObserver \/ CheckForChanges
        \/ CheckDiffers
  BY <1>5 DEF Start, WaitStateUpdate, LeaveLoop, RemoveObserver, CheckForChanges, CheckDiffers
<1>6. CASE CheckSame \/ AllTold
  BY <1>6 DEF CheckSame, AllTold, NextCheck
<1>7. ASSUME NEW o \in Observer, Tell(o) PROVE WakeUpInv'
  BY <1>7 DEF Tell
<1>8. CASE SaveWord \/ ClearDoubleClick
  BY <1>8 DEF SaveWord, ClearDoubleClick
<1>9. CASE ResetEvent
  BY <1>9 DEF ResetEvent, PhaseInv, Copied
<1>10. CASE UNCHANGED vars
  BY <1>10 DEF vars
<1>11. QED
  BY <1>1, <1>2, <1>3, <1>4, <1>5, <1>6, <1>7, <1>8, <1>9, <1>10 DEF Next, DeviceThread, Values

LEMMA InitIInv == Init => IInv
<1> SUFFICES ASSUME Init PROVE IInv
  OBVIOUS
<1> USE ItemOrder DEF Init
<1>1. TypeOK
  <2>1. current \in [Item -> State \cup Pin \cup {PinNotSet}]
    OBVIOUS
  <2>2. \A i \in Item : current[i] \in Values[i]
    BY DEF Values
  <2>3. told \in [Observer -> [Item -> State \cup Pin \cup {PinNotSet}]]
    BY <2>1
  <2>4. QED
    BY <2>1, <2>2, <2>3 DEF TypeOK, Place
<1>2. PlaceInv /\ WakeUpInv
  BY DEF PlaceInv, WakeUpInv, Differs
<1>3. ASSUME NEW i \in Item PROVE PhaseInv(i)
  BY DEF PhaseInv, Passed, Telling, Copied, Known
<1>4. QED
  BY <1>1, <1>2, <1>3 DEF IInv

LEMMA NextIInv == IInv /\ [Next]_vars => IInv'
<1> SUFFICES ASSUME IInv, [Next]_vars PROVE IInv'
  OBVIOUS
<1>1. TypeOK' /\ PlaceInv' /\ WakeUpInv'
  BY TypeStep, PlaceStep, WakeUpStep DEF IInv
<1>2. ASSUME NEW i \in Item PROVE PhaseInv(i)'
  BY PhaseStep DEF IInv
<1>3. QED
  BY <1>1, <1>2 DEF IInv

(***************************************************************************)
(* The inductive invariant of the device thread holds in every reachable   *)
(* state, whatever the interleaving of callbacks, rounds and stop( ).      *)
(***************************************************************************)
THEOREM InductiveInvariant == Spec => []IInv
<1>1. QED
  BY InitIInv, NextIInv, PTL DEF Spec

(***************************************************************************)
(* Every variable of the device thread stays in its set.                   *)
(***************************************************************************)
THEOREM TypeCorrect == Spec => []TypeOK
<1>1. IInv => TypeOK
  BY DEF IInv
<1>2. QED
  BY <1>1, InductiveInvariant, PTL

(***************************************************************************)
(* check_for_changes and the reset of the event lose no change but one     *)
(* that was written after the round in progress had looked at its word.    *)
(***************************************************************************)
THEOREM NoChangeIsLostUnlessLate == Spec => []OnlyLateChangesAreLost
<1>1. IInv => OnlyLateChangesAreLost
  <2> SUFFICES ASSUME IInv, Quiet, NEW i \in Word, ~late[i] PROVE Known(i)
    BY DEF OnlyLateChangesAreLost
  <2>1. ~Differs(i)
    BY ItemOrder DEF IInv, WakeUpInv, Quiet, NoCallback
  <2>2. ~Passed(i)
    BY DEF Quiet, Passed
  <2>3. \A o \in Observer : told[o][i] = previous[i]
    BY <2>2, ItemOrder DEF IInv, PhaseInv
  <2>4. QED
    BY <2>1, <2>3 DEF Known, Differs
<1>2. QED
  BY <1>1, InductiveInvariant, PTL

(***************************************************************************)
(* The pin of a double click is not thrown away before every observer has  *)
(* been told of it, unless it came after check_double_click had looked.    *)
(***************************************************************************)
THEOREM DoubleClickIsTold == Spec => []DoubleClickToldBeforeForgotten
<1>1. IInv => DoubleClickToldBeforeForgotten
  BY ItemOrder DEF IInv, PhaseInv, Passed, Telling, DoubleClickToldBeforeForgotten
<1>2. QED
  BY <1>1, InductiveInvariant, PTL
=============================================================================
