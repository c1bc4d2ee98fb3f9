-------------------------- MODULE EventHandlerProofs --------------------------
(***************************************************************************)
(* Proofs of the safety invariants of EventHandler, for any configuration, *)
(* any number of mobile threads and any length of the queue.               *)
(***************************************************************************)
EXTENDS EventHandler, TLAPS, FiniteSetTheorems

\* What the variables are, for any bits of modes.
FormInv ==
  /\ seen \in [Word -> SUBSET Pin]
  /\ prev = [w \in Word |-> prev[w]]
  /\ \A w \in Word : prev[w] \in [DOMAIN Events[w] -> SUBSET Pin]
  /\ modePrev = [e \in DOMAIN ModeEvents |-> modePrev[e]]
  /\ queue \in Seq(Command)
  /\ left \in [Light -> Nat \cup {NotArmed}]
  /\ lit \subseteq Light
  /\ pc \in {"sleep", "store", "lights", "done"}
  /\ pcMobile \in [Mobile -> {"idle", "set", "events", "compare", "reload", "keep", "act"}]
  /\ next \in [Mobile -> Position(ModeEvents)]
  /\ \A m \in Mobile :
       pcMobile[m] \in {"compare", "reload", "keep", "act"} => next[m] \in DOMAIN ModeEvents
  /\ hold = [m \in Mobile |-> hold[m]]
  /\ fired \in [Mobile -> BOOLEAN]
  /\ stopping \in BOOLEAN
  /\ before \subseteq Pin
  /\ skipped = [w \in Word |-> skipped[w]]
  /\ \A w \in Word : skipped[w] \in [DOMAIN Events[w] -> BOOLEAN]
  /\ overtaken \subseteq DOMAIN ModeEvents
  /\ owed \in [DOMAIN ModeEvents -> {"nothing", "due"}]

\* The device thread is in one of the lists of events, or in none.
DeviceInv ==
  /\ device \in [word : Word \cup {NoWord}, next : Nat \ {0}]
  /\ ~Idle => device.next \in Position(Events[device.word])

\* The command that set_mode_bit is working on stays the first one.
StoreInv == pc = "store" => queue # <<>> /\ Head(queue).kind = "mode"

\* An event the thread has passed, or that waits for the next callback, knows the word; one the
\* thread has not come to yet knows the word before.
WordInv ==
  \A w \in Word \ {"click"} : \A i \in DOMAIN Events[w] :
    ~skipped[w][i] =>
      prev[w][i] = IF device.word = w /\ device.next <= i THEN before ELSE seen[w]

\* A mobile thread that has still to store the mode event's m_prev_bitset.
Coming(m, e) ==
  \/ pcMobile[m] \in {"events", "compare", "reload", "keep"} /\ next[m] <= e
  \/ pcMobile[m] = "act" /\ next[m] < e

\* What a thread is about to store is the bitset, but for the bits a mode command changed since
\* it was loaded, unless an update fell in between.
KeepInv ==
  \A m \in Mobile :
    pcMobile[m] = "keep" => next[m] \in overtaken \/ SymDiff(hold[m], modes) \subseteq bypassed

\* A mode event knows its mode, or its mode was changed by a command, or an update fell between
\* a load and its store, or it will be told.
ModeInv ==
  \A e \in DOMAIN ModeEvents :
    \/ Knows(e)
    \/ ModeOf(e) \in bypassed
    \/ e \in overtaken
    \/ \E m \in Mobile : Coming(m, e)

\* The thread has found that the event's mode has flipped.
Found(m, e) ==
  /\ next[m] = e
  /\ pcMobile[m] = "act" \/ (pcMobile[m] \in {"reload", "keep"} /\ fired[m])

\* While actions are due, the mode stays as the event waits for it, and threads in the event hold
\* it so.  Before the first store some thread is still to come, and each that has compared has
\* found the flip; after it, one that has found it is still in the event.
DueInv(e) ==
  /\ (ModeOf(e) \in modes) = ModeEvents[e].enabled
  /\ \A m \in Mobile : next[m] = e /\ pcMobile[m] \in {"compare", "keep"} =>
       (ModeOf(e) \in hold[m] <=> ModeOf(e) \in modes)
  /\ Knows(e) => \E m \in Mobile : Found(m, e)
  /\ ~Knows(e) => /\ \E m \in Mobile : Coming(m, e)
                  /\ \A m \in Mobile :
                       next[m] = e /\ pcMobile[m] \in {"reload", "keep"} => fired[m]

OwedInv == \A e \in DOMAIN ModeEvents : owed[e] = "due" => DueInv(e)

IInv ==
  /\ FormInv
  /\ DeviceInv
  /\ StoreInv
  /\ WordInv
  /\ KeepInv
  /\ ModeInv
  /\ OwedInv

\* Bits are modes' bits as long as no command switches "all".
BitsInv ==
  /\ modes \subseteq ModeBit
  /\ local \subseteq ModeBit
  /\ bypassed \subseteq ModeBit
  /\ modePrev \in [DOMAIN ModeEvents -> SUBSET ModeBit]
  /\ hold \in [Mobile -> SUBSET ModeBit]
  /\ NamesAMode(queue)

-----------------------------------------------------------------------------
\* The lists of the configuration are sequences of commands.
LEMMA Lists ==
  /\ \A w \in Word : /\ Len(Events[w]) \in Nat
                     /\ DOMAIN Events[w] = 1 .. Len(Events[w])
                     /\ \A i \in DOMAIN Events[w] : Events[w][i].actions \in Seq(Command)
  /\ Len(ModeEvents) \in Nat
  /\ DOMAIN ModeEvents = 1 .. Len(ModeEvents)
  /\ \A e \in DOMAIN ModeEvents : ModeEvents[e].actions \in Seq(Command)
<1> DEFINE DeviceEvents == [pin : Nat, high : BOOLEAN, mode : 0 .. ModeCount,
                            actions : Seq(Command)]
           EventsOfModes == [mode : 0 .. ModeCount, enabled : BOOLEAN, actions : Seq(Command)]
<1>1. Events \in [Word -> Seq(DeviceEvents)] /\ ModeEvents \in Seq(EventsOfModes)
  BY EventsAssumption DEF EventsAssumption
<1>2. /\ \A event \in DeviceEvents : event.actions \in Seq(Command)
      /\ \A event \in EventsOfModes : event.actions \in Seq(Command)
  OBVIOUS
<1> HIDE DEF DeviceEvents, EventsOfModes
<1>3. \A w \in Word : Events[w] \in Seq(DeviceEvents)
  BY <1>1
<1> QED
  BY <1>1, <1>2, <1>3

\* What the handler's thread may find at the head of the queue.
LEMMA CommandForms ==
  ASSUME NEW c \in Command
  PROVE  /\ c.kind \in {"device", "mode", "fake"}
         /\ c.kind = "device" => c.delay \in Nat /\ (c.cmd = "on" => c.light \in Light)
         /\ c.kind = "mode" => c.mode \in 0 .. ModeCount
BY DEF Command, FakeCommand

\* What the threads push is a command.
LEMMA CommandsMade ==
  /\ FakeCommand \in Command
  /\ \A light \in Light, delay \in Nat : DeviceCommand("off", light, delay) \in Command
  /\ \A light \in Light : TimerCommand(light) \in Command
BY DEF Command, FakeCommand, DeviceCommand, TimerCommand

\* Commands pushed behind others leave the first one where it is.
LEMMA HeadStays ==
  ASSUME NEW q \in Seq(Command), q # <<>>, NEW more \in Seq(Command)
  PROVE  /\ q \o more # <<>>
         /\ Head(q \o more) = Head(q)
OBVIOUS

\* The events the device thread is told of are those of the list it is in.
LEMMA EventIsListed ==
  ASSUME DeviceInv, ~Idle, device.next <= Len(Events[device.word])
  PROVE  /\ device.word \in Word
         /\ device.next \in DOMAIN Events[device.word]
         /\ Event.actions \in Seq(Command)
BY Lists DEF DeviceInv, Idle, Position, Event

\* Every step keeps the variables what they are.
LEMMA FormStep ==
  ASSUME FormInv, DeviceInv, StoreInv, [Next]_vars
  PROVE  FormInv'
<1> USE DEF eventVars, handlerVars, mobileVars, historyVars
<1>1. ASSUME NEW w \in Word, NEW pins \in SUBSET Pin, Callback(w, pins)
      PROVE  FormInv'
  BY <1>1 DEF FormInv, Callback
<1>2. CASE OnEvent
  <2>1. /\ device.word \in Word
        /\ device.next \in DOMAIN Events[device.word]
        /\ Event.actions \in Seq(Command)
    BY <1>2, EventIsListed DEF OnEvent
  <2>2. queue' \in Seq(Command)
    BY <1>2, <2>1 DEF OnEvent, FormInv
  <2>3. /\ prev' = [w \in Word |-> prev'[w]]
        /\ \A w \in Word : prev'[w] \in [DOMAIN Events[w] -> SUBSET Pin]
    BY <1>2, <2>1 DEF OnEvent, FormInv, Remembered
  <2>4. /\ skipped' = [w \in Word |-> skipped'[w]]
        /\ \A w \in Word : skipped'[w] \in [DOMAIN Events[w] -> BOOLEAN]
    BY <1>2, <2>1 DEF OnEvent, FormInv
  <2> QED
    BY <1>2, <2>2, <2>3, <2>4 DEF OnEvent, FormInv
<1>3. CASE SkipEvent
  <2>1. /\ device.word \in Word
        /\ device.next \in DOMAIN Events[device.word]
    BY <1>3, EventIsListed DEF SkipEvent
  <2>2. /\ skipped' = [w \in Word |-> skipped'[w]]
        /\ \A w \in Word : skipped'[w] \in [DOMAIN Events[w] -> BOOLEAN]
    BY <1>3, <2>1 DEF SkipEvent, FormInv
  <2> QED
    BY <1>3, <2>2 DEF SkipEvent, FormInv
<1>4. CASE CallbackEnds
  BY <1>4 DEF CallbackEnds, FormInv
<1>5. ASSUME NEW m \in Mobile, NEW bitset \in SUBSET ModeBit, UpdateModes(m, bitset)
      PROVE  FormInv'
  BY <1>5, Lists DEF UpdateModes, FormInv, Position
<1>6. ASSUME NEW m \in Mobile, NEW light \in Light, NEW delay \in Delay,
             AddCommandDelay(m, light, delay)
      PROVE  FormInv'
  <2>1. DeviceCommand("off", light, delay) \in Command
    BY CommandsMade, DelayAssumption
  <2> QED
    BY <1>6, <2>1 DEF AddCommandDelay, FormInv
<1>7. ASSUME NEW m \in Mobile, SetModes(m)
      PROVE  FormInv'
  <2>1. next' \in [Mobile -> Position(ModeEvents)]
    BY <1>7, Lists DEF SetModes, FormInv, Position
  <2>2. owed' \in [DOMAIN ModeEvents -> {"nothing", "due"}]
    BY <1>7 DEF SetModes, FormInv, StillOwed
  <2>3. overtaken' \subseteq DOMAIN ModeEvents
    BY <1>7 DEF SetModes, FormInv
  <2>4. \A k \in Mobile : pcMobile'[k] \in {"compare", "reload", "keep", "act"} =>
                            next'[k] \in DOMAIN ModeEvents
    BY <1>7 DEF SetModes, FormInv
  <2> QED
    BY <1>7, <2>1, <2>2, <2>3, <2>4 DEF SetModes, FormInv
<1>8. ASSUME NEW m \in Mobile, LoadBits(m) \/ Compare(m) \/ Reload(m)
      PROVE  FormInv'
  <2>1. \A k \in Mobile : pcMobile'[k] \in {"compare", "reload", "keep", "act"} =>
                            next'[k] \in DOMAIN ModeEvents
    BY <1>8, Lists DEF LoadBits, Compare, Reload, FormInv, Position
  <2>2. fired' \in [Mobile -> BOOLEAN]
    <3>1. CASE Compare(m)
      <4> DEFINE differs == ModeOf(next[m]) \in SymDiff(hold[m], modePrev[next[m]])
      <4>1. fired' = [fired EXCEPT ![m] = differs]
        BY <3>1 DEF Compare
      <4>2. differs \in BOOLEAN
        OBVIOUS
      <4> HIDE DEF differs
      <4> QED
        BY <4>1, <4>2 DEF FormInv
    <3>2. CASE LoadBits(m) \/ Reload(m)
      BY <3>2 DEF LoadBits, Reload, FormInv
    <3> QED
      BY <1>8, <3>1, <3>2
  <2>3. hold' = [k \in Mobile |-> hold'[k]]
    BY <1>8 DEF LoadBits, Compare, Reload, FormInv
  <2>4. pcMobile' \in [Mobile -> {"idle", "set", "events", "compare", "reload", "keep",
                                 "act"}]
    BY <1>8 DEF LoadBits, Compare, Reload, FormInv
  <2>5. UNCHANGED <<modes, eventVars, modePrev, queue, left, lit, handlerVars, next, stopping,
                    historyVars>>
    BY <1>8 DEF LoadBits, Compare, Reload
  <2> QED
    BY <2>1, <2>2, <2>3, <2>4, <2>5 DEF FormInv
<1>16. ASSUME NEW m \in Mobile, EventLeft(m), next[m] \in DOMAIN ModeEvents
       PROVE  /\ next' \in [Mobile -> Position(ModeEvents)]
              /\ \A k \in Mobile : pcMobile'[k] \in {"compare", "reload", "keep", "act"} =>
                                      next'[k] \in DOMAIN ModeEvents
              /\ hold' = [k \in Mobile |-> hold'[k]]
              /\ fired' \in [Mobile -> BOOLEAN]
              /\ pcMobile' \in [Mobile -> {"idle", "set", "events", "compare", "reload", "keep",
                                            "act"}]
  <2>1. next' \in [Mobile -> Position(ModeEvents)]
    BY <1>16, Lists DEF EventLeft, FormInv, Position
  <2>2. pcMobile' \in [Mobile -> {"idle", "set", "events", "compare", "reload", "keep",
                                 "act"}]
    BY <1>16 DEF EventLeft, FormInv
  <2>3. \A k \in Mobile : pcMobile'[k] \in {"compare", "reload", "keep", "act"} =>
                            next'[k] \in DOMAIN ModeEvents
    BY <1>16 DEF EventLeft, FormInv
  <2>4. hold' = [k \in Mobile |-> hold'[k]]
    BY <1>16 DEF EventLeft, FormInv
  <2>5. fired' \in [Mobile -> BOOLEAN]
    BY <1>16 DEF EventLeft, FormInv
  <2> QED
    BY <2>1, <2>2, <2>3, <2>4, <2>5
<1>17. ASSUME NEW m \in Mobile, Keep(m)
       PROVE  FormInv'
  <2>1. next[m] \in DOMAIN ModeEvents
    BY <1>17 DEF Keep, FormInv
  <2>2. modePrev' = [e \in DOMAIN ModeEvents |-> modePrev'[e]]
    BY <1>17 DEF Keep, FormInv
  <2>3. CASE fired[m]
    <3>1. \A k \in Mobile : pcMobile'[k] \in {"compare", "reload", "keep", "act"} =>
                              next'[k] \in DOMAIN ModeEvents
      BY <1>17, <2>1, <2>3 DEF Keep, FormInv
    <3>2. hold' = [k \in Mobile |-> hold'[k]]
      BY <1>17, <2>3 DEF Keep, FormInv
    <3>3. pcMobile' \in [Mobile -> {"idle", "set", "events", "compare", "reload", "keep",
                                 "act"}]
      BY <1>17, <2>3 DEF Keep, FormInv
    <3>4. UNCHANGED <<modes, eventVars, queue, left, lit, handlerVars, next, fired, stopping,
                      historyVars>>
      BY <1>17, <2>3 DEF Keep
    <3> QED
      BY <2>2, <3>1, <3>2, <3>3, <3>4 DEF FormInv
  <2>4. CASE ~fired[m]
    <3>1. EventLeft(m)
      BY <1>17, <2>4 DEF Keep
    <3> QED
      BY <1>16, <1>17, <2>1, <2>2, <3>1 DEF Keep, FormInv
  <2> QED
    BY <2>3, <2>4
<1>18. ASSUME NEW m \in Mobile, Act(m)
       PROVE  FormInv'
  <2>1. /\ next[m] \in DOMAIN ModeEvents
        /\ ModeEvents[next[m]].actions \in Seq(Command)
    BY <1>18, Lists DEF Act, FormInv
  <2>2. queue' \in Seq(Command)
    <3>1. queue \in Seq(Command)
      BY DEF FormInv
    <3> DEFINE more == ModeEvents[next[m]].actions
    <3>2. queue' = queue \o more \/ queue' = queue
      BY <1>18 DEF Act
    <3>3. more \in Seq(Command)
      BY <2>1
    <3> HIDE DEF more
    <3>4. CASE queue' = queue \o more
      BY <3>1, <3>3, <3>4
    <3>5. CASE queue' = queue
      BY <3>1, <3>5
    <3> QED
      BY <3>2, <3>4, <3>5
  <2>3. owed' \in [DOMAIN ModeEvents -> {"nothing", "due"}]
    BY <1>18, <2>1 DEF Act, FormInv
  <2>4. EventLeft(m)
    BY <1>18 DEF Act
  <2> QED
    BY <1>16, <1>18, <2>1, <2>2, <2>3, <2>4 DEF Act, FormInv
<1>19. ASSUME NEW m \in Mobile, NotifyClients(m)
       PROVE  FormInv'
  BY <1>19, Lists DEF NotifyClients, FormInv, Position
<1>9. CASE LeaveLoop \/ NothingQueued \/ LoadModes
  BY <1>9 DEF LeaveLoop, NothingQueued, LoadModes, Pop, FormInv
<1>10. CASE ArmLight \/ SwitchLight
  <2>1. queue # <<>> /\ Head(queue).kind = "device"
    BY <1>10 DEF ArmLight, SwitchLight, Pop
  <2>2. /\ Tail(queue) \in Seq(Command)
        /\ Head(queue) \in Command
    BY <2>1 DEF FormInv
  <2>3. /\ Head(queue).delay \in Nat
        /\ Head(queue).cmd = "on" => Head(queue).light \in Light
    BY <2>1, <2>2, CommandForms
  <2>4. CASE ArmLight
    BY <2>4, <2>2, <2>3 DEF ArmLight, FormInv
  <2>5. CASE SwitchLight
    BY <2>5, <2>2, <2>3 DEF SwitchLight, FormInv
  <2> QED
    BY <1>10, <2>4, <2>5
<1>11. CASE StoreModes
  <2>1. owed' \in [DOMAIN ModeEvents -> {"nothing", "due"}]
    BY <1>11 DEF StoreModes, FormInv, StillOwed
  <2>2. queue' \in Seq(Command)
    BY <1>11 DEF StoreModes, FormInv, StoreInv
  <2>3. pc' = "lights"
    BY <1>11 DEF StoreModes
  <2>4. UNCHANGED <<eventVars, modePrev, left, lit, mobileVars, stopping, overtaken>>
    BY <1>11 DEF StoreModes
  <2> QED
    BY <2>1, <2>2, <2>3, <2>4 DEF FormInv
<1>12. CASE CheckLightObjects
  <2>1. Cardinality(Expired) \in Nat
    <3>1. IsFiniteSet(Expired)
      BY LightAssumption, FS_Subset DEF Expired
    <3> QED
      BY <3>1, FS_CardinalityType
  <2>2. PICK expired \in [1 .. Cardinality(Expired) -> Expired] :
          queue' = queue \o [i \in DOMAIN expired |-> TimerCommand(expired[i])]
    BY <1>12 DEF CheckLightObjects
  <2>3. \A i \in DOMAIN expired : TimerCommand(expired[i]) \in Command
    BY CommandsMade DEF Expired
  <2>4. [i \in DOMAIN expired |-> TimerCommand(expired[i])] \in Seq(Command)
    BY <2>1, <2>3
  <2>5. queue' \in Seq(Command)
    BY <2>2, <2>4 DEF FormInv
  <2>6. left' \in [Light -> Nat \cup {NotArmed}]
    BY <1>12 DEF CheckLightObjects, FormInv
  <2> QED
    BY <1>12, <2>5, <2>6 DEF CheckLightObjects, FormInv
<1>13. CASE Stop
  BY <1>13, CommandsMade DEF Stop, FormInv
<1>14. CASE Second
  BY <1>14 DEF Second, FormInv, NotArmed
<1>15. CASE UNCHANGED vars
  BY <1>15 DEF vars, FormInv
<1> QED
  BY <1>1, <1>2, <1>3, <1>4, <1>5, <1>6, <1>7, <1>8, <1>9, <1>10, <1>11, <1>12, <1>13, <1>14,
     <1>15, <1>17, <1>18, <1>19 DEF Next, DeviceThread, MobileThread, HandlerThread

\* The device thread stays within the list it is in.
LEMMA DeviceStep ==
  ASSUME DeviceInv, [Next]_vars
  PROVE  DeviceInv'
<1> USE DEF eventVars
<1>1. ASSUME UNCHANGED device
      PROVE  DeviceInv'
  BY <1>1 DEF DeviceInv, Idle
<1>2. ASSUME NEW w \in Word, NEW pins \in SUBSET Pin, Callback(w, pins)
      PROVE  DeviceInv'
  BY <1>2, Lists DEF Callback, DeviceInv, Idle, Position
<1>3. CASE OnEvent \/ SkipEvent
  <2>1. device' = [device EXCEPT !.next = device.next + 1]
    BY <1>3 DEF OnEvent, SkipEvent
  <2>2. device.word \in Word /\ device.next \in DOMAIN Events[device.word]
    BY <1>3, EventIsListed DEF OnEvent, SkipEvent
  <2>3. device'.word = device.word /\ device'.next = device.next + 1
    BY <2>1 DEF DeviceInv
  <2>4. device' \in [word : Word \cup {NoWord}, next : Nat \ {0}]
    BY <2>1 DEF DeviceInv
  <2> QED
    BY <2>2, <2>3, <2>4, Lists DEF DeviceInv, Position
<1>4. CASE CallbackEnds
  BY <1>4 DEF CallbackEnds, DeviceInv, Idle
<1>5. ASSUME NEW m \in Mobile, NEW bitset \in SUBSET ModeBit, UpdateModes(m, bitset)
      PROVE  DeviceInv'
  BY <1>1, <1>5 DEF UpdateModes
<1>6. ASSUME NEW m \in Mobile, NEW light \in Light, NEW delay \in Delay,
             AddCommandDelay(m, light, delay)
      PROVE  DeviceInv'
  BY <1>1, <1>6 DEF AddCommandDelay
<1>7. ASSUME NEW m \in Mobile, MobileThread(m)
      PROVE  DeviceInv'
  BY <1>1, <1>7 DEF MobileThread, SetModes, LoadBits, Compare, Reload, Keep, Act, NotifyClients
<1>8. CASE HandlerThread \/ Stop \/ Second \/ UNCHANGED vars
  BY <1>1, <1>8 DEF HandlerThread, LeaveLoop, NothingQueued, ArmLight, SwitchLight, LoadModes,
    StoreModes, CheckLightObjects, Stop, Second, vars
<1> QED
  BY <1>2, <1>3, <1>4, <1>5, <1>6, <1>7, <1>8 DEF Next, DeviceThread

\* The other threads push behind the command that set_mode_bit is working on.
LEMMA StoreStep ==
  ASSUME FormInv, DeviceInv, StoreInv, [Next]_vars
  PROVE  StoreInv'
<1> USE DEF handlerVars
<1>1. ASSUME UNCHANGED <<pc, queue>>
      PROVE  StoreInv'
  BY <1>1 DEF StoreInv
<1>2. ASSUME UNCHANGED pc, NEW more \in Seq(Command), queue' = queue \o more
      PROVE  StoreInv'
  BY <1>2, HeadStays DEF StoreInv, FormInv
<1>3. ASSUME UNCHANGED pc, NEW c \in Command, queue' = Append(queue, c)
      PROVE  StoreInv'
  <2>1. queue \in Seq(Command)
    BY DEF FormInv
  <2>2. <<c>> \in Seq(Command)
    BY <1>3
  <2>3. queue' = queue \o <<c>>
    BY <1>3, <2>1, <2>2
  <2> QED
    BY <1>2, <1>3, <2>2, <2>3
<1>4. ASSUME NEW w \in Word, NEW pins \in SUBSET Pin, Callback(w, pins)
      PROVE  StoreInv'
  BY <1>1, <1>4 DEF Callback
<1>5. CASE OnEvent
  <2>1. Event.actions \in Seq(Command)
    BY <1>5, EventIsListed DEF OnEvent
  <2> QED
    BY <1>1, <1>2, <1>5, <2>1 DEF OnEvent
<1>6. CASE SkipEvent \/ CallbackEnds
  BY <1>1, <1>6 DEF SkipEvent, CallbackEnds
<1>7. ASSUME NEW m \in Mobile, NEW bitset \in SUBSET ModeBit, UpdateModes(m, bitset)
      PROVE  StoreInv'
  BY <1>1, <1>7 DEF UpdateModes
<1>8. ASSUME NEW m \in Mobile, NEW light \in Light, NEW delay \in Delay,
             AddCommandDelay(m, light, delay)
      PROVE  StoreInv'
  <2>1. DeviceCommand("off", light, delay) \in Command
    BY CommandsMade, DelayAssumption
  <2> QED
    BY <1>3, <1>8, <2>1 DEF AddCommandDelay
<1>9. ASSUME NEW m \in Mobile, Act(m)
      PROVE  StoreInv'
  <2>1. ModeEvents[next[m]].actions \in Seq(Command)
    BY <1>9, Lists DEF Act, FormInv
  <2> QED
    BY <1>1, <1>2, <1>9, <2>1 DEF Act
<1>10. ASSUME NEW m \in Mobile,
              SetModes(m) \/ LoadBits(m) \/ Compare(m) \/ Reload(m) \/ Keep(m)
                \/ NotifyClients(m)
       PROVE  StoreInv'
  BY <1>1, <1>10 DEF SetModes, LoadBits, Compare, Reload, Keep, NotifyClients
<1>11. CASE Stop
  BY <1>3, <1>11, CommandsMade DEF Stop
<1>12. CASE Second \/ UNCHANGED vars
  BY <1>1, <1>12 DEF Second, vars
<1>13. CASE HandlerThread
  BY <1>13 DEF HandlerThread, LeaveLoop, NothingQueued, ArmLight, SwitchLight, LoadModes, Pop,
    StoreModes, CheckLightObjects, StoreInv
<1> QED
  BY <1>4, <1>5, <1>6, <1>7, <1>8, <1>9, <1>10, <1>11, <1>12, <1>13
  DEF Next, DeviceThread, MobileThread

\* A callback makes the word of all events of its list the one before; each event that the
\* thread passes takes the new one, or is skipped.
LEMMA WordStep ==
  ASSUME FormInv, DeviceInv, WordInv, [Next]_vars
  PROVE  WordInv'
<1> USE DEF eventVars
<1>1. ASSUME UNCHANGED <<seen, prev, device, before, skipped>>
      PROVE  WordInv'
  BY <1>1 DEF WordInv
<1>2. ASSUME NEW w \in Word, NEW pins \in SUBSET Pin, Callback(w, pins)
      PROVE  WordInv'
  <2> SUFFICES ASSUME NEW v \in Word \ {"click"}, NEW i \in DOMAIN Events[v], ~skipped'[v][i]
               PROVE  prev'[v][i] = IF device'.word = v /\ device'.next <= i
                                    THEN before' ELSE seen'[v]
    BY DEF WordInv
  <2>1. device.word # v
    BY <1>2 DEF Callback, Idle, Word, NoWord
  <2>2. prev[v][i] = seen[v]
    BY <1>2, <2>1 DEF Callback, WordInv
  <2>3. CASE v = w
    BY <1>2, <2>2, <2>3, Lists DEF Callback
  <2>4. CASE v # w
    BY <1>2, <2>2, <2>4 DEF Callback, FormInv
  <2> QED
    BY <2>3, <2>4
<1>3. CASE OnEvent \/ SkipEvent
  <2>1. device.word \in Word /\ device.next \in DOMAIN Events[device.word]
    BY <1>3, EventIsListed DEF OnEvent, SkipEvent
  <2>2. device' = [device EXCEPT !.next = device.next + 1] /\ UNCHANGED <<seen, before>>
    BY <1>3 DEF OnEvent, SkipEvent
  <2>3. device'.word = device.word /\ device'.next = device.next + 1 /\ device.next \in Nat
    BY <2>2 DEF DeviceInv
  <2> SUFFICES ASSUME NEW v \in Word \ {"click"}, NEW i \in DOMAIN Events[v], ~skipped'[v][i]
               PROVE  prev'[v][i] = IF device'.word = v /\ device'.next <= i
                                    THEN before' ELSE seen'[v]
    BY DEF WordInv
  <2>4. i \in Nat
    BY Lists
  <2>5. CASE v = device.word /\ i = device.next
    <3>1. CASE OnEvent
      BY <2>1, <2>2, <2>3, <2>5, <3>1 DEF OnEvent, Remembered, FormInv
    <3>2. CASE SkipEvent
      BY <2>1, <2>5, <3>2 DEF SkipEvent, FormInv
    <3> QED
      BY <1>3, <3>1, <3>2
  <2>6. CASE ~(v = device.word /\ i = device.next)
    <3>1. prev'[v][i] = prev[v][i] /\ skipped'[v][i] = skipped[v][i]
      <4>1. CASE OnEvent
        BY <2>1, <2>6, <4>1 DEF OnEvent, Remembered, FormInv
      <4>2. CASE SkipEvent
        BY <2>1, <2>6, <4>2 DEF SkipEvent, FormInv
      <4> QED
        BY <1>3, <4>1, <4>2
    <3> QED
      BY <2>2, <2>3, <2>4, <2>6, <3>1 DEF WordInv
  <2> QED
    BY <2>5, <2>6
<1>4. CASE CallbackEnds
  <2> SUFFICES ASSUME NEW v \in Word \ {"click"}, NEW i \in DOMAIN Events[v], ~skipped'[v][i]
               PROVE  prev'[v][i] = IF device'.word = v /\ device'.next <= i
                                    THEN before' ELSE seen'[v]
    BY DEF WordInv
  <2>1. device'.word # v
    BY <1>4 DEF CallbackEnds, Word, NoWord
  <2>2. ~(device.word = v /\ device.next <= i)
    BY <1>4, Lists DEF CallbackEnds, DeviceInv
  <2> QED
    BY <1>4, <2>1, <2>2 DEF CallbackEnds, WordInv
<1>5. ASSUME NEW m \in Mobile, NEW bitset \in SUBSET ModeBit, UpdateModes(m, bitset)
      PROVE  WordInv'
  BY <1>1, <1>5 DEF UpdateModes
<1>6. ASSUME NEW m \in Mobile, NEW light \in Light, NEW delay \in Delay,
             AddCommandDelay(m, light, delay)
      PROVE  WordInv'
  BY <1>1, <1>6 DEF AddCommandDelay
<1>7. ASSUME NEW m \in Mobile, MobileThread(m)
      PROVE  WordInv'
  BY <1>1, <1>7 DEF MobileThread, SetModes, LoadBits, Compare, Reload, Keep, Act, NotifyClients
<1>8. CASE HandlerThread \/ Stop \/ Second \/ UNCHANGED vars
  BY <1>1, <1>8 DEF HandlerThread, LeaveLoop, NothingQueued, ArmLight, SwitchLight, LoadModes,
    StoreModes, CheckLightObjects, Stop, Second, vars
<1> QED
  BY <1>2, <1>3, <1>4, <1>5, <1>6, <1>7, <1>8 DEF Next, DeviceThread

\* The steps that a mode event takes part in, and those it does not.
LEMMA StepsOfModeEvents ==
  ASSUME [Next]_vars
  PROVE  \/ \E m \in Mobile, bitset \in SUBSET ModeBit : UpdateModes(m, bitset)
         \/ \E m \in Mobile : SetModes(m) \/ LoadBits(m) \/ Compare(m) \/ Reload(m) \/ Keep(m)
                                \/ Act(m) \/ NotifyClients(m)
         \/ StoreModes
         \/ UNCHANGED <<modes, modePrev, mobileVars, historyVars>>
<1> USE DEF mobileVars, historyVars
<1>1. ASSUME NEW w \in Word, NEW pins \in SUBSET Pin, Callback(w, pins)
      PROVE  UNCHANGED <<modes, modePrev, mobileVars, historyVars>>
  BY <1>1 DEF Callback
<1>2. ASSUME NEW m \in Mobile, NEW light \in Light, NEW delay \in Delay,
             AddCommandDelay(m, light, delay)
      PROVE  UNCHANGED <<modes, modePrev, mobileVars, historyVars>>
  BY <1>2 DEF AddCommandDelay
<1>3. CASE DeviceThread
  BY <1>3 DEF DeviceThread, OnEvent, SkipEvent, CallbackEnds
<1>4. CASE LeaveLoop \/ NothingQueued \/ ArmLight \/ SwitchLight \/ LoadModes
           \/ CheckLightObjects \/ Stop \/ Second \/ UNCHANGED vars
  BY <1>4 DEF LeaveLoop, NothingQueued, ArmLight, SwitchLight, LoadModes, CheckLightObjects,
    Stop, Second, vars
<1> QED
  BY <1>1, <1>2, <1>3, <1>4 DEF Next, MobileThread, HandlerThread

\* Only an update and a mode command give the bitset another value while a thread holds one.
LEMMA KeepStep ==
  ASSUME FormInv, KeepInv, [Next]_vars
  PROVE  KeepInv'
<1> USE DEF mobileVars, historyVars, FormInv
<1> SUFFICES ASSUME NEW k \in Mobile, pcMobile'[k] = "keep"
             PROVE  next'[k] \in overtaken' \/ SymDiff(hold'[k], modes') \subseteq bypassed'
  BY DEF KeepInv
<1>1. ASSUME pcMobile[k] = "keep", UNCHANGED <<modes, historyVars>>, hold'[k] = hold[k],
             next'[k] = next[k]
      PROVE  next'[k] \in overtaken' \/ SymDiff(hold'[k], modes') \subseteq bypassed'
  BY <1>1 DEF KeepInv
<1>2. ASSUME NEW m \in Mobile, NEW bitset \in SUBSET ModeBit, UpdateModes(m, bitset)
      PROVE  next'[k] \in overtaken' \/ SymDiff(hold'[k], modes') \subseteq bypassed'
  BY <1>1, <1>2 DEF UpdateModes
<1>3. ASSUME NEW m \in Mobile, SetModes(m)
      PROVE  next'[k] \in overtaken'
  BY <1>3 DEF SetModes
<1>4. ASSUME NEW m \in Mobile, LoadBits(m) \/ Compare(m) \/ NotifyClients(m)
      PROVE  next'[k] \in overtaken' \/ SymDiff(hold'[k], modes') \subseteq bypassed'
  BY <1>1, <1>4 DEF LoadBits, Compare, NotifyClients
<1>5. ASSUME NEW m \in Mobile, Reload(m)
      PROVE  next'[k] \in overtaken' \/ SymDiff(hold'[k], modes') \subseteq bypassed'
  <2>1. CASE k = m
    BY <1>5, <2>1 DEF Reload, SymDiff
  <2>2. CASE k # m
    BY <1>1, <1>5, <2>2 DEF Reload
  <2> QED
    BY <2>1, <2>2
<1>6. ASSUME NEW m \in Mobile, Keep(m) \/ Act(m)
      PROVE  next'[k] \in overtaken' \/ SymDiff(hold'[k], modes') \subseteq bypassed'
  <2>1. k # m
    BY <1>6 DEF Keep, Act, EventLeft
  <2>2. pcMobile[k] = "keep" /\ hold'[k] = hold[k] /\ next'[k] = next[k]
    BY <1>6, <2>1 DEF Keep, Act, EventLeft
  <2>3. UNCHANGED <<modes, bypassed, overtaken>>
    BY <1>6 DEF Keep, Act
  <2> QED
    BY <2>2, <2>3 DEF KeepInv
<1>7. CASE StoreModes
  <2>1. bypassed' = bypassed \cup SymDiff(modes, modes')
    BY <1>7 DEF StoreModes
  <2>2. UNCHANGED <<overtaken, pcMobile, next, hold>>
    BY <1>7 DEF StoreModes
  <2> QED
    BY <2>1, <2>2 DEF KeepInv, SymDiff
<1>8. CASE UNCHANGED <<modes, modePrev, mobileVars, historyVars>>
  BY <1>1, <1>8
<1> QED
  BY <1>2, <1>3, <1>4, <1>5, <1>6, <1>7, <1>8, StepsOfModeEvents

\* A thread that is still to come to an event comes nearer, until it stores.
LEMMA ComingStays ==
  ASSUME FormInv, NEW e \in DOMAIN ModeEvents, NEW k \in Mobile, Coming(k, e), [Next]_vars,
         NEW m \in Mobile,
         \/ LoadBits(m) \/ Compare(m) \/ Reload(m) \/ Act(m) \/ NotifyClients(m)
         \/ Keep(m) /\ next[m] # e
         \/ \E bitset \in SUBSET ModeBit : UpdateModes(m, bitset)
  PROVE  Coming(k, e)'
<1> USE DEF FormInv, mobileVars, Position
<1>1. e \in Nat /\ next[k] \in Nat /\ next[m] \in Nat /\ e <= Len(ModeEvents)
      /\ Len(ModeEvents) \in Nat
  BY Lists
<1>2. CASE k # m
  <2>1. pcMobile'[k] = pcMobile[k] /\ next'[k] = next[k]
    BY <1>2 DEF LoadBits, Compare, Reload, Act, NotifyClients, Keep, EventLeft, UpdateModes
  <2> QED
    BY <2>1 DEF Coming
<1>3. CASE k = m
  <2>1. CASE LoadBits(m) \/ Compare(m) \/ Reload(m)
    BY <1>1, <1>3, <2>1 DEF Coming, LoadBits, Compare, Reload
  <2>2. CASE Act(m)
    BY <1>1, <1>3, <2>2 DEF Coming, Act, EventLeft
  <2>3. CASE NotifyClients(m) \/ \E bitset \in SUBSET ModeBit : UpdateModes(m, bitset)
    BY <1>1, <1>3, <2>3 DEF Coming, NotifyClients, UpdateModes
  <2>4. CASE Keep(m) /\ next[m] # e
    <3>1. next[m] < e
      BY <1>1, <1>3, <2>4 DEF Coming, Keep
    <3>2. CASE fired[m]
      BY <1>1, <1>3, <2>4, <3>1, <3>2 DEF Coming, Keep
    <3>3. CASE ~fired[m]
      BY <1>1, <1>3, <2>4, <3>1, <3>3 DEF Coming, Keep, EventLeft
    <3> QED
      BY <3>2, <3>3
  <2> QED
    BY <2>1, <2>2, <2>3, <2>4
<1> QED
  BY <1>2, <1>3

\* An update has every mode event still to come; a mode event that is told takes the bitset the
\* thread holds; a mode command's bit is noted.
LEMMA ModeStep ==
  ASSUME FormInv, KeepInv, ModeInv, [Next]_vars
  PROVE  ModeInv'
<1> USE DEF mobileVars, historyVars
<1> SUFFICES ASSUME NEW e \in DOMAIN ModeEvents
             PROVE  \/ Knows(e)'
                    \/ ModeOf(e) \in bypassed'
                    \/ e \in overtaken'
                    \/ (\E m \in Mobile : Coming(m, e))'
  BY DEF ModeInv, ModeOf
<1> DEFINE Goal == \/ Knows(e)'
                   \/ ModeOf(e) \in bypassed'
                   \/ e \in overtaken'
                   \/ (\E m \in Mobile : Coming(m, e))'
<1>1. ASSUME UNCHANGED <<modes, modePrev, bypassed, overtaken>>,
             \A k \in Mobile : Coming(k, e) => Coming(k, e)'
      PROVE  Goal
  BY <1>1 DEF ModeInv, Knows, ModeOf
<1>2. ASSUME NEW m \in Mobile, SetModes(m)
      PROVE  Goal
  <2>1. pcMobile'[m] = "events" /\ next'[m] = 1
    BY <1>2 DEF SetModes, FormInv
  <2> QED
    BY <2>1, Lists DEF Coming
<1>3. ASSUME NEW m \in Mobile,
             \/ LoadBits(m) \/ Compare(m) \/ Reload(m) \/ Act(m) \/ NotifyClients(m)
             \/ \E bitset \in SUBSET ModeBit : UpdateModes(m, bitset)
      PROVE  Goal
  <2>1. UNCHANGED <<modes, modePrev, bypassed, overtaken>>
    BY <1>3 DEF LoadBits, Compare, Reload, Act, NotifyClients, UpdateModes
  <2>2. \A k \in Mobile : Coming(k, e) => Coming(k, e)'
    BY <1>3, ComingStays
  <2> QED
    BY <1>1, <2>1, <2>2
<1>4. ASSUME NEW m \in Mobile, Keep(m)
      PROVE  Goal
  <2>1. UNCHANGED <<modes, bypassed, overtaken>>
    BY <1>4 DEF Keep
  <2>2. CASE e = next[m]
    <3>1. modePrev'[e] = hold[m]
      BY <1>4, <2>2 DEF Keep, FormInv
    <3>2. e \in overtaken \/ SymDiff(hold[m], modes) \subseteq bypassed
      BY <1>4, <2>2 DEF Keep, KeepInv
    <3> QED
      BY <2>1, <3>1, <3>2 DEF Knows, ModeOf, SymDiff
  <2>3. CASE e # next[m]
    <3>1. modePrev'[e] = modePrev[e]
      BY <1>4, <2>3 DEF Keep, FormInv
    <3>2. \A k \in Mobile : Coming(k, e) => Coming(k, e)'
      BY <1>4, <2>3, ComingStays
    <3> QED
      BY <2>1, <3>1, <3>2 DEF ModeInv, Knows, ModeOf
  <2> QED
    BY <2>2, <2>3
<1>5. CASE StoreModes
  <2>1. bypassed' = bypassed \cup SymDiff(modes, modes')
    BY <1>5 DEF StoreModes
  <2>2. UNCHANGED <<modePrev, overtaken>>
    BY <1>5 DEF StoreModes
  <2>3. \A k \in Mobile : Coming(k, e) => Coming(k, e)'
    BY <1>5 DEF StoreModes, Coming
  <2> QED
    BY <2>1, <2>2, <2>3 DEF ModeInv, Knows, ModeOf, SymDiff
<1>6. CASE UNCHANGED <<modes, modePrev, mobileVars, historyVars>>
  <2>1. \A k \in Mobile : Coming(k, e) => Coming(k, e)'
    BY <1>6 DEF Coming
  <2> QED
    BY <1>1, <1>6, <2>1
<1> QED
  BY <1>2, <1>3, <1>4, <1>5, <1>6, StepsOfModeEvents

\* A flip that a mode event is due to act upon is found by the threads that come to it before
\* the first of them stores, and that one acts.
LEMMA OwedStep ==
  ASSUME FormInv, OwedInv, [Next]_vars
  PROVE  OwedInv'
<1> USE DEF mobileVars, historyVars, FormInv
<1> SUFFICES ASSUME NEW e \in DOMAIN ModeEvents, owed'[e] = "due"
             PROVE  DueInv(e)'
  BY DEF OwedInv
<1>1. CASE UNCHANGED <<modes, modePrev, mobileVars, historyVars>>
  <2>1. DueInv(e)
    BY <1>1 DEF OwedInv
  <2> QED
    BY <1>1, <2>1 DEF DueInv, Knows, ModeOf, Found, Coming
<1>2. ASSUME NEW m \in Mobile,
             NotifyClients(m) \/ \E bitset \in SUBSET ModeBit : UpdateModes(m, bitset)
      PROVE  DueInv(e)'
  <2>1. DueInv(e) /\ UNCHANGED <<modes, modePrev>>
    BY <1>2 DEF OwedInv, NotifyClients, UpdateModes
  <2>2. \A k \in Mobile : Coming(k, e) => Coming(k, e)'
    BY <1>2, ComingStays
  <2>3. \A k \in Mobile : pcMobile'[k] \in {"compare", "reload", "keep", "act"} =>
                            k # m /\ UNCHANGED <<pcMobile[k], next[k], hold[k], fired[k]>>
    BY <1>2 DEF NotifyClients, UpdateModes
  <2>4. \A k \in Mobile : Found(k, e) => Found(k, e)'
    BY <1>2 DEF NotifyClients, UpdateModes, Found
  <2> QED
    BY <2>1, <2>2, <2>3, <2>4 DEF DueInv, Knows, ModeOf
<1>3. ASSUME NEW m \in Mobile, SetModes(m)
      PROVE  DueInv(e)'
  <2>1. modes' = hold[m] /\ UNCHANGED <<modePrev, fired>>
    BY <1>3 DEF SetModes
  <2>2. pcMobile'[m] = "events" /\ next'[m] = 1
    BY <1>3 DEF SetModes
  <2>3. \A k \in Mobile \ {m} : UNCHANGED <<pcMobile[k], next[k], hold[k], fired[k]>>
    BY <1>3 DEF SetModes
  <2>4. Coming(m, e)'
    BY <2>2, Lists DEF Coming
  <2>5. CASE Turns(e, hold[m])
    <3>4. StillOwed(e, hold[m]) = "nothing"
      BY <2>5 DEF Turns, StillOwed
    <3>5. owed'[e] = IF Turns(e, hold[m]) /\ \A k \in Mobile : ~InEvent(k, e) THEN "due"
                     ELSE StillOwed(e, hold[m])
      BY <1>3 DEF SetModes
    <3>1. \A k \in Mobile : ~InEvent(k, e)
      BY <3>4, <3>5
    <3>2. \A k \in Mobile : ~(next'[k] = e /\ pcMobile'[k] \in {"compare", "reload", "keep"})
      BY <2>2, <2>3, <3>1 DEF InEvent
    <3>3. ~Knows(e)'
      BY <2>1, <2>5 DEF Turns, Knows, ModeOf, SymDiff
    <3> QED
      BY <2>1, <2>4, <2>5, <3>2, <3>3 DEF DueInv, Turns, ModeOf
  <2>6. CASE ~Turns(e, hold[m])
    <3>1. owed'[e] = StillOwed(e, hold[m])
      BY <1>3, <2>6 DEF SetModes
    <3>2. owed[e] = "due" /\ (ModeOf(e) \in modes <=> ModeOf(e) \in modes')
      BY <2>1, <3>1 DEF StillOwed, SymDiff
    <3>3. DueInv(e)
      BY <3>2 DEF OwedInv
    <3>4. \A k \in Mobile : Found(k, e) => Found(k, e)'
      BY <1>3 DEF SetModes, Found
    <3>5. Knows(e)' <=> Knows(e)
      BY <2>1, <3>2 DEF Knows, ModeOf
    <3>6. (ModeOf(e) \in modes)' = ModeEvents[e].enabled
      BY <3>2, <3>3 DEF DueInv, ModeOf
    <3>7. \A k \in Mobile : next'[k] = e /\ pcMobile'[k] \in {"compare", "keep"} =>
            (ModeOf(e) \in hold'[k] <=> ModeOf(e) \in modes')
      BY <2>2, <2>3, <3>2, <3>3 DEF DueInv
    <3>8. ~Knows(e) => \A k \in Mobile :
            next'[k] = e /\ pcMobile'[k] \in {"reload", "keep"} => fired'[k]
      BY <2>2, <2>3, <3>3 DEF DueInv
    <3> QED
      BY <2>4, <3>3, <3>4, <3>5, <3>6, <3>7, <3>8 DEF DueInv, ModeOf
  <2> QED
    BY <2>5, <2>6
<1>4. ASSUME NEW m \in Mobile, LoadBits(m)
      PROVE  DueInv(e)'
  <2>1. DueInv(e) /\ UNCHANGED <<modes, modePrev>>
    BY <1>4 DEF OwedInv, LoadBits
  <2>2. \A k \in Mobile : Coming(k, e) => Coming(k, e)'
    BY <1>4, ComingStays
  <2>3. \A k \in Mobile : Found(k, e) => Found(k, e)'
    BY <1>4 DEF LoadBits, Found
  <2>4. /\ pcMobile'[m] = "compare" /\ hold'[m] = modes
        /\ \A k \in Mobile \ {m} : UNCHANGED <<pcMobile[k], next[k], hold[k], fired[k]>>
    BY <1>4 DEF LoadBits
  <2> QED
    BY <2>1, <2>2, <2>3, <2>4 DEF DueInv, Knows, ModeOf
<1>5. ASSUME NEW m \in Mobile, Compare(m)
      PROVE  DueInv(e)'
  <2>1. DueInv(e) /\ UNCHANGED <<modes, modePrev>>
    BY <1>5 DEF OwedInv, Compare
  <2>2. \A k \in Mobile : Coming(k, e) => Coming(k, e)'
    BY <1>5, ComingStays
  <2>3. \A k \in Mobile : Found(k, e) => Found(k, e)'
    BY <1>5 DEF Compare, Found
  <2>4. /\ pcMobile[m] = "compare" /\ pcMobile'[m] = "reload" /\ next'[m] = next[m]
        /\ \A k \in Mobile \ {m} : UNCHANGED <<pcMobile[k], next[k], hold[k], fired[k]>>
    BY <1>5 DEF Compare
  <2>5. ~Knows(e) /\ next[m] = e => fired'[m]
    <3>1. fired'[m] = (ModeOf(next[m]) \in SymDiff(hold[m], modePrev[next[m]]))
      BY <1>5 DEF Compare
    <3> QED
      BY <2>1, <2>4, <3>1 DEF DueInv, Knows, SymDiff
  <2>6. Knows(e)' <=> Knows(e)
    BY <2>1 DEF Knows, ModeOf
  <2>7. \A k \in Mobile : next'[k] = e /\ pcMobile'[k] \in {"compare", "keep"} =>
          (ModeOf(e) \in hold'[k] <=> ModeOf(e) \in modes')
    BY <2>1, <2>4 DEF DueInv
  <2>8. ~Knows(e) => \A k \in Mobile :
          next'[k] = e /\ pcMobile'[k] \in {"reload", "keep"} => fired'[k]
    BY <2>1, <2>4, <2>5 DEF DueInv
  <2> QED
    BY <2>1, <2>2, <2>3, <2>6, <2>7, <2>8 DEF DueInv, ModeOf
<1>6. ASSUME NEW m \in Mobile, Reload(m)
      PROVE  DueInv(e)'
  <2>1. DueInv(e) /\ UNCHANGED <<modes, modePrev>>
    BY <1>6 DEF OwedInv, Reload
  <2>2. \A k \in Mobile : Coming(k, e) => Coming(k, e)'
    BY <1>6, ComingStays
  <2>3. \A k \in Mobile : Found(k, e) => Found(k, e)'
    BY <1>6 DEF Reload, Found
  <2>4. /\ pcMobile[m] = "reload" /\ pcMobile'[m] = "keep" /\ hold'[m] = modes
        /\ UNCHANGED <<next, fired>>
        /\ \A k \in Mobile \ {m} : UNCHANGED <<pcMobile[k], hold[k]>>
    BY <1>6 DEF Reload
  <2> QED
    BY <2>1, <2>2, <2>3, <2>4 DEF DueInv, Knows, ModeOf
<1>7. ASSUME NEW m \in Mobile, Keep(m)
      PROVE  DueInv(e)'
  <2>1. DueInv(e) /\ UNCHANGED modes /\ next[m] \in DOMAIN ModeEvents
    BY <1>7 DEF OwedInv, Keep
  <2>2. \A k \in Mobile \ {m} : UNCHANGED <<pcMobile[k], next[k], hold[k], fired[k]>>
    BY <1>7 DEF Keep, EventLeft
  <2>3. /\ pcMobile'[m] \in {"events", "act"}
        /\ fired[m] => pcMobile'[m] = "act" /\ next'[m] = next[m]
    BY <1>7 DEF Keep, EventLeft
  <2>4. /\ (ModeOf(e) \in modes)' = ModeEvents[e].enabled
        /\ \A k \in Mobile : next'[k] = e /\ pcMobile'[k] \in {"compare", "keep"} =>
             (ModeOf(e) \in hold'[k] <=> ModeOf(e) \in modes')
    BY <2>1, <2>2, <2>3 DEF DueInv, ModeOf
  <2>5. \A k \in Mobile : Found(k, e) => Found(k, e)'
    BY <1>7, <2>2, <2>3 DEF Keep, Found
  <2>6. CASE next[m] = e
    <3>1. modePrev'[e] = hold[m]
      BY <1>7, <2>6 DEF Keep
    <3>2. Knows(e)'
      BY <1>7, <2>1, <2>6, <3>1 DEF Keep, DueInv, Knows, ModeOf
    <3>3. \E k \in Mobile : Found(k, e)
      BY <1>7, <2>1, <2>6 DEF Keep, DueInv, Found
    <3> QED
      BY <2>4, <2>5, <3>2, <3>3 DEF DueInv, ModeOf
  <2>7. CASE next[m] # e
    <3>1. modePrev'[e] = modePrev[e]
      BY <1>7, <2>7 DEF Keep
    <3>2. Knows(e)' <=> Knows(e)
      BY <2>1, <3>1 DEF Knows, ModeOf
    <3>3. \A k \in Mobile : Coming(k, e) => Coming(k, e)'
      BY <1>7, <2>7, ComingStays
    <3>4. ~Knows(e) => \A k \in Mobile :
            next'[k] = e /\ pcMobile'[k] \in {"reload", "keep"} => fired'[k]
      BY <2>1, <2>2, <2>3 DEF DueInv
    <3> QED
      BY <2>1, <2>4, <2>5, <3>2, <3>3, <3>4 DEF DueInv, ModeOf
  <2> QED
    BY <2>6, <2>7
<1>8. ASSUME NEW m \in Mobile, Act(m)
      PROVE  DueInv(e)'
  <2>1. next[m] \in DOMAIN ModeEvents /\ UNCHANGED <<modes, modePrev>>
    BY <1>8 DEF Act
  <2>2. owed[e] = "due"
    BY <1>8, <2>1 DEF Act
  <2>3. DueInv(e)
    BY <2>2 DEF OwedInv
  <2>4. next[m] # e
    BY <1>8, <2>1, <2>3 DEF Act, DueInv
  <2>5. /\ pcMobile'[m] = "events"
        /\ \A k \in Mobile \ {m} : UNCHANGED <<pcMobile[k], next[k], hold[k], fired[k]>>
    BY <1>8 DEF Act, EventLeft
  <2>6. \A k \in Mobile : Coming(k, e) => Coming(k, e)'
    BY <1>8, ComingStays
  <2>7. \A k \in Mobile : Found(k, e) => Found(k, e)'
    BY <2>4, <2>5 DEF Found
  <2> QED
    BY <2>1, <2>3, <2>5, <2>6, <2>7 DEF DueInv, Knows, ModeOf
<1>9. CASE StoreModes
  <2>1. UNCHANGED <<modePrev, pcMobile, next, hold, fired>>
    BY <1>9 DEF StoreModes
  <2>2. owed'[e] = StillOwed(e, modes')
    BY <1>9 DEF StoreModes
  <2>3. owed[e] = "due" /\ (ModeOf(e) \in modes <=> ModeOf(e) \in modes')
    BY <2>2 DEF StillOwed, SymDiff
  <2>4. DueInv(e)
    BY <2>3 DEF OwedInv
  <2>5. Knows(e)' <=> Knows(e)
    BY <2>1, <2>3 DEF Knows, ModeOf
  <2>6. (ModeOf(e) \in modes)' = ModeEvents[e].enabled
    BY <2>3, <2>4 DEF DueInv, ModeOf
  <2> QED
    BY <2>1, <2>3, <2>4, <2>5, <2>6 DEF DueInv, Found, Coming, ModeOf
<1> QED
  BY <1>1, <1>2, <1>3, <1>4, <1>5, <1>6, <1>7, <1>8, <1>9, StepsOfModeEvents

\* Nothing was told yet; the handler's bitset is empty.
LEMMA InitIInv ==
  ASSUME Init
  PROVE  IInv
<1>1. FormInv
  <2>1. prev = [w \in Word |-> prev[w]] /\ skipped = [w \in Word |-> skipped[w]]
    BY DEF Init
  <2>2. /\ \A w \in Word : prev[w] \in [DOMAIN Events[w] -> SUBSET Pin]
        /\ \A w \in Word : skipped[w] \in [DOMAIN Events[w] -> BOOLEAN]
    BY DEF Init
  <2>3. queue \in Seq(Command)
    BY DEF Init
  <2>4. next \in [Mobile -> Position(ModeEvents)]
    BY Lists DEF Init, Position
  <2> QED
    BY <2>1, <2>2, <2>3, <2>4 DEF Init, FormInv
<1>2. DeviceInv
  BY DEF Init, DeviceInv, Idle
<1>3. StoreInv
  BY DEF Init, StoreInv
<1>4. WordInv
  BY DEF Init, WordInv, Word, NoWord
<1>5. KeepInv /\ ModeInv /\ OwedInv
  BY DEF Init, KeepInv, ModeInv, Knows, ModeOf, OwedInv
<1> QED
  BY <1>1, <1>2, <1>3, <1>4, <1>5 DEF IInv

\* Every step keeps the inductive invariant.
LEMMA NextIInv ==
  ASSUME IInv, [Next]_vars
  PROVE  IInv'
BY FormStep, DeviceStep, StoreStep, WordStep, KeepStep, ModeStep, OwedStep DEF IInv

\* The inductive invariant holds of every behaviour, whatever the configuration.
THEOREM InductiveInvariant == Spec => []IInv
BY InitIInv, NextIInv, PTL DEF Spec

\* device_event_t::on_event neither misses a flip of its word nor sees one twice: the word it
\* compares with is the one before the callback.
THEOREM EventsSeeEachFlip == Spec => []EventComparesWithTheWordBefore
<1>1. IInv => EventComparesWithTheWordBefore
  <2> SUFFICES ASSUME IInv, ~Idle, device.word # "click",
                      device.next <= Len(Events[device.word]),
                      ~skipped[device.word][device.next]
               PROVE  prev[device.word][device.next] = before
    BY DEF EventComparesWithTheWordBefore
  <2>1. device.word \in Word /\ device.next \in DOMAIN Events[device.word]
    BY EventIsListed DEF IInv
  <2>2. device.next \in Nat
    BY DEF IInv, DeviceInv
  <2> QED
    BY <2>1, <2>2 DEF IInv, WordInv
<1> QED
  BY <1>1, InductiveInvariant, PTL

\* mode_event_t::on_event: once the updates of all clients have come to their end, each mode
\* event has the state of its mode, unless a mode command went past it, or the last update fell
\* between the load and the store of mode_event.cpp:34 in another client's thread.
THEOREM ModeEventsKeepUp == Spec => []ModeEventsKnowTheirMode
<1>1. IInv => ModeEventsKnowTheirMode
  BY DEF IInv, ModeInv, Coming, ModeEventsKnowTheirMode, ModeEventsAtRest
<1> QED
  BY <1>1, InductiveInvariant, PTL

\* mode_event_t::on_event, run by any number of clients' threads at once on one event: a mode
\* turned while none of them was in the event is acted upon by one of them before all are done,
\* or is turned back.
THEOREM DueActionsAreNotLost == Spec => []DueActionsAreQueued
<1>1. IInv => DueActionsAreQueued
  BY DEF IInv, OwedInv, DueInv, Found, Coming, DueActionsAreQueued, ModeEventsAtRest
<1> QED
  BY <1>1, InductiveInvariant, PTL

-----------------------------------------------------------------------------
\* Each step's commands name a mode, and the bits set are bits of modes.
LEMMA BitsStep ==
  ASSUME IInv, BitsInv, [Next]_vars
  PROVE  BitsInv'
<1> USE DEF eventVars, handlerVars, mobileVars, historyVars
<1>1. ASSUME UNCHANGED <<modes, local, bypassed, modePrev, hold, queue>>
      PROVE  BitsInv'
  BY <1>1 DEF BitsInv, NamesAMode
<1>2. ASSUME NEW more \in Seq(Command), NamesAMode(more), queue' = queue \o more
      PROVE  NamesAMode(queue')
  <2> DEFINE Named == {c \in Command : c.kind = "mode" => c.mode # 0}
  <2>1. queue \in Seq(Command)
    BY DEF IInv, FormInv
  <2>2. queue \in Seq(Named) /\ more \in Seq(Named)
    BY <1>2, <2>1 DEF BitsInv, NamesAMode
  <2> HIDE DEF Named
  <2>3. queue \o more \in Seq(Named)
    BY <2>2
  <2>4. \A i \in DOMAIN queue' : queue'[i] \in Named
    BY <1>2, <2>3
  <2> QED
    BY <2>4 DEF NamesAMode, Named
<1>3. ASSUME NEW c \in Command, c.kind # "mode", queue' = Append(queue, c)
      PROVE  NamesAMode(queue')
  <2>1. queue' = queue \o <<c>> /\ <<c>> \in Seq(Command)
    BY <1>3 DEF IInv, FormInv
  <2>2. NamesAMode(<<c>>)
    BY <1>3 DEF NamesAMode
  <2> QED
    BY <1>2, <2>1, <2>2
<1>4. ASSUME queue # <<>>, queue' = Tail(queue)
      PROVE  NamesAMode(queue')
  BY <1>4 DEF BitsInv, NamesAMode, IInv, FormInv
<1>5. ASSUME NEW w \in Word, NEW pins \in SUBSET Pin, Callback(w, pins)
      PROVE  BitsInv'
  BY <1>1, <1>5 DEF Callback
<1>6. CASE OnEvent
  <2>1. Event.actions \in Seq(Command) /\ NamesAMode(Event.actions)
    BY <1>6, EventIsListed, SwitchedModesAssumption DEF OnEvent, IInv, Event
  <2>2. NamesAMode(queue')
    BY <1>2, <1>6, <2>1 DEF OnEvent, BitsInv
  <2> QED
    BY <1>6, <2>2 DEF OnEvent, BitsInv
<1>7. CASE SkipEvent \/ CallbackEnds
  BY <1>1, <1>7 DEF SkipEvent, CallbackEnds
<1>8. ASSUME NEW m \in Mobile, NEW bitset \in SUBSET ModeBit, UpdateModes(m, bitset)
      PROVE  BitsInv'
  BY <1>8 DEF UpdateModes, BitsInv
<1>9. ASSUME NEW m \in Mobile, NEW light \in Light, NEW delay \in Delay,
             AddCommandDelay(m, light, delay)
      PROVE  BitsInv'
  <2>1. DeviceCommand("off", light, delay) \in Command
    BY CommandsMade, DelayAssumption
  <2>2. NamesAMode(queue')
    BY <1>3, <1>9, <2>1 DEF AddCommandDelay, DeviceCommand
  <2> QED
    BY <1>9, <2>2 DEF AddCommandDelay, BitsInv
<1>10. ASSUME NEW m \in Mobile, Act(m)
       PROVE  BitsInv'
  <2>1. next[m] \in DOMAIN ModeEvents
    BY <1>10 DEF Act, IInv, FormInv
  <2>2. ModeEvents[next[m]].actions \in Seq(Command) /\ NamesAMode(ModeEvents[next[m]].actions)
    BY <2>1, Lists, SwitchedModesAssumption
  <2>3. NamesAMode(queue')
    BY <1>2, <1>10, <2>2 DEF Act, BitsInv
  <2> QED
    BY <1>10, <2>3 DEF Act, EventLeft, BitsInv
<1>18. ASSUME NEW m \in Mobile, Keep(m)
       PROVE  BitsInv'
  <2>1. modePrev' \in [DOMAIN ModeEvents -> SUBSET ModeBit]
    BY <1>18 DEF Keep, BitsInv, IInv, FormInv
  <2>2. hold' \in [Mobile -> SUBSET ModeBit]
    BY <1>18 DEF Keep, EventLeft, BitsInv
  <2> QED
    BY <1>18, <2>1, <2>2 DEF Keep, BitsInv
<1>19. ASSUME NEW m \in Mobile, SetModes(m) \/ LoadBits(m) \/ Compare(m) \/ Reload(m)
       PROVE  BitsInv'
  BY <1>19 DEF SetModes, LoadBits, Compare, Reload, BitsInv
<1>11. ASSUME NEW m \in Mobile, NotifyClients(m)
       PROVE  BitsInv'
  BY <1>1, <1>11 DEF NotifyClients
<1>12. CASE LeaveLoop \/ NothingQueued \/ Second \/ UNCHANGED vars
  BY <1>1, <1>12 DEF LeaveLoop, NothingQueued, Second, vars
<1>13. CASE ArmLight \/ SwitchLight
  <2>1. NamesAMode(queue')
    BY <1>4, <1>13 DEF ArmLight, SwitchLight, Pop
  <2> QED
    BY <1>13, <2>1 DEF ArmLight, SwitchLight, BitsInv
<1>14. CASE LoadModes
  BY <1>14 DEF LoadModes, BitsInv, NamesAMode
<1>15. CASE StoreModes
  <2>1. queue # <<>> /\ Head(queue).kind = "mode"
    BY <1>15 DEF StoreModes, IInv, StoreInv
  <2>2. Head(queue) \in Command /\ Head(queue) = queue[1] /\ 1 \in DOMAIN queue
    BY <2>1 DEF IInv, FormInv
  <2>3. Head(queue).mode \in 0 .. ModeCount /\ Head(queue).mode # 0
    BY <2>1, <2>2, CommandForms DEF BitsInv, NamesAMode
  <2>4. Head(queue).mode - 1 \in ModeBit
    BY <2>3, EventsAssumption DEF EventsAssumption, ModeBit
  <2>5. modes' \subseteq ModeBit
    BY <1>15, <2>4 DEF StoreModes, BitsInv
  <2>6. bypassed' \subseteq ModeBit
    BY <1>15, <2>5 DEF StoreModes, BitsInv, SymDiff
  <2>7. NamesAMode(queue')
    BY <1>4, <1>15, <2>1 DEF StoreModes
  <2> QED
    BY <1>15, <2>5, <2>6, <2>7 DEF StoreModes, BitsInv
<1>16. CASE CheckLightObjects
  <2>1. PICK expired \in [1 .. Cardinality(Expired) -> Expired] :
          queue' = queue \o [i \in DOMAIN expired |-> TimerCommand(expired[i])]
    BY <1>16 DEF CheckLightObjects
  <2>2. Cardinality(Expired) \in Nat
    <3>1. IsFiniteSet(Expired)
      BY LightAssumption, FS_Subset DEF Expired
    <3> QED
      BY <3>1, FS_CardinalityType
  <2>3. \A i \in DOMAIN expired : TimerCommand(expired[i]) \in Command
    BY CommandsMade DEF Expired
  <2>4. [i \in DOMAIN expired |-> TimerCommand(expired[i])] \in Seq(Command)
    BY <2>2, <2>3
  <2>5. NamesAMode([i \in DOMAIN expired |-> TimerCommand(expired[i])])
    BY DEF NamesAMode, TimerCommand
  <2>6. NamesAMode(queue')
    BY <1>2, <2>1, <2>4, <2>5
  <2> QED
    BY <1>16, <2>6 DEF CheckLightObjects, BitsInv
<1>17. CASE Stop
  <2>1. NamesAMode(queue')
    BY <1>3, <1>17, CommandsMade DEF Stop, FakeCommand
  <2> QED
    BY <1>17, <2>1 DEF Stop, BitsInv
<1> QED
  BY <1>5, <1>6, <1>7, <1>8, <1>9, <1>10, <1>11, <1>12, <1>13, <1>14, <1>15, <1>16, <1>17,
     <1>18, <1>19
  DEF Next, DeviceThread, MobileThread, HandlerThread

\* The variables have their types.  Only this theorem rests on SwitchedModesAssumption.
THEOREM TypeCorrect == Spec => []TypeOK
<1>1. Init => BitsInv
  BY DEF Init, BitsInv, NamesAMode
<1>2. IInv /\ BitsInv => TypeOK
  <2> SUFFICES ASSUME IInv, BitsInv
               PROVE  TypeOK
    OBVIOUS
  <2>1. \A i \in DOMAIN queue : queue[i].kind \in {"device", "mode", "fake"}
    BY CommandForms DEF IInv, FormInv
  <2>2. left \in [Light -> Int] /\ \A l \in Light : left[l] >= NotArmed
    BY DEF IInv, FormInv, NotArmed
  <2>3. /\ device.word \in Word \cup {NoWord}
        /\ ~Idle => device.next \in Position(Events[device.word])
    BY DEF IInv, DeviceInv
  <2> QED
    BY <2>1, <2>2, <2>3 DEF IInv, FormInv, BitsInv, TypeOK
<1> QED
  BY <1>1, <1>2, BitsStep, InductiveInvariant, PTL DEF Spec
===============================================================================
