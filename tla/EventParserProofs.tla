--------------------------- MODULE EventParserProofs ---------------------------
(***************************************************************************)
(* Proofs about EventParser, for any configurations: the modes of events   *)
(* are modes, texts make the start end in the assertion about light        *)
(* objects only if the pins of the lights have a gap, the events are what  *)
(* their authors mean, and only an event that is not clear is refused.     *)
(***************************************************************************)
EXTENDS EventParser, FiniteSetTheorems, WellFoundedInduction, SequenceTheorems, TLAPS

\* A list of commands.
AreCommands(s) == IsList(s) /\ \A k \in DOMAIN s : s[k].kind \in {"device", "mode"}

\* An event of a handler that has count modes.
IsEvent(e, count) ==
  /\ {"mode", "actions"} \subseteq DOMAIN e
  /\ e.mode \in 0 .. count - 1
  /\ AreCommands(e.actions)

\* What was read of the names is what the file holds, in the order init reads it.
NamesInv ==
  /\ config \in Configurations
  /\ pc \in {"init", "modes", "names", "condition", "actions", "text", "json"} \cup Ended
  /\ lightCount \in Nat
  /\ pc \in {"modes", "names", "condition", "actions", "text", "json"} =>
       Has(config, "lights") /\ lightCount = Len(config.lights)
  /\ pc \in {"names", "condition", "actions", "text", "json"} => IsList(modes) /\ modes # <<>>
  /\ pc \in {"condition", "actions", "text", "json"} => lights = config.lights

\* The handler's events are whole, and there are none before the names.
EventsInv ==
  /\ events = [list \in List |-> events[list]]
  /\ \A list \in List : IsList(events[list])
  /\ \A list \in List : \A i \in DOMAIN events[list] : IsEvent(events[list][i], Len(modes))
  /\ pc \in {"init", "modes", "names"} => \A list \in List : events[list] = <<>>

\* The event whose actions are read is in its list, and made from a node of the file.
NodeInv ==
  /\ next \in Nat \ {0}
  /\ AreCommands(actions)
  /\ pc \in {"actions", "text", "json"} =>
       event.list \in List /\ event.at \in DOMAIN events[event.list] /\ ~NoMoreEvents
  /\ pc = "json" => /\ Has(Node, "actions")
                    /\ Node.actions.type = "array"
                    /\ agenda = Node.actions.items

IInv == NamesInv /\ EventsInv /\ NodeInv /\ AssertsOnlyForSparsePins

-----------------------------------------------------------------------------
(* Lists.                                                                  *)

\* The positions of a list are the numbers from 1 to its length.
LEMMA ListForm ==
  ASSUME NEW s, IsList(s)
  PROVE  Len(s) \in Nat /\ DOMAIN s = 1 .. Len(s) /\ (s # <<>> => Len(s) > 0)
BY LenProperties, EmptySeq DEF IsList

\* Whatever its elements, a sequence is a list.
LEMMA SequenceIsList == ASSUME NEW S, NEW s \in Seq(S) PROVE IsList(s)
<1>1. s \in Seq(Range(s))
  BY SeqOfRange
<1>2. Range(s) = {s[i] : i \in DOMAIN s}
  BY DEF Range
<1>3. QED
  BY <1>1, <1>2 DEF IsList

\* Append keeps a list, its elements and their places.
LEMMA AppendList ==
  ASSUME NEW s, NEW e, IsList(s)
  PROVE  /\ IsList(Append(s, e))
         /\ Len(Append(s, e)) = Len(s) + 1
         /\ \A i \in 1 .. Len(s) : Append(s, e)[i] = s[i]
         /\ Append(s, e)[Len(s) + 1] = e
<1> DEFINE S == {s[i] : i \in DOMAIN s} \cup {e}
<1>1. s \in Seq(S)
  BY SeqMonotonic DEF IsList
<1>2. e \in S
  OBVIOUS
<1> HIDE DEF S
<1>3. Append(s, e) \in Seq(S)
  BY <1>1, <1>2, AppendProperties
<1>4. IsList(Append(s, e))
  BY <1>3, SequenceIsList
<1>5. QED
  BY <1>1, <1>2, <1>4, AppendProperties

-----------------------------------------------------------------------------
(* Names: the entry that CHOOSE takes is there.                            *)

\* A set of positions has a first one.
LEMMA FirstOf ==
  ASSUME NEW S, S \subseteq Nat, S # {}
  PROVE  \E i \in S : \A j \in S : i <= j
<1> DEFINE Less == {ss \in Nat \X Nat : ss[1] < ss[2]}
<1>1. IsWellFoundedOn(Less, Nat)
  BY NatLessThanWellFounded DEF OpToRel
<1>2. PICK i \in S : \A j \in S : ~ (<<j, i>> \in Less)
  BY <1>1, WFMin
<1>3. ASSUME NEW j \in S PROVE i <= j
  <2>1. ~ (<<j, i>> \in Less)
    BY <1>2
  <2>2. i \in Nat /\ j \in Nat
    OBVIOUS
  <2>3. ~ (j < i)
    BY <2>1, <2>2
  <2>4. QED
    BY <2>2, <2>3
<1>4. QED
  BY <1>3

\* parse_light_pin gives the pin of an entry, counted from 0, or INVALID_PIN.
LEMMA PinIsDeclared ==
  ASSUME NEW pins, NEW name, IsList(pins)
  PROVE  \/ parse_pin(pins, name) = INVALID
         \/ \E i \in DOMAIN pins : pins[i].name = name /\ parse_pin(pins, name) = pins[i].pin - 1
<1> DEFINE at == {i \in DOMAIN pins : pins[i].name = name}
<1>1. CASE at = {}
  BY <1>1 DEF parse_pin
<1>2. CASE at # {}
  <2>1. at \subseteq Nat
    BY ListForm
  <2>2. \E i \in at : \A j \in at : i <= j
    BY <1>2, <2>1, FirstOf
  <2>3. (CHOOSE i \in at : \A j \in at : i <= j) \in at
    BY <2>2
  <2>4. parse_pin(pins, name) = pins[CHOOSE i \in at : \A j \in at : i <= j].pin - 1
    BY <1>2 DEF parse_pin
  <2>5. QED
    BY <2>3, <2>4
<1>3. QED
  BY <1>1, <1>2

\* get_mode_id gives the place of the name among the modes, counted from 0, or INVALID_MODE.
LEMMA ModeIsDeclared ==
  ASSUME NEW names, NEW name, IsList(names)
  PROVE  \/ get_mode_id(names, name) = INVALID
         \/ /\ get_mode_id(names, name) \in 0 .. Len(names) - 1
            /\ names[get_mode_id(names, name) + 1] = name
<1> DEFINE at == {i \in DOMAIN names : names[i] = name}
<1>1. CASE at = {}
  BY <1>1 DEF get_mode_id
<1>2. CASE at # {}
  <2>1. at \subseteq Nat /\ DOMAIN names = 1 .. Len(names) /\ Len(names) \in Nat
    BY ListForm
  <2>2. \E i \in at : \A j \in at : i <= j
    BY <1>2, <2>1, FirstOf
  <2>3. (CHOOSE i \in at : \A j \in at : i <= j) \in at
    BY <2>2
  <2>4. get_mode_id(names, name) = (CHOOSE i \in at : \A j \in at : i <= j) - 1
    BY <1>2 DEF get_mode_id
  <2>5. QED
    BY <2>1, <2>3, <2>4
<1>3. QED
  BY <1>1, <1>2

-----------------------------------------------------------------------------
(* Conditions and actions: what is not refused is an event, or a command.  *)

\* What parse_condition gives, for a handler that has count modes.
IsCondition(result, count) ==
  /\ result.list \in List
  /\ IsEvent(result.event, count)

\* An event that was just read has no actions.
LEMMA NoCommands == AreCommands(<<>>)
<1>1. <<>> \in Seq({})
  BY EmptySeq
<1>2. IsList(<<>>)
  BY <1>1, SequenceIsList
<1>3. DOMAIN <<>> = {}
  OBVIOUS
<1>4. QED
  BY <1>2, <1>3 DEF AreCommands

\* An event of the device that is not refused, in a mode of the handler's.
LEMMA DeviceEventIsEvent ==
  ASSUME NEW list \in List, NEW pin, NEW high, NEW count \in Nat, NEW mode \in 0 .. count - 1,
         ~IsRefused(DeviceEvent(list, pin, high, mode))
  PROVE  IsCondition(DeviceEvent(list, pin, high, mode), count)
<1> DEFINE result == DeviceEvent(list, pin, high, mode)
<1>1. pin # INVALID
  BY DEF DeviceEvent, IsRefused, Has, Refusal
<1>2. /\ result.list = list
      /\ result.event = [pin |-> pin, high |-> high \/ list = "click", mode |-> mode,
                         actions |-> <<>>]
  BY <1>1 DEF DeviceEvent
<1>3. QED
  BY <1>2, NoCommands DEF IsCondition, IsEvent

\* A mode event that is not refused.
LEMMA ModeEventIsEvent ==
  ASSUME NEW count \in Nat, NEW mode, NEW enabled, mode = INVALID \/ mode \in 0 .. count - 1,
         ~IsRefused(ModeEvent(mode, enabled))
  PROVE  IsCondition(ModeEvent(mode, enabled), count)
<1> DEFINE result == ModeEvent(mode, enabled)
<1>1. mode # INVALID
  BY DEF ModeEvent, IsRefused, Has, Refusal
<1>2. /\ result.list = "modes"
      /\ result.event = [mode |-> mode, enabled |-> enabled, actions |-> <<>>]
  BY <1>1 DEF ModeEvent
<1>3. QED
  BY <1>1, <1>2, NoCommands DEF IsCondition, IsEvent, List

\* A text.
LEMMA TextIsCondition ==
  ASSUME NEW words, NEW names, NEW pinsS, NEW pinsL, IsList(names), names # <<>>,
         ~IsRefused(parse_condition_text(words, names, pinsS, pinsL))
  PROVE  IsCondition(parse_condition_text(words, names, pinsS, pinsL), Len(names))
<1> DEFINE mode == parse_mode_text(words, names)
           text == Before(words, <<"in">>)
           on == is_turned_on(Last(text))
           pin == parse_pin(pinsL, text[1])
           named == get_mode_id(names, text[1])
           result == parse_condition_text(words, names, pinsS, pinsL)
<1>1. Len(names) \in Nat /\ Len(names) > 0
  BY ListForm
<1>2. IsRefused(Refusal)
  BY DEF IsRefused, Has, Refusal
<1>3. mode # INVALID /\ ~(Len(text) < 3)
  BY <1>2 DEF parse_condition_text
<1>4. mode \in 0 .. Len(names) - 1
  <2>1. CASE words = <<>>
    BY <1>3, <2>1 DEF parse_mode_text
  <2>2. CASE words # <<>> /\ Find(words, <<"in">>) = 0
    BY <1>1, <2>2 DEF parse_mode_text
  <2>3. CASE words # <<>> /\ Find(words, <<"in">>) # 0
    <3>1. mode = get_mode_id(names, Head(After(words, <<"in">>)))
      BY <1>3, <2>3 DEF parse_mode_text
    <3>2. QED
      BY <1>3, <3>1, ModeIsDeclared
  <2>4. QED
    BY <2>1, <2>2, <2>3
<1>5. result = CASE text[2] = "mode" -> ModeEvent(named, on)
                 [] text[2] = "sensor" ->
                      DeviceEvent("sensors", parse_pin(pinsS, text[1]), on, mode)
                 [] text[2] \in {"button", "light"} -> DeviceEvent("buttons", pin, on, mode)
                 [] text[2] = "double" -> DeviceEvent("click", pin, on, mode)
                 [] OTHER -> Refusal
  BY <1>3 DEF parse_condition_text
<1>6. named = INVALID \/ named \in 0 .. Len(names) - 1
  BY ModeIsDeclared
<1>7. result # Refusal
  BY <1>2
<1> HIDE DEF mode, text, on, pin, named, result
<1>8. \/ result = ModeEvent(named, on)
      \/ result = DeviceEvent("sensors", parse_pin(pinsS, text[1]), on, mode)
      \/ result = DeviceEvent("buttons", pin, on, mode)
      \/ result = DeviceEvent("click", pin, on, mode)
  BY <1>5, <1>7
<1>9. ~IsRefused(result)
  BY DEF result
<1>10. IsCondition(result, Len(names))
  BY <1>1, <1>4, <1>6, <1>8, <1>9, ModeEventIsEvent, DeviceEventIsEvent DEF List
<1>11. QED
  BY <1>10 DEF result

\* A JSON object.
LEMMA JsonIsCondition ==
  ASSUME NEW node, NEW names, NEW pinsS, NEW pinsL, IsList(names), names # <<>>,
         ~IsRefused(parse_condition_json(node, names, pinsS, pinsL))
  PROVE  IsCondition(parse_condition_json(node, names, pinsS, pinsL), Len(names))
<1> DEFINE mode == IF Has(node, "mode") THEN get_mode_id(names, node.mode) ELSE 0
           result == parse_condition_json(node, names, pinsS, pinsL)
<1>1. Len(names) \in Nat /\ Len(names) > 0
  BY ListForm
<1>2. IsRefused(Refusal)
  BY DEF IsRefused, Has, Refusal
<1>3. mode = INVALID \/ mode \in 0 .. Len(names) - 1
  BY <1>1, ModeIsDeclared
<1>4. /\ mode # INVALID
      /\ \/ result = parse_device_condition(node.device, mode, pinsS, pinsL)
         \/ result = parse_mode_condition(node.mode_change, names)
  BY <1>2 DEF parse_condition_json
<1>5. CASE result = parse_device_condition(node.device, mode, pinsS, pinsL)
  <2>1. \E list \in List : \E pin, high : result = DeviceEvent(list, pin, high, mode)
    BY <1>2, <1>5 DEF parse_device_condition, List
  <2>2. QED
    BY <1>1, <1>3, <1>4, <2>1, DeviceEventIsEvent
<1>6. CASE result = parse_mode_condition(node.mode_change, names)
  <2>1. result = ModeEvent(get_mode_id(names, node.mode_change.name), node.mode_change.to = "on")
    BY <1>2, <1>6 DEF parse_mode_condition
  <2>2. QED
    BY <1>1, <2>1, ModeIsDeclared, ModeEventIsEvent
<1>7. QED
  BY <1>4, <1>5, <1>6

\* Either form.
LEMMA ConditionIsCondition ==
  ASSUME NEW node, NEW names, NEW pinsS, NEW pinsL, IsList(names), names # <<>>,
         ~IsRefused(parse_condition(node, names, pinsS, pinsL))
  PROVE  IsCondition(parse_condition(node, names, pinsS, pinsL), Len(names))
<1> DEFINE result == parse_condition(node, names, pinsS, pinsL)
<1>1. IsRefused(Refusal)
  BY DEF IsRefused, Has, Refusal
<1>2. \/ result = parse_condition_json(node.condition, names, pinsS, pinsL)
      \/ result = parse_condition_text(node.when.words, names, pinsS, pinsL)
  BY <1>1 DEF parse_condition
<1>3. QED
  BY <1>2, JsonIsCondition, TextIsCondition

\* An action: its light is one of those declared.
LEMMA ActionIsCommand ==
  ASSUME NEW words, NEW names, NEW pins, IsList(pins),
         ~IsRefused(parse_action_text(words, names, pins))
  PROVE  LET command == parse_action_text(words, names, pins)
         IN  \/ command.kind = "mode"
             \/ /\ command.kind = "device"
                /\ \E i \in DOMAIN pins : command.light = pins[i].pin - 1
<1> DEFINE timeout == parse_timeout_text(words)
           text == Before(words, <<"with", "delay">>)
           name == text[Len(text) - 1]
           on == is_turned_on(text[Len(text) - 2])
           pin == parse_pin(pins, name)
           command == parse_action_text(words, names, pins)
<1>1. IsRefused(Refusal)
  BY DEF IsRefused, Has, Refusal
<1>2. \/ \E cmd : command = DeviceCommand(cmd, pin, timeout)
      \/ command = ModeCommand(get_mode_id(names, name), on)
  BY <1>1 DEF parse_action_text
<1>3. ASSUME NEW cmd, command = DeviceCommand(cmd, pin, timeout)
      PROVE  command.kind = "device" /\ \E i \in DOMAIN pins : command.light = pins[i].pin - 1
  <2>1. pin # INVALID
    BY <1>1, <1>3 DEF DeviceCommand
  <2>2. command.kind = "device" /\ command.light = pin
    BY <1>3, <2>1 DEF DeviceCommand
  <2>3. QED
    BY <2>1, <2>2, PinIsDeclared
<1>4. CASE command = ModeCommand(get_mode_id(names, name), on)
  BY <1>1, <1>4 DEF ModeCommand
<1>5. QED
  BY <1>2, <1>3, <1>4

-----------------------------------------------------------------------------
(* Every step preserves the parts of IInv.                                 *)

\* Nothing was read.
LEMMA InitIInv == Init => IInv
<1> SUFFICES ASSUME Init PROVE IInv
  OBVIOUS
<1>1. NamesInv
  BY DEF Init, NamesInv
<1>2. EventsInv
  <2>1. events = [list \in List |-> <<>>] /\ IsList(<<>>) /\ DOMAIN <<>> = {}
    BY NoCommands DEF Init, AreCommands
  <2>2. QED
    BY <2>1 DEF EventsInv
<1>3. NodeInv
  BY NoCommands DEF Init, NodeInv
<1>4. QED
  BY <1>1, <1>2, <1>3 DEF Init, IInv, AssertsOnlyForSparsePins

\* modes is <<"all">> and the names of the file.
LEMMA ModesAreNamed ==
  ASSUME NEW entries, IsList(entries)
  PROVE  LET names == <<"all">> \o [i \in DOMAIN entries |-> entries[i].name]
         IN  IsList(names) /\ names # <<>>
<1> DEFINE given == [i \in DOMAIN entries |-> entries[i].name]
           S == {given[i] : i \in DOMAIN given} \cup {"all"}
<1>1. Len(entries) \in Nat /\ DOMAIN entries = 1 .. Len(entries)
  BY ListForm
<1>2. given \in [1 .. Len(entries) -> S]
  BY <1>1
<1> HIDE DEF given
<1>3. given \in Seq(S) /\ <<"all">> \in Seq(S)
  BY <1>1, <1>2
<1> HIDE DEF S
<1>4. /\ <<"all">> \o given \in Seq(S)
      /\ Len(<<"all">> \o given) = 1 + Len(given)
      /\ Len(given) \in Nat
  BY <1>3, ConcatProperties, LenProperties
<1>5. <<"all">> \o given # <<>>
  BY <1>4, EmptySeq
<1>6. QED
  BY <1>4, <1>5, SequenceIsList DEF given

\* The names are read once, each before what is looked up in it.
LEMMA NamesStep == NamesInv /\ NodeInv /\ Next => NamesInv'
<1> SUFFICES ASSUME NamesInv, NodeInv, Next PROVE NamesInv'
  OBVIOUS
<1> USE DEF NamesInv, Ended, nameVars
<1>1. CASE Refuse
  BY <1>1 DEF Refuse
<1>2. CASE InitLightObjects
  <2>1. Has(config, "lights") => Len(config.lights) \in Nat
    BY ConfigurationAssumption, ListForm
  <2>2. QED
    BY <1>1, <1>2, <2>1 DEF InitLightObjects
<1>3. CASE ParseModes
  <2>1. ASSUME Has(config, "modes") PROVE IsList(config.modes)
    BY <2>1, ConfigurationAssumption
  <2>2. CASE ~Refuse
    <3>1. /\ pc = "modes" /\ Has(config, "modes")
          /\ modes' = <<"all">> \o [i \in DOMAIN config.modes |-> config.modes[i].name]
          /\ pc' = "names"
          /\ UNCHANGED <<config, lightCount, sensors, lights>>
      BY <1>3, <2>2 DEF ParseModes
    <3>2. IsList(modes') /\ modes' # <<>>
      BY <2>1, <3>1, ModesAreNamed
    <3>3. QED
      BY <3>1, <3>2
  <2>3. QED
    BY <1>1, <2>2
<1>4. CASE ParsePinNames
  BY <1>1, <1>4 DEF ParsePinNames
<1>5. CASE ParseCondition
  BY <1>1, <1>5 DEF ParseCondition
<1>6. CASE ParseActions
  BY <1>1, <1>6 DEF ParseActions
<1>7. CASE ParseActionsArrayText
  BY <1>7 DEF ParseActionsArrayText
<1>8. CASE ParseActionText
  BY <1>1, <1>8 DEF ParseActionText
<1>9. CASE ParseActionOther
  BY <1>1, <1>9 DEF ParseActionOther
<1>10. CASE ParseActionJson
  BY <1>1, <1>10 DEF ParseActionJson
<1>11. CASE SetActions
  BY <1>11 DEF SetActions
<1>12. CASE \E started \in BOOLEAN : StartTimer(started)
  BY <1>12 DEF StartTimer
<1>13. QED
  BY <1>2, <1>3, <1>4, <1>5, <1>6, <1>7, <1>8, <1>9, <1>10, <1>11, <1>12 DEF Next

\* The event just read goes behind those of its list, and gets its actions where it is.
LEMMA EventsStep == NamesInv /\ EventsInv /\ NodeInv /\ Next => EventsInv'
<1> SUFFICES ASSUME NamesInv, EventsInv, NodeInv, Next PROVE EventsInv'
  OBVIOUS
<1> USE DEF nameVars
<1>1. ASSUME UNCHANGED <<events, modes>>,
             pc' \in {"init", "modes", "names"} => pc \in {"init", "modes", "names"}
      PROVE  EventsInv'
  BY <1>1 DEF EventsInv
<1>2. CASE Refuse
  BY <1>1, <1>2 DEF Refuse
<1>3. CASE InitLightObjects
  BY <1>1, <1>2, <1>3 DEF InitLightObjects
<1>4. CASE ParseModes
  <2>1. CASE pc = "modes" /\ events' = events /\ pc' = "names"
    BY <2>1 DEF EventsInv
  <2>2. QED
    BY <1>2, <1>4, <2>1 DEF ParseModes
<1>5. CASE ParsePinNames
  BY <1>1, <1>2, <1>5 DEF ParsePinNames
<1>6. CASE ParseCondition
  <2> DEFINE result == parse_condition(Node, modes, sensors, lights)
             old == events[result.list]
  <2>1. CASE IsRefused(result)
    BY <1>2, <1>6, <2>1 DEF ParseCondition
  <2>2. CASE ~IsRefused(result)
    <3>1. /\ pc = "condition" /\ pc' = "actions" /\ modes' = modes
          /\ events' = [events EXCEPT ![result.list] = Append(@, result.event)]
      BY <1>6, <2>2 DEF ParseCondition
    <3>2. IsCondition(result, Len(modes))
      BY <2>2, <3>1, ConditionIsCondition DEF NamesInv
    <3> HIDE DEF result
    <3>3. result.list \in List /\ IsEvent(result.event, Len(modes))
      BY <3>2 DEF IsCondition
    <3>4. /\ events' = [list \in List |-> events'[list]]
          /\ \A list \in List : list # result.list => events'[list] = events[list]
          /\ events'[result.list] = Append(old, result.event)
      BY <3>1, <3>3 DEF EventsInv
    <3>5. IsList(old) /\ \A i \in DOMAIN old : IsEvent(old[i], Len(modes))
      BY <3>3 DEF EventsInv
    <3>6. /\ IsList(Append(old, result.event))
          /\ \A i \in DOMAIN Append(old, result.event) :
                IsEvent(Append(old, result.event)[i], Len(modes))
      <4>1. /\ IsList(Append(old, result.event))
            /\ DOMAIN Append(old, result.event) = 1 .. Len(old) + 1
            /\ Len(old) \in Nat /\ DOMAIN old = 1 .. Len(old)
        BY <3>5, AppendList, ListForm
      <4>2. ASSUME NEW i \in 1 .. Len(old) + 1
            PROVE  IsEvent(Append(old, result.event)[i], Len(modes))
        BY <3>3, <3>5, <4>1, AppendList
      <4>3. QED
        BY <4>1, <4>2
    <3>7. QED
      BY <3>1, <3>4, <3>5, <3>6 DEF EventsInv
  <2>3. QED
    BY <2>1, <2>2
<1>7. CASE ParseActions
  BY <1>1, <1>2, <1>7 DEF ParseActions
<1>8. CASE ParseActionsArrayText
  BY <1>1, <1>8 DEF ParseActionsArrayText
<1>9. CASE ParseActionText
  BY <1>1, <1>2, <1>9 DEF ParseActionText
<1>10. CASE ParseActionOther
  BY <1>2, <1>10 DEF ParseActionOther
<1>11. CASE ParseActionJson
  BY <1>1, <1>2, <1>11 DEF ParseActionJson
<1>12. CASE SetActions
  <2> DEFINE old == events[event.list]
             at == event.at
             set == [old[at] EXCEPT !.actions = actions]
  <2>1. /\ pc \in {"text", "json"} /\ pc' = "condition" /\ modes' = modes
        /\ events' = [events EXCEPT ![event.list][event.at].actions = actions]
    BY <1>12 DEF SetActions
  <2>2. event.list \in List /\ at \in DOMAIN old /\ AreCommands(actions)
    BY <2>1 DEF NodeInv
  <2>3. IsList(old) /\ \A i \in DOMAIN old : IsEvent(old[i], Len(modes))
    BY <2>2 DEF EventsInv
  <2>4. IsEvent(set, Len(modes))
    BY <2>2, <2>3 DEF IsEvent
  <2>5. events' = [events EXCEPT ![event.list] = [old EXCEPT ![at] = set]]
    BY <2>1
  <2>6. /\ events' = [list \in List |-> events'[list]]
        /\ \A list \in List : list # event.list => events'[list] = events[list]
        /\ events'[event.list] = [old EXCEPT ![at] = set]
    BY <2>2, <2>5 DEF EventsInv
  <2> HIDE DEF set, old, at
  <2>7. /\ IsList([old EXCEPT ![at] = set])
        /\ \A i \in DOMAIN [old EXCEPT ![at] = set] : IsEvent([old EXCEPT ![at] = set][i], Len(modes))
    <3>1. Len(old) \in Nat /\ DOMAIN old = 1 .. Len(old)
      BY <2>3, ListForm
    <3>2. old \in Seq({old[i] : i \in DOMAIN old} \cup {set})
      BY <2>3, SeqMonotonic DEF IsList
    <3>3. [old EXCEPT ![at] = set] \in Seq({old[i] : i \in DOMAIN old} \cup {set})
      BY <2>2, <3>1, <3>2, ExceptSeq DEF old, at
    <3>4. QED
      BY <2>2, <2>3, <2>4, <3>1, <3>3, SequenceIsList DEF old, at
  <2>8. QED
    BY <2>1, <2>3, <2>6, <2>7 DEF EventsInv
<1>13. CASE \E started \in BOOLEAN : StartTimer(started)
  BY <1>1, <1>13 DEF StartTimer
<1>14. QED
  BY <1>3, <1>4, <1>5, <1>6, <1>7, <1>8, <1>9, <1>10, <1>11, <1>12, <1>13 DEF Next

\* actions are those of the event in hand, which stays where it is until it gets them.
LEMMA NodeStep == NamesInv /\ EventsInv /\ NodeInv /\ Next => NodeInv'
<1> SUFFICES ASSUME NamesInv, EventsInv, NodeInv, Next PROVE NodeInv'
  OBVIOUS
<1> USE DEF NodeInv, nameVars
<1>1. CASE Refuse
  BY <1>1 DEF Refuse
<1>2. CASE InitLightObjects \/ ParseModes \/ ParsePinNames
  BY <1>1, <1>2 DEF InitLightObjects, ParseModes, ParsePinNames
<1>3. CASE ParseCondition
  <2> DEFINE result == parse_condition(Node, modes, sensors, lights)
             old == events[result.list]
  <2>1. CASE IsRefused(result)
    BY <1>1, <1>3, <2>1 DEF ParseCondition
  <2>2. CASE ~IsRefused(result)
    <3>1. /\ pc = "condition" /\ pc' = "actions" /\ ~NoMoreEvents
          /\ events' = [events EXCEPT ![result.list] = Append(@, result.event)]
          /\ event' = [list |-> result.list, at |-> Len(old) + 1]
          /\ UNCHANGED <<config, next, actions>>
      BY <1>3, <2>2 DEF ParseCondition
    <3>2. result.list \in List
      BY <2>2, <3>1, ConditionIsCondition DEF NamesInv, IsCondition
    <3> HIDE DEF result
    <3>3. event'.list \in List /\ events'[event'.list] = Append(old, result.event)
      BY <3>1, <3>2 DEF EventsInv
    <3>4. IsList(old)
      BY <3>2 DEF EventsInv
    <3>5. Len(old) + 1 \in DOMAIN Append(old, result.event)
      <4>1. Len(old) \in Nat
        BY <3>4, ListForm
      <4>2. DOMAIN Append(old, result.event) = 1 .. Len(old) + 1
        BY <3>4, AppendList, ListForm
      <4>3. QED
        BY <4>1, <4>2
    <3>6. event'.at = Len(old) + 1
      BY <3>1
    <3>7. ~NoMoreEvents'
      BY <3>1 DEF NoMoreEvents
    <3>8. QED
      BY <3>1, <3>3, <3>5, <3>6, <3>7
  <2>3. QED
    BY <2>1, <2>2
<1>4. CASE ParseActions
  BY <1>1, <1>4 DEF ParseActions, NoMoreEvents, Node
<1>5. CASE ParseActionsArrayText
  BY <1>5 DEF ParseActionsArrayText, NoMoreEvents
<1>6. CASE ParseActionText
  <2> DEFINE command == parse_action_text(Head(agenda).words, modes, lights)
  <2>1. CASE IsRefused(command)
    BY <1>1, <1>6, <2>1 DEF ParseActionText
  <2>2. CASE ~IsRefused(command)
    <3>1. /\ pc = "text" /\ pc' \in {"text", "assert"}
          /\ actions' \in {actions, Append(actions, command)}
          /\ UNCHANGED <<config, next, event, events>>
      BY <1>6, <2>2 DEF ParseActionText
    <3>2. IsList(config.lights)
      BY <3>1, ConfigurationAssumption DEF NamesInv
    <3>3. command.kind \in {"device", "mode"}
      BY <2>2, <3>1, <3>2, ActionIsCommand DEF NamesInv
    <3> HIDE DEF command
    <3>4. AreCommands(Append(actions, command))
      <4>1. /\ IsList(Append(actions, command))
            /\ DOMAIN Append(actions, command) = 1 .. Len(actions) + 1
            /\ Len(actions) \in Nat /\ DOMAIN actions = 1 .. Len(actions)
        BY AppendList, ListForm DEF AreCommands
      <4>2. ASSUME NEW k \in 1 .. Len(actions) + 1
            PROVE  Append(actions, command)[k].kind \in {"device", "mode"}
        BY <3>3, <4>1, AppendList DEF AreCommands
      <4>3. QED
        BY <4>1, <4>2 DEF AreCommands
    <3>5. QED
      BY <3>1, <3>4 DEF NoMoreEvents
  <2>3. QED
    BY <2>1, <2>2
<1>7. CASE ParseActionOther
  BY <1>1, <1>7 DEF ParseActionOther
<1>8. CASE ParseActionJson
  BY <1>1, <1>8 DEF ParseActionJson
<1>9. CASE SetActions
  BY <1>9, NoCommands DEF SetActions
<1>10. CASE \E started \in BOOLEAN : StartTimer(started)
  BY <1>10 DEF StartTimer
<1>11. QED
  BY <1>2, <1>3, <1>4, <1>5, <1>6, <1>7, <1>8, <1>9, <1>10 DEF Next

\* A text's light is one of those declared, so its object is missing only if its pin is too great.
LEMMA AssertStep ==
  NamesInv /\ NodeInv /\ AssertsOnlyForSparsePins /\ Next => AssertsOnlyForSparsePins'
<1> SUFFICES ASSUME NamesInv, NodeInv, AssertsOnlyForSparsePins, Next, pc' = "assert"
             PROVE  AssertsOnlyForSparsePins'
  BY DEF AssertsOnlyForSparsePins
<1> USE DEF AssertsOnlyForSparsePins, nameVars
<1>1. ~Refuse
  BY DEF Refuse
<1>2. CASE InitLightObjects
  BY <1>1, <1>2 DEF InitLightObjects
<1>3. CASE ParseActionText
  <2> DEFINE command == parse_action_text(Head(agenda).words, modes, lights)
  <2>1. /\ pc = "text" /\ ~IsRefused(command) /\ ~HasLightObject(command)
        /\ UNCHANGED <<config, lightCount>>
    BY <1>1, <1>3 DEF ParseActionText
  <2>2. lights = config.lights /\ Has(config, "lights") /\ lightCount \in Nat
    BY <2>1 DEF NamesInv
  <2>3. IsList(lights) /\ \A i \in DOMAIN lights : lights[i].pin \in Nat
    BY <2>2, ConfigurationAssumption DEF NamesInv
  <2>4. command.kind = "device" /\ ~(command.light < lightCount)
    BY <2>1 DEF HasLightObject
  <2>5. PICK i \in DOMAIN lights : command.light = lights[i].pin - 1
    BY <2>1, <2>3, <2>4, ActionIsCommand
  <2>6. lights[i].pin > lightCount
    BY <2>2, <2>3, <2>4, <2>5
  <2>7. QED
    BY <2>1, <2>2, <2>6
<1>4. CASE ParseActionJson
  <2>1. /\ pc = "json" /\ agenda # <<>>
        /\ UNCHANGED <<config, next>>
    BY <1>1, <1>4 DEF ParseActionJson
  <2>2. /\ Has(Node, "actions") /\ Node.actions.type = "array" /\ Node.actions.items # <<>>
        /\ ~NoMoreEvents /\ next \in Nat \ {0}
    BY <2>1 DEF NodeInv
  <2>3. Has(config, "events") /\ next \in DOMAIN config.events
    <3>1. Has(config, "events")
      BY <2>2 DEF NoMoreEvents
    <3>2. IsList(config.events)
      BY <3>1, ConfigurationAssumption DEF NamesInv
    <3>3. QED
      BY <2>2, <3>1, <3>2, ListForm DEF NoMoreEvents
  <2>4. Meant(next).then # <<>>
    BY <2>2, <2>3, ConfigurationAssumption DEF NamesInv, Node, Meant
  <2>5. QED
    BY <2>1, <2>2, <2>4 DEF Node, Meant
<1>5. QED
  BY <1>1, <1>2, <1>3, <1>4
     DEF Next, ParseModes, ParsePinNames, ParseCondition, ParseActions, ParseActionsArrayText,
         ParseActionOther, SetActions, StartTimer

\* IInv is inductive.
LEMMA NextIInv == IInv /\ [Next]_vars => IInv'
<1> SUFFICES ASSUME IInv, [Next]_vars PROVE IInv'
  OBVIOUS
<1>1. CASE Next
  BY <1>1, NamesStep, EventsStep, NodeStep, AssertStep DEF IInv
<1>2. CASE UNCHANGED vars
  BY <1>2 DEF IInv, vars, nameVars, NamesInv, EventsInv, NodeInv, AssertsOnlyForSparsePins,
              NoMoreEvents, Node, Meant
<1>3. QED
  BY <1>1, <1>2

(***************************************************************************)
(* What was read of the file, and what is left of it, agree in every state.*)
(***************************************************************************)
THEOREM InductiveInvariant == Spec => []IInv
<1>1. QED
  BY InitIInv, NextIInv, PTL DEF Spec

(***************************************************************************)
(* The variables keep their types: an event that was read has a mode of    *)
(* the file or "all", and is where set_actions looks for it.               *)
(***************************************************************************)
THEOREM TypeCorrect == Spec => []TypeOK
<1>1. IInv => TypeOK
  BY DEF IInv, NamesInv, EventsInv, NodeInv, IsEvent, AreCommands, TypeOK
<1>2. QED
  BY <1>1, InductiveInvariant, PTL

(***************************************************************************)
(* Whatever the file says: if it has lights, a text fails the assertion    *)
(* that its light has an object only where a pin is greater than their     *)
(* count.                                                                  *)
(***************************************************************************)
THEOREM TextsAssertOnlyForGaps == Spec => []AssertsOnlyForSparsePins
<1>1. IInv => AssertsOnlyForSparsePins
  BY DEF IInv
<1>2. QED
  BY <1>1, InductiveInvariant, PTL

-----------------------------------------------------------------------------
(* Texts: where the parser finds what an author wrote.                     *)

\* CHOOSE takes the least of a set that has one.
LEMMA LeastIs ==
  ASSUME NEW S, S \subseteq Nat, NEW m \in S, \A j \in S : m <= j
  PROVE  (CHOOSE i \in S : \A j \in S : i <= j) = m
<1> DEFINE least == CHOOSE i \in S : \A j \in S : i <= j
<1>1. least \in S /\ \A j \in S : least <= j
  OBVIOUS
<1> HIDE DEF least
<1>2. least \in Nat /\ m \in Nat /\ least <= m /\ m <= least
  BY <1>1
<1>3. least = m
  BY <1>2
<1>4. QED
  BY <1>3 DEF least

\* A part of a list.
LEMMA PartOfList ==
  ASSUME NEW s, IsList(s), NEW m \in 1 .. Len(s), NEW n \in 1 .. Len(s), m <= n
  PROVE  /\ IsList(SubSeq(s, m, n))
         /\ Len(SubSeq(s, m, n)) = n - m + 1
         /\ \A i \in 1 .. n - m + 1 : SubSeq(s, m, n)[i] = s[m + i - 1]
<1> DEFINE S == {s[i] : i \in DOMAIN s}
<1>1. Len(s) \in Nat /\ DOMAIN s = 1 .. Len(s)
  BY ListForm
<1>2. m \in Int /\ n \in Int /\ m .. n \subseteq DOMAIN s
  BY <1>1
<1>3. \A i \in m .. n : s[i] \in S
  BY <1>2
<1> HIDE DEF S
<1>4. /\ SubSeq(s, m, n) \in Seq(S)
      /\ Len(SubSeq(s, m, n)) = n - m + 1
      /\ \A i \in 1 .. n - m + 1 : SubSeq(s, m, n)[i] = s[m + i - 1]
  BY <1>2, <1>3, SubSeqProperties
<1>5. IsList(SubSeq(s, m, n))
  BY <1>4, SequenceIsList
<1>6. QED
  BY <1>4, <1>5

\* Up to n there is no "in".
LEMMA FindIn ==
  ASSUME NEW words, IsList(words), NEW n \in 3 .. Len(words), \A i \in 2 .. n : words[i] # "in"
  PROVE  /\ n = Len(words) => Find(words, <<"in">>) = 0
         /\ n + 3 <= Len(words) /\ words[n + 1] = "in" => Find(words, <<"in">>) = n + 1
<1> DEFINE places == {i \in 2 .. Len(words) - 1 : SubSeq(words, i, i) = <<"in">>}
<1>1. Len(words) \in Nat
  BY ListForm
<1>2. ASSUME NEW i \in 2 .. Len(words) - 1 PROVE SubSeq(words, i, i) = <<"in">> <=> words[i] = "in"
  <2> DEFINE one == SubSeq(words, i, i)
  <2>1. i \in 1 .. Len(words) /\ i <= i /\ i - i + 1 = 1 /\ i + 1 - 1 = i
    BY <1>1
  <2>2. one \in Seq(Range(one)) /\ Len(one) = 1 /\ one[1] = words[i]
    BY <2>1, PartOfList DEF IsList, Range
  <2> HIDE DEF one
  <2>3. one = <<one[1]>>
    BY <2>2
  <2>4. QED
    BY <2>2, <2>3 DEF one
<1>3. places = {i \in 2 .. Len(words) - 1 : words[i] = "in"}
  BY <1>2
<1>4. Find(words, <<"in">>) =
        IF places = {} THEN 0 ELSE CHOOSE i \in places : \A j \in places : i <= j
  <2> DEFINE all == {i \in 2 .. Len(words) - Len(<<"in">>) :
                       SubSeq(words, i, i + Len(<<"in">>) - 1) = <<"in">>}
  <2>1. Len(<<"in">>) = 1
    OBVIOUS
  <2>2. \A i \in 2 .. Len(words) - 1 : i + Len(<<"in">>) - 1 = i
    BY <1>1, <2>1
  <2>3. places = all
    BY <2>1, <2>2
  <2>4. Find(words, <<"in">>) = IF all = {} THEN 0 ELSE CHOOSE i \in all : \A j \in all : i <= j
    BY DEF Find
  <2> HIDE DEF places, all
  <2>5. QED
    BY <2>3, <2>4
<1> HIDE DEF places
<1>5. CASE n = Len(words)
  <2>1. places = {}
    BY <1>1, <1>3, <1>5
  <2>2. QED
    BY <1>1, <1>4, <1>5, <2>1
<1>6. CASE n + 3 <= Len(words) /\ words[n + 1] = "in"
  <2>1. n + 1 \in places /\ \A j \in places : n + 1 <= j
    BY <1>1, <1>3, <1>6
  <2>2. places \subseteq Nat
    BY <1>1, <1>3
  <2>3. (CHOOSE i \in places : \A j \in places : i <= j) = n + 1
    BY <2>1, <2>2, LeastIs
  <2>4. places # {}
    BY <2>1
  <2>5. Find(words, <<"in">>) = n + 1
    BY <1>4, <2>3, <2>4, Zenon
  <2>6. QED
    BY <1>1, <1>6, <2>5
<1>7. QED
  BY <1>5, <1>6

\* Up to n there is no "with delay".
LEMMA FindWithDelay ==
  ASSUME NEW words, IsList(words), NEW n \in 3 .. Len(words),
         \A i \in 2 .. n - 1 : <<words[i], words[i + 1]>> # <<"with", "delay">>,
         words[n] # "with"
  PROVE  /\ n = Len(words) => Find(words, <<"with", "delay">>) = 0
         /\ n + 4 <= Len(words) /\ words[n + 1] = "with" /\ words[n + 2] = "delay" =>
              Find(words, <<"with", "delay">>) = n + 1
<1> DEFINE phrase == <<"with", "delay">>
           places == {i \in 2 .. Len(words) - 2 : SubSeq(words, i, i + 1) = phrase}
<1>1. Len(words) \in Nat
  BY ListForm
<1>2. ASSUME NEW i \in 2 .. Len(words) - 2
      PROVE  SubSeq(words, i, i + 1) = phrase <=> words[i] = "with" /\ words[i + 1] = "delay"
  <2> DEFINE two == SubSeq(words, i, i + 1)
  <2>1. /\ i \in 1 .. Len(words) /\ i + 1 \in 1 .. Len(words) /\ i <= i + 1
        /\ i + 1 - i + 1 = 2 /\ i + 1 - 1 = i /\ i + 2 - 1 = i + 1
    BY <1>1
  <2>2. /\ two \in Seq(Range(two))
        /\ Len(two) = 2 /\ two[1] = words[i] /\ two[2] = words[i + 1]
    BY <2>1, PartOfList DEF IsList, Range
  <2> HIDE DEF two
  <2>3. two = <<two[1], two[2]>>
    BY <2>2
  <2>4. QED
    BY <2>2, <2>3 DEF two
<1>3. places = {i \in 2 .. Len(words) - 2 : words[i] = "with" /\ words[i + 1] = "delay"}
  BY <1>2
<1>4. Find(words, phrase) =
        IF places = {} THEN 0 ELSE CHOOSE i \in places : \A j \in places : i <= j
  <2> DEFINE all == {i \in 2 .. Len(words) - Len(phrase) :
                       SubSeq(words, i, i + Len(phrase) - 1) = phrase}
  <2>1. Len(phrase) = 2
    OBVIOUS
  <2>2. \A i \in 2 .. Len(words) - 2 : i + Len(phrase) - 1 = i + 1
    BY <1>1, <2>1
  <2>3. places = all
    BY <2>1, <2>2
  <2>4. Find(words, phrase) = IF all = {} THEN 0 ELSE CHOOSE i \in all : \A j \in all : i <= j
    BY DEF Find
  <2> HIDE DEF places, all
  <2>5. QED
    BY <2>3, <2>4
<1> HIDE DEF places
<1>5. \A i \in places : i > n
  BY <1>1, <1>3
<1>6. CASE n = Len(words)
  <2>1. places = {}
    BY <1>1, <1>3, <1>5, <1>6
  <2>2. QED
    BY <1>1, <1>4, <1>6, <2>1
<1>7. CASE n + 4 <= Len(words) /\ words[n + 1] = "with" /\ words[n + 2] = "delay"
  <2>1. n + 1 \in places
    BY <1>1, <1>3, <1>7
  <2>2. places \subseteq Nat
    BY <1>1, <1>3
  <2>3. \A j \in places : n + 1 <= j
    BY <1>1, <1>5, <2>2
  <2>4. (CHOOSE i \in places : \A j \in places : i <= j) = n + 1
    BY <2>1, <2>2, <2>3, LeastIs
  <2>5. places # {}
    BY <2>1
  <2>6. Find(words, phrase) = n + 1
    BY <1>4, <2>4, <2>5, Zenon
  <2>7. QED
    BY <1>1, <1>7, <2>6
<1>8. QED
  BY <1>6, <1>7

\* Head of a list.
LEMMA HeadIsFirst == ASSUME NEW s, IsList(s), Len(s) > 0 PROVE Head(s) = s[1]
<1>1. s \in Seq({s[i] : i \in DOMAIN s}) /\ s # <<>>
  BY ListForm DEF IsList
<1>2. QED
  BY <1>1

\* The first n words, and what begins at word n, with more to come.
IsUpTo(text, words, n) ==
  /\ IsList(text) /\ Len(text) = n
  /\ \A i \in 1 .. n : text[i] = words[i]
IsFrom(rest, words, n) == IsList(rest) /\ Len(rest) >= 2 /\ rest[1] = words[n]

\* The text up to n, and what comes after the phrase behind it.
LEMMA PartsOf ==
  ASSUME NEW words, NEW phrase, NEW n \in 3 .. Len(words), IsList(words), Len(phrase) \in 1 .. 2,
         \/ n = Len(words) /\ Find(words, phrase) = 0
         \/ n + Len(phrase) + 2 <= Len(words) /\ Find(words, phrase) = n + 1
  PROVE  /\ IsUpTo(Before(words, phrase), words, n)
         /\ Last(Before(words, phrase)) = words[n]
         /\ Find(words, phrase) # 0 => IsFrom(After(words, phrase), words, n + Len(phrase) + 1)
<1> DEFINE text == Before(words, phrase)
           rest == After(words, phrase)
<1>1. Len(words) \in Nat
  BY ListForm
<1>2. /\ IsList(text) /\ Len(text) = n
      /\ \A i \in 1 .. n : text[i] = words[i]
  <2>1. CASE n = Len(words) /\ Find(words, phrase) = 0
    BY <2>1 DEF Before
  <2>2. CASE Find(words, phrase) = n + 1
    <3>1. text = SubSeq(words, 1, n)
      BY <1>1, <2>2 DEF Before
    <3>2. 1 \in 1 .. Len(words) /\ n \in 1 .. Len(words) /\ 1 <= n /\ n - 1 + 1 = n
      BY <1>1
    <3>3. \A i \in 1 .. n : 1 + i - 1 = i
      BY <1>1
    <3>4. QED
      BY <3>1, <3>2, <3>3, PartOfList
  <2>3. QED
    BY <2>1, <2>2
<1>3. Last(text) = words[n]
  BY <1>1, <1>2 DEF Last
<1>4. ASSUME n + Len(phrase) + 2 <= Len(words), Find(words, phrase) = n + 1
      PROVE  IsList(rest) /\ Len(rest) >= 2 /\ rest[1] = words[n + Len(phrase) + 1]
  <2> DEFINE m == n + Len(phrase) + 1
  <2>1. m \in 1 .. Len(words) /\ Len(words) \in 1 .. Len(words) /\ m <= Len(words)
    BY <1>1, <1>4
  <2>2. rest = SubSeq(words, m, Len(words))
    <3>1. n + 1 + Len(phrase) = m
      BY <1>1
    <3> HIDE DEF m
    <3>2. QED
      BY <1>4, <3>1, Zenon DEF After
  <2>3. Len(words) - m + 1 >= 2 /\ 1 \in 1 .. Len(words) - m + 1 /\ m + 1 - 1 = m
    BY <1>1, <1>4
  <2> HIDE DEF m
  <2>4. IsList(rest) /\ Len(rest) >= 2 /\ rest[1] = words[m]
    BY <2>1, <2>2, <2>3, PartOfList
  <2>5. QED
    BY <2>4 DEF m
<1>5. QED
  BY <1>1, <1>2, <1>3, <1>4 DEF IsUpTo, IsFrom

-----------------------------------------------------------------------------
(* Names: what is declared is found, and nothing else.                     *)

\* parse_sensor_pin and parse_light_pin, where pins are counted from 1.
LEMMA PinIsFound ==
  ASSUME NEW pins, NEW name, IsList(pins), \A i \in DOMAIN pins : pins[i].pin \in Nat \ {0}
  PROVE  /\ parse_pin(pins, name) = INVALID <=> ~ \E i \in DOMAIN pins : pins[i].name = name
         /\ parse_pin(pins, name) # INVALID =>
              \E i \in DOMAIN pins : pins[i].name = name /\ pins[i].pin = parse_pin(pins, name) + 1
<1> DEFINE at == {i \in DOMAIN pins : pins[i].name = name}
           pin == parse_pin(pins, name)
<1>1. CASE at = {}
  BY <1>1 DEF parse_pin
<1>2. CASE at # {}
  <2>1. at \subseteq Nat
    BY ListForm
  <2>2. \E i \in at : \A j \in at : i <= j
    BY <1>2, <2>1, FirstOf
  <2>3. (CHOOSE i \in at : \A j \in at : i <= j) \in at
    BY <2>2
  <2>4. pin = pins[CHOOSE i \in at : \A j \in at : i <= j].pin - 1
    BY <1>2 DEF parse_pin
  <2>5. PICK i \in DOMAIN pins : pins[i].name = name /\ pin = pins[i].pin - 1
    BY <2>3, <2>4
  <2> HIDE DEF pin
  <2>6. pin # INVALID /\ pins[i].pin = pin + 1
    BY <2>5 DEF INVALID
  <2>7. QED
    BY <2>5, <2>6 DEF pin
<1>3. QED
  BY <1>1, <1>2

\* get_mode_id, where modes is <<"all">> and the names of the file.
LEMMA ModeIsFound ==
  ASSUME NEW entries, NEW name, IsList(entries)
  PROVE  LET names == <<"all">> \o [i \in DOMAIN entries |-> entries[i].name]
             mode == get_mode_id(names, name)
         IN  /\ mode = INVALID <=> name # "all" /\ ~ \E i \in DOMAIN entries : entries[i].name = name
             /\ name = "all" => mode = 0
             /\ name # "all" /\ mode # INVALID =>
                  mode \in DOMAIN entries /\ entries[mode].name = name
<1> DEFINE given == [i \in DOMAIN entries |-> entries[i].name]
           S == {given[i] : i \in DOMAIN given} \cup {"all"}
           names == <<"all">> \o given
           mode == get_mode_id(names, name)
           at == {i \in DOMAIN names : names[i] = name}
<1>1. Len(entries) \in Nat /\ DOMAIN entries = 1 .. Len(entries)
  BY ListForm
<1>2. given \in [1 .. Len(entries) -> S]
  BY <1>1
<1>3. \A i \in 1 .. Len(entries) : given[i] = entries[i].name
  BY <1>1
<1> HIDE DEF given
<1>4. given \in Seq(S) /\ Len(given) = Len(entries) /\ <<"all">> \in Seq(S)
  BY <1>1, <1>2
<1> HIDE DEF S
<1>5. /\ names \in Seq(S)
      /\ Len(names) = 1 + Len(entries)
      /\ \A i \in 1 .. 1 + Len(entries) :
            names[i] = IF i <= 1 THEN <<"all">>[i] ELSE given[i - 1]
  BY <1>1, <1>4, ConcatProperties
<1>6. DOMAIN names = 1 .. 1 + Len(entries) /\ names[1] = "all"
  BY <1>1, <1>5
<1>7. \A i \in 1 .. Len(entries) : i + 1 \in DOMAIN names /\ names[i + 1] = entries[i].name
  BY <1>1, <1>3, <1>5, <1>6
<1> HIDE DEF names
<1>8. CASE at = {}
  <2>1. mode = INVALID
    BY <1>8 DEF get_mode_id
  <2>2. name # "all" /\ ~ \E i \in DOMAIN entries : entries[i].name = name
    BY <1>1, <1>6, <1>7, <1>8
  <2>3. QED
    BY <2>1, <2>2 DEF names, given
<1>9. CASE at # {}
  <2> DEFINE first == CHOOSE i \in at : \A j \in at : i <= j
  <2>1. at \subseteq Nat
    BY <1>1, <1>6
  <2>2. \E i \in at : \A j \in at : i <= j
    BY <1>9, <2>1, FirstOf
  <2>3. first \in at /\ \A j \in at : first <= j
    BY <2>2
  <2>4. mode = first - 1
    BY <1>9 DEF get_mode_id
  <2> HIDE DEF first, mode
  <2>5. first \in 1 .. 1 + Len(entries) /\ names[first] = name
    BY <1>6, <2>3
  <2>6. mode # INVALID
    BY <1>1, <2>4, <2>5 DEF INVALID
  <2>7. name = "all" => mode = 0
    <3>1. ASSUME name = "all" PROVE first = 1
      BY <1>1, <1>6, <2>3, <2>5, <3>1
    <3>2. QED
      BY <2>4, <3>1
  <2>8. name # "all" => mode \in 1 .. Len(entries) /\ entries[mode].name = name
    <3>1. SUFFICES ASSUME name # "all"
                   PROVE  mode \in 1 .. Len(entries) /\ entries[mode].name = name
      OBVIOUS
    <3>2. first # 1
      BY <1>6, <2>5, <3>1
    <3>3. mode \in 1 .. Len(entries) /\ mode + 1 = first
      BY <1>1, <2>4, <2>5, <3>2
    <3>4. QED
      BY <1>7, <2>5, <3>3
  <2>9. QED
    BY <1>1, <2>6, <2>7, <2>8 DEF mode, names, given
<1>10. QED
  BY <1>8, <1>9

\* What init read of the names, when it comes to the events.
NamesAreRead ==
  /\ NamesAreGiven
  /\ modes = <<"all">> \o [i \in DOMAIN config.modes |-> config.modes[i].name]
  /\ sensors = config.sensors
  /\ lights = config.lights

\* A mode of the file has its number, and "all" is 0.
LEMMA ModeIsRead ==
  ASSUME config \in Configurations, NamesAreRead, NEW name
  PROVE  LET mode == get_mode_id(modes, name)
         IN  /\ mode = INVALID <=> name # "all" /\ ~Knows("modes", name)
             /\ mode # INVALID => IsMode(mode, name)
<1>1. Has(config, "modes") /\ IsList(config.modes)
  BY ConfigurationAssumption DEF NamesAreRead, NamesAreGiven
<1> DEFINE mode == get_mode_id(modes, name)
<1>2. /\ mode = INVALID <=>
           name # "all" /\ ~ \E i \in DOMAIN config.modes : config.modes[i].name = name
      /\ name = "all" => mode = 0
      /\ name # "all" /\ mode # INVALID =>
           mode \in DOMAIN config.modes /\ config.modes[mode].name = name
  <2> DEFINE names == <<"all">> \o [i \in DOMAIN config.modes |-> config.modes[i].name]
             found == get_mode_id(names, name)
  <2>1. /\ found = INVALID <=>
             name # "all" /\ ~ \E i \in DOMAIN config.modes : config.modes[i].name = name
        /\ name = "all" => found = 0
        /\ name # "all" /\ found # INVALID =>
             found \in DOMAIN config.modes /\ config.modes[found].name = name
    BY <1>1, ModeIsFound
  <2>2. names = modes
    BY DEF NamesAreRead
  <2> HIDE DEF names
  <2>3. QED
    BY <2>1, <2>2
<1> HIDE DEF mode
<1>3. /\ mode = INVALID <=> name # "all" /\ ~Knows("modes", name)
      /\ mode # INVALID => IsMode(mode, name)
  BY <1>1, <1>2 DEF Knows, IsMode
<1>4. QED
  BY <1>3 DEF mode

\* A sensor or light of the file has its pin.
LEMMA PinIsRead ==
  ASSUME config \in Configurations, NamesAreRead, NEW member \in {"sensors", "lights"}, NEW name
  PROVE  LET pin == parse_pin(config[member], name)
         IN  /\ pin = INVALID <=> ~Knows(member, name)
             /\ pin # INVALID => IsPin(pin, member, name)
<1>1. Has(config, member)
  BY DEF NamesAreRead, NamesAreGiven
<1>2. IsList(config[member]) /\ \A i \in DOMAIN config[member] : config[member][i].pin \in Nat \ {0}
  BY <1>1, AuthorAssumption
<1>3. QED
  BY <1>1, <1>2, PinIsFound DEF Knows, IsPin

\* A node that denotes a device of the file has the pin of it.
LEMMA DeviceIsRead ==
  ASSUME config \in Configurations, NamesAreRead, NEW device, NEW meant,
         NEW member \in {"sensors", "lights"},
         member = IF meant.what = "sensor" THEN "sensors" ELSE "lights",
         Denotes(config, device, meant)
  PROVE  LET pin == parse_pin_node(config[member], device)
         IN  /\ pin = INVALID <=> ~Knows(member, meant.name)
             /\ pin # INVALID => IsPin(pin, member, meant.name)
<1>1. Has(config, member)
  BY DEF NamesAreRead, NamesAreGiven
<1>2. \A i \in DOMAIN config[member] : config[member][i].pin \in Nat \ {0}
  BY <1>1, AuthorAssumption
<1>3. CASE Has(device, "pin")
  <2>1. PICK i \in DOMAIN config[member] :
               config[member][i].name = meant.name /\ config[member][i].pin = device.pin
    BY <1>3 DEF Denotes
  <2>2. parse_pin_node(config[member], device) = device.pin - 1 /\ device.pin \in Nat \ {0}
    BY <1>2, <1>3, <2>1 DEF parse_pin_node
  <2>3. device.pin - 1 # INVALID /\ device.pin - 1 + 1 = device.pin
    BY <2>2 DEF INVALID
  <2>4. QED
    BY <1>1, <2>1, <2>2, <2>3 DEF Knows, IsPin
<1>4. CASE ~Has(device, "pin")
  <2>1. parse_pin_node(config[member], device) = parse_pin(config[member], meant.name)
    BY <1>4 DEF Denotes, parse_pin_node
  <2>2. QED
    BY <2>1, PinIsRead
<1>5. QED
  BY <1>3, <1>4

-----------------------------------------------------------------------------
(* Conditions and actions: the parser reads what the author says.          *)

\* The members of an event of a mode, and of a device.
HasMembers(built, meant) ==
  (IF meant.what = "mode" THEN {"mode", "enabled", "actions"} ELSE {"pin", "high", "mode", "actions"})
    \subseteq DOMAIN built

\* A condition is refused unless it is clear, and otherwise goes to its list as it is meant.
ReadsAs(result, clear, list, meant) ==
  /\ IsRefused(result) <=> ~clear
  /\ ~IsRefused(result) => /\ result.list = list
                           /\ HasMembers(result.event, meant)
                           /\ ConditionIsMeant(result.event, meant)

\* What a condition names is declared.
NamesDeclared(meant) ==
  /\ Knows(Member(meant.what), meant.name)
  /\ meant.mode # "all" => Knows("modes", meant.mode)

\* An event of a device, in a mode that is known.
LEMMA DeviceEventIsRead ==
  ASSUME NEW meant, NEW list, NEW pin, NEW high \in BOOLEAN, NEW mode,
         meant.what # "mode",
         pin = INVALID <=> ~Knows(Member(meant.what), meant.name),
         pin # INVALID => IsPin(pin, Member(meant.what), meant.name),
         meant.what # "double" => list # "click" /\ high = meant.on,
         meant.mode # "all" => Knows("modes", meant.mode),
         IsMode(mode, meant.mode)
  PROVE  ReadsAs(DeviceEvent(list, pin, high, mode), NamesDeclared(meant), list, meant)
<1> DEFINE result == DeviceEvent(list, pin, high, mode)
<1>1. CASE pin = INVALID
  BY <1>1 DEF DeviceEvent, Refusal, IsRefused, Has, ReadsAs, NamesDeclared
<1>2. CASE pin # INVALID
  <2>1. result = [list |-> list, event |-> [pin |-> pin, high |-> high \/ list = "click",
                                            mode |-> mode, actions |-> <<>>]]
    BY <1>2 DEF DeviceEvent
  <2> HIDE DEF result
  <2>2. /\ ~IsRefused(result) /\ result.list = list
        /\ result.event.pin = pin /\ result.event.mode = mode
        /\ list # "click" => result.event.high = high
        /\ HasMembers(result.event, meant)
    BY <2>1 DEF IsRefused, Has, HasMembers
  <2>3. ConditionIsMeant(result.event, meant)
    BY <1>2, <2>2 DEF ConditionIsMeant
  <2>4. NamesDeclared(meant)
    BY <1>2 DEF NamesDeclared
  <2>5. QED
    BY <2>2, <2>3, <2>4 DEF ReadsAs, result
<1>3. QED
  BY <1>1, <1>2

\* An event of a mode.
LEMMA ModeEventIsRead ==
  ASSUME config \in Configurations, NamesAreRead, NEW meant, NEW on \in BOOLEAN,
         meant.what = "mode", meant.name # "all", on = meant.on,
         meant.mode # "all" => Knows("modes", meant.mode)
  PROVE  ReadsAs(ModeEvent(get_mode_id(modes, meant.name), on), NamesDeclared(meant), "modes", meant)
<1> DEFINE mode == get_mode_id(modes, meant.name)
           result == ModeEvent(mode, on)
<1>1. /\ mode = INVALID <=> ~Knows("modes", meant.name)
      /\ mode # INVALID => IsMode(mode, meant.name)
  BY ModeIsRead
<1>2. Member(meant.what) = "modes"
  BY DEF Member
<1> HIDE DEF mode
<1>3. CASE mode = INVALID
  BY <1>1, <1>2, <1>3 DEF ModeEvent, Refusal, IsRefused, Has, ReadsAs, NamesDeclared, mode
<1>4. CASE mode # INVALID
  <2>1. result = [list |-> "modes", event |-> [mode |-> mode, enabled |-> on, actions |-> <<>>]]
    BY <1>4 DEF ModeEvent
  <2> HIDE DEF result
  <2>2. /\ ~IsRefused(result) /\ result.list = "modes"
        /\ result.event.mode = mode /\ result.event.enabled = on
        /\ HasMembers(result.event, meant)
    BY <2>1 DEF IsRefused, Has, HasMembers
  <2>3. ConditionIsMeant(result.event, meant)
    BY <1>1, <1>4, <2>2 DEF ConditionIsMeant
  <2>4. NamesDeclared(meant)
    BY <1>1, <1>2, <1>4 DEF NamesDeclared
  <2>5. QED
    BY <2>2, <2>3, <2>4 DEF ReadsAs, result, mode
<1>5. QED
  BY <1>3, <1>4

\* A refusal, of a condition that is not clear.
LEMMA RefusalIsRead ==
  ASSUME NEW meant, NEW list, ~NamesDeclared(meant)
  PROVE  ReadsAs(Refusal, NamesDeclared(meant), list, meant)
BY DEF ReadsAs, Refusal, IsRefused, Has

\* A text.  A light in it is watched by its button.
LEMMA TextIsRead ==
  ASSUME config \in Configurations, NamesAreRead, NEW words, NEW meant,
         meant.what \in {"sensor", "button", "light", "double", "mode"},
         <<meant.what, meant.name>> # <<"mode", "all">>,
         ConditionTextSays(words, meant)
  PROVE  ReadsAs(parse_condition_text(words, modes, sensors, lights), NamesDeclared(meant),
                 CASE meant.what = "mode" -> "modes" [] meant.what = "sensor" -> "sensors"
                   [] meant.what = "double" -> "click" [] OTHER -> "buttons",
                 meant)
<1> DEFINE mode == parse_mode_text(words, modes)
           text == Before(words, <<"in">>)
           on == is_turned_on(Last(text))
           pin == parse_pin(lights, text[1])
           result == parse_condition_text(words, modes, sensors, lights)
           list == CASE meant.what = "mode" -> "modes" [] meant.what = "sensor" -> "sensors"
                     [] meant.what = "double" -> "click" [] OTHER -> "buttons"
<1>1. PICK n \in 3 .. Len(words) :
         /\ words[1] = meant.name /\ words[2] = meant.what
         /\ meant.what # "double" => meant.on = is_turned_on(words[n])
         /\ \A i \in 2 .. n : words[i] # "in"
         /\ \/ n = Len(words) /\ meant.mode = "all"
            \/ n + 3 <= Len(words) /\ words[n + 1] = "in" /\ words[n + 2] = meant.mode
  BY DEF ConditionTextSays
<1>2. IsList(words) /\ Len(words) \in Nat /\ words # <<>>
  <2>1. IsList(words)
    BY DEF ConditionTextSays
  <2>2. QED
    BY <1>1, <2>1, ListForm
<1>3. \/ n = Len(words) /\ Find(words, <<"in">>) = 0 /\ meant.mode = "all"
      \/ n + 3 <= Len(words) /\ Find(words, <<"in">>) = n + 1 /\ words[n + 2] = meant.mode
  BY <1>1, <1>2, FindIn
<1>4. /\ Len(text) = n /\ text[1] = meant.name /\ text[2] = meant.what /\ Last(text) = words[n]
      /\ Find(words, <<"in">>) # 0 =>
           /\ IsList(After(words, <<"in">>)) /\ Len(After(words, <<"in">>)) >= 2
           /\ After(words, <<"in">>)[1] = words[n + 2]
  <2> DEFINE phrase == <<"in">>
  <2>1. Len(phrase) = 1 /\ Len(phrase) \in 1 .. 2
    OBVIOUS
  <2> HIDE DEF phrase
  <2>2. \/ n = Len(words) /\ Find(words, phrase) = 0
        \/ n + Len(phrase) + 2 <= Len(words) /\ Find(words, phrase) = n + 1
    <3>1. n + Len(phrase) + 2 = n + 3
      BY <1>2, <2>1
    <3>2. QED
      BY <1>3, <3>1 DEF phrase
  <2>3. /\ IsUpTo(Before(words, phrase), words, n)
        /\ Last(Before(words, phrase)) = words[n]
        /\ Find(words, phrase) # 0 => IsFrom(After(words, phrase), words, n + Len(phrase) + 1)
    BY <1>2, <2>1, <2>2, PartsOf
  <2>4. 1 \in 1 .. n /\ 2 \in 1 .. n /\ n + Len(phrase) + 1 = n + 2
    BY <1>2, <2>1
  <2>5. QED
    BY <1>1, <2>3, <2>4 DEF phrase, IsUpTo, IsFrom
<1>5. /\ mode = INVALID <=> meant.mode # "all" /\ ~Knows("modes", meant.mode)
      /\ mode # INVALID => IsMode(mode, meant.mode)
  <2>1. CASE Find(words, <<"in">>) = 0
    <3>1. mode = 0 /\ meant.mode = "all"
      BY <1>2, <1>3, <2>1 DEF parse_mode_text
    <3>2. QED
      BY <3>1 DEF INVALID, IsMode
  <2>2. CASE Find(words, <<"in">>) # 0
    <3>1. Head(After(words, <<"in">>)) = meant.mode /\ ~(Len(After(words, <<"in">>)) < 2)
      <4>1. words[n + 2] = meant.mode
        BY <1>2, <1>3, <2>2
      <4>2. Len(After(words, <<"in">>)) \in Nat /\ Len(After(words, <<"in">>)) >= 2
        BY <1>4, <2>2, ListForm
      <4>3. QED
        BY <1>4, <2>2, <4>1, <4>2, HeadIsFirst
    <3>2. mode = get_mode_id(modes, meant.mode)
      BY <1>2, <2>2, <3>1 DEF parse_mode_text
    <3>3. QED
      BY <3>2, ModeIsRead
  <2>3. QED
    BY <2>1, <2>2
<1>6. ~(Len(text) < 3)
  BY <1>2, <1>4
<1>7. on \in BOOLEAN /\ (meant.what # "double" => on = meant.on)
  BY <1>1, <1>4 DEF is_turned_on
<1>8. CASE mode = INVALID
  <2>1. result = Refusal
    BY <1>8 DEF parse_condition_text
  <2>2. ~NamesDeclared(meant)
    BY <1>5, <1>8 DEF NamesDeclared
  <2>3. QED
    BY <2>1, <2>2, RefusalIsRead
<1>9. CASE mode # INVALID
  <2>1. result = CASE meant.what = "mode" -> ModeEvent(get_mode_id(modes, meant.name), on)
                   [] meant.what = "sensor" ->
                        DeviceEvent("sensors", parse_pin(sensors, meant.name), on, mode)
                   [] meant.what \in {"button", "light"} ->
                        DeviceEvent("buttons", parse_pin(lights, meant.name), on, mode)
                   [] meant.what = "double" ->
                        DeviceEvent("click", parse_pin(lights, meant.name), on, mode)
                   [] OTHER -> Refusal
    BY <1>4, <1>6, <1>9 DEF parse_condition_text
  <2>2. IsMode(mode, meant.mode) /\ (meant.mode # "all" => Knows("modes", meant.mode))
    BY <1>5, <1>9
  <2> HIDE DEF mode, on, result, text
  <2>3. CASE meant.what = "mode"
    <3>1. result = ModeEvent(get_mode_id(modes, meant.name), on) /\ list = "modes"
      BY <2>1, <2>3
    <3>2. QED
      BY <1>7, <2>2, <2>3, <3>1, ModeEventIsRead DEF result
  <2>4. CASE meant.what = "sensor"
    <3>1. result = DeviceEvent("sensors", parse_pin(config.sensors, meant.name), on, mode)
          /\ list = "sensors" /\ Member(meant.what) = "sensors"
      BY <2>1, <2>4 DEF NamesAreRead, Member
    <3>2. QED
      BY <1>7, <2>2, <2>4, <3>1, PinIsRead, DeviceEventIsRead DEF result
  <2>5. CASE meant.what \in {"button", "light", "double"}
    <3>1. result = DeviceEvent(list, parse_pin(config.lights, meant.name), on, mode)
          /\ list = (IF meant.what = "double" THEN "click" ELSE "buttons")
          /\ Member(meant.what) = "lights"
      BY <2>1, <2>5 DEF NamesAreRead, Member
    <3>2. QED
      BY <1>7, <2>2, <2>5, <3>1, PinIsRead, DeviceEventIsRead DEF result
  <2>6. QED
    BY <2>3, <2>4, <2>5
<1>10. QED
  BY <1>8, <1>9

\* The state a device is compared with is high or low.
LEMMA StateIsBoolean == ASSUME NEW state PROVE get_sensor_state(state) \in BOOLEAN
<1>1. CASE Has(state, "text")
  <2>1. get_sensor_state(state) = is_turned_on(state.text)
    BY <1>1 DEF get_sensor_state
  <2>2. is_turned_on(state.text) \in BOOLEAN
    BY DEF is_turned_on
  <2>3. QED
    BY <2>1, <2>2
<1>2. CASE ~Has(state, "text")
  <2>1. get_sensor_state(state) = (state.number = 1)
    BY <1>2 DEF get_sensor_state
  <2>2. (state.number = 1) \in BOOLEAN
    OBVIOUS
  <2>3. QED
    BY <2>1, <2>2
<1>3. QED
  BY <1>1, <1>2

\* A JSON object.  A light in it has its own list.
LEMMA JsonIsRead ==
  ASSUME config \in Configurations, NamesAreRead, NEW node, NEW meant,
         meant.what \in {"sensor", "button", "light", "double", "mode"},
         <<meant.what, meant.name>> # <<"mode", "all">>,
         ConditionJsonSays(config, node, meant)
  PROVE  ReadsAs(parse_condition_json(node, modes, sensors, lights), NamesDeclared(meant),
                 CASE meant.what = "mode" -> "modes" [] meant.what = "sensor" -> "sensors"
                   [] meant.what = "double" -> "click" [] meant.what = "light" -> "lights"
                   [] OTHER -> "buttons",
                 meant)
<1> DEFINE mode == IF Has(node, "mode") THEN get_mode_id(modes, node.mode) ELSE 0
           result == parse_condition_json(node, modes, sensors, lights)
           list == CASE meant.what = "mode" -> "modes" [] meant.what = "sensor" -> "sensors"
                     [] meant.what = "double" -> "click" [] meant.what = "light" -> "lights"
                     [] OTHER -> "buttons"
<1>1. /\ mode = INVALID <=> meant.mode # "all" /\ ~Knows("modes", meant.mode)
      /\ mode # INVALID => IsMode(mode, meant.mode)
  <2>1. CASE Has(node, "mode")
    <3>1. mode = get_mode_id(modes, meant.mode)
      BY <2>1 DEF ConditionJsonSays
    <3>2. QED
      BY <3>1, ModeIsRead
  <2>2. CASE ~Has(node, "mode")
    <3>1. mode = 0 /\ meant.mode = "all"
      BY <2>2 DEF ConditionJsonSays
    <3>2. QED
      BY <3>1 DEF INVALID, IsMode
  <2>3. QED
    BY <2>1, <2>2
<1>2. CASE mode = INVALID
  <2>1. result = Refusal
    BY <1>2 DEF parse_condition_json
  <2>2. ~NamesDeclared(meant)
    BY <1>1, <1>2 DEF NamesDeclared
  <2>3. QED
    BY <2>1, <2>2, RefusalIsRead
<1>3. CASE mode # INVALID /\ meant.what = "mode"
  <2>1. /\ ~Has(node, "device") /\ Has(node, "mode_change")
        /\ Has(node.mode_change, "name") /\ Has(node.mode_change, "to")
        /\ node.mode_change.name = meant.name
        /\ meant.on = (node.mode_change.to = "on")
    BY <1>3 DEF ConditionJsonSays, Has
  <2>2. result = parse_mode_condition(node.mode_change, modes)
    BY <1>3, <2>1 DEF parse_condition_json
  <2>3. result = ModeEvent(get_mode_id(modes, meant.name), node.mode_change.to = "on")
    BY <2>1, <2>2 DEF parse_mode_condition
  <2>4. list = "modes" /\ meant.name # "all"
    BY <1>3
  <2>5. meant.mode # "all" => Knows("modes", meant.mode)
    BY <1>1, <1>3
  <2>6. (node.mode_change.to = "on") \in BOOLEAN
    OBVIOUS
  <2> HIDE DEF result, list, mode
  <2>7. QED
    BY <1>3, <2>1, <2>3, <2>4, <2>5, <2>6, ModeEventIsRead DEF result, list
<1>4. CASE mode # INVALID /\ meant.what # "mode"
  <2> DEFINE device == node.device
             high == get_sensor_state(device.state)
             pins == IF meant.what = "sensor" THEN "sensors" ELSE "lights"
             pin == parse_pin_node(config[pins], device)
  <2>1. /\ Has(node, "device") /\ Has(device, "type") /\ Has(device, "state")
        /\ device.type = IF meant.what = "double" THEN "double click" ELSE meant.what
        /\ meant.what # "double" => meant.on = high
        /\ Denotes(config, device, meant)
    BY <1>4 DEF ConditionJsonSays, Has
  <2>2. result = parse_device_condition(device, mode, sensors, lights)
    BY <1>4, <2>1 DEF parse_condition_json
  <2>3. result = DeviceEvent(list, pin, high, mode)
    <3>1. config["sensors"] = sensors /\ config["lights"] = lights
      BY DEF NamesAreRead
    <3> HIDE DEF device, mode, result
    <3>2. QED
      BY <1>4, <2>1, <2>2, <3>1 DEF parse_device_condition
  <2>4. pins \in {"sensors", "lights"} /\ Member(meant.what) = pins
    BY <1>4 DEF Member
  <2>5. /\ pin = INVALID <=> ~Knows(pins, meant.name)
        /\ pin # INVALID => IsPin(pin, pins, meant.name)
    <3> HIDE DEF device
    <3>1. QED
      BY <2>1, DeviceIsRead
  <2>6. high \in BOOLEAN
    BY StateIsBoolean
  <2>7. meant.what # "double" => list # "click"
    BY <1>4
  <2>8. IsMode(mode, meant.mode) /\ (meant.mode # "all" => Knows("modes", meant.mode))
    BY <1>1, <1>4
  <2> HIDE DEF device, high, pins, pin, list, mode, result
  <2>9. QED
    BY <1>4, <2>1, <2>3, <2>4, <2>5, <2>6, <2>7, <2>8, DeviceEventIsRead DEF result, list
<1>5. QED
  BY <1>2, <1>3, <1>4

\* The node of an event, in either form.
LEMMA ConditionIsRead ==
  ASSUME config \in Configurations, NamesAreRead, Has(config, "events"), next \in DOMAIN config.events
  PROVE  ReadsAs(parse_condition(Node, modes, sensors, lights), ConditionIsClear(next),
                 ListOf(next), Meant(next))
<1> DEFINE meant == Meant(next)
           result == parse_condition(Node, modes, sensors, lights)
<1>1. /\ Says(config, Node, meant)
      /\ <<meant.what, meant.name>> # <<"mode", "all">>
  BY AuthorAssumption DEF Meant, Node
<1>2. meant.what \in {"sensor", "button", "light", "double", "mode"}
  BY <1>1 DEF Says
<1>3. ConditionIsClear(next) <=>
        NamesDeclared(meant) /\ (Has(Node, "when") \/ Has(Node, "condition"))
  BY DEF ConditionIsClear, NamesDeclared, Node
<1>4. ListOf(next) = CASE meant.what = "mode" -> "modes"
                       [] meant.what = "sensor" -> "sensors"
                       [] meant.what = "double" -> "click"
                       [] meant.what = "light" /\ Has(Node, "condition") -> "lights"
                       [] OTHER -> "buttons"
  BY DEF ListOf, Node
<1>5. CASE Has(Node, "condition")
  <2>1. ConditionJsonSays(config, Node.condition, meant)
    BY <1>1, <1>5 DEF Says
  <2>2. result = parse_condition_json(Node.condition, modes, sensors, lights)
    BY <1>5 DEF parse_condition
  <2>3. ListOf(next) = CASE meant.what = "mode" -> "modes" [] meant.what = "sensor" -> "sensors"
                         [] meant.what = "double" -> "click" [] meant.what = "light" -> "lights"
                         [] OTHER -> "buttons"
    BY <1>2, <1>4, <1>5
  <2>4. ReadsAs(result, NamesDeclared(meant), ListOf(next), meant)
    BY <1>1, <1>2, <2>1, <2>2, <2>3, JsonIsRead
  <2>5. QED
    BY <1>3, <1>5, <2>4 DEF ReadsAs
<1>6. CASE ~Has(Node, "condition") /\ Has(Node, "when")
  <2>1. Node.when.type = "string" /\ ConditionTextSays(Node.when.words, meant)
    BY <1>1, <1>6 DEF Says
  <2>2. result = parse_condition_text(Node.when.words, modes, sensors, lights)
    BY <1>6, <2>1 DEF parse_condition
  <2>3. ListOf(next) = CASE meant.what = "mode" -> "modes" [] meant.what = "sensor" -> "sensors"
                         [] meant.what = "double" -> "click" [] OTHER -> "buttons"
    BY <1>2, <1>4, <1>6
  <2>4. ReadsAs(result, NamesDeclared(meant), ListOf(next), meant)
    BY <1>1, <1>2, <2>1, <2>2, <2>3, TextIsRead
  <2>5. QED
    BY <1>3, <1>6, <2>4 DEF ReadsAs
<1>7. CASE ~Has(Node, "condition") /\ ~Has(Node, "when")
  BY <1>3, <1>7 DEF parse_condition, ReadsAs, Refusal, IsRefused, Has
<1>8. QED
  BY <1>5, <1>6, <1>7

\* An action is refused unless it is clear, and otherwise is the command it means.
ActsAs(command, meant) ==
  /\ IsRefused(command) <=> ~ActionIsClear(meant)
  /\ ~IsRefused(command) => ActionIsMeant(command, meant)

\* A text of an action.
LEMMA ActionIsRead ==
  ASSUME config \in Configurations, NamesAreRead, NEW words, NEW meant,
         meant.what \in {"light", "button", "mode"},
         <<meant.what, meant.name>> # <<"mode", "all">>,
         ActionTextSays(words, meant)
  PROVE  ActsAs(parse_action_text(words, modes, lights), meant)
<1> DEFINE phrase == <<"with", "delay">>
           timeout == parse_timeout_text(words)
           text == Before(words, phrase)
           command == parse_action_text(words, modes, lights)
           pin == parse_pin(lights, meant.name)
           mode == get_mode_id(modes, meant.name)
<1>1. PICK n \in 3 .. Len(words) :
         /\ words[n] = meant.what /\ words[n - 1] = meant.name
         /\ meant.on = is_turned_on(words[n - 2])
         /\ \A i \in 2 .. n - 1 : <<words[i], words[i + 1]>> # <<"with", "delay">>
         /\ \/ n = Len(words) /\ meant.delay = 0
            \/ /\ n + 4 <= Len(words)
               /\ words[n + 1] = "with" /\ words[n + 2] = "delay" /\ words[n + 4] = "seconds"
               /\ meant.delay = Atol(words[n + 3]) /\ meant.delay # INVALID
  BY DEF ActionTextSays
<1>2. IsList(words) /\ Len(words) \in Nat /\ words # <<>>
  <2>1. IsList(words)
    BY DEF ActionTextSays
  <2>2. QED
    BY <1>1, <2>1, ListForm
<1>3. Len(phrase) = 2 /\ Len(phrase) \in 1 .. 2
  OBVIOUS
<1>4. words[n] # "with"
  BY <1>1
<1>5. \/ n = Len(words) /\ Find(words, phrase) = 0 /\ meant.delay = 0
      \/ /\ n + 4 <= Len(words) /\ Find(words, phrase) = n + 1
         /\ meant.delay = Atol(words[n + 3]) /\ meant.delay # INVALID
  BY <1>1, <1>2, <1>4, FindWithDelay
<1> HIDE DEF phrase
<1>6. /\ IsUpTo(text, words, n)
      /\ Last(text) = words[n]
      /\ Find(words, phrase) # 0 => IsFrom(After(words, phrase), words, n + Len(phrase) + 1)
  <2>1. n + Len(phrase) + 2 = n + 4
    BY <1>2, <1>3
  <2>2. \/ n = Len(words) /\ Find(words, phrase) = 0
        \/ n + Len(phrase) + 2 <= Len(words) /\ Find(words, phrase) = n + 1
    BY <1>5, <2>1
  <2>3. QED
    BY <1>2, <1>3, <2>2, PartsOf
<1>7. /\ ~(Len(text) < 3) /\ Last(text) = meant.what
      /\ text[Len(text) - 1] = meant.name
      /\ is_turned_on(text[Len(text) - 2]) = meant.on
  <2>1. n - 1 \in 1 .. n /\ n - 2 \in 1 .. n
    BY <1>2
  <2>2. Len(text) = n /\ text[n - 1] = words[n - 1] /\ text[n - 2] = words[n - 2]
    BY <1>6, <2>1 DEF IsUpTo
  <2> HIDE DEF text
  <2>3. QED
    BY <1>1, <1>2, <1>6, <2>2
<1>8. timeout = meant.delay /\ timeout # INVALID
  <2>1. CASE Find(words, phrase) = 0
    <3>1. timeout = 0
      BY <1>2, <2>1 DEF parse_timeout_text, phrase
    <3>2. meant.delay = 0
      BY <1>2, <1>5, <2>1
    <3>3. QED
      BY <3>1, <3>2 DEF INVALID
  <2>2. CASE Find(words, phrase) # 0
    <3>1. IsFrom(After(words, phrase), words, n + 3)
      <4>1. n + Len(phrase) + 1 = n + 3
        BY <1>2, <1>3
      <4>2. QED
        BY <1>6, <2>2, <4>1
    <3>2. Head(After(words, phrase)) = words[n + 3] /\ ~(Len(After(words, phrase)) < 2)
      <4>1. /\ IsList(After(words, phrase)) /\ Len(After(words, phrase)) >= 2
            /\ Len(After(words, phrase)) \in Nat /\ After(words, phrase)[1] = words[n + 3]
        BY <3>1, ListForm DEF IsFrom
      <4>2. QED
        BY <4>1, HeadIsFirst
    <3>3. timeout = Atol(Head(After(words, phrase)))
      BY <1>2, <2>2, <3>2 DEF parse_timeout_text, phrase
    <3>4. meant.delay = Atol(words[n + 3]) /\ meant.delay # INVALID
      BY <1>5, <2>2
    <3>5. QED
      BY <3>2, <3>3, <3>4
  <2>3. QED
    BY <2>1, <2>2
<1>9. command = CASE meant.what = "button" ->
                       DeviceCommand(IF meant.on THEN "onbutton" ELSE "offbutton", pin, meant.delay)
                  [] meant.what = "light" ->
                       DeviceCommand(IF meant.on THEN "on" ELSE "off", pin, meant.delay)
                  [] meant.what = "mode" -> ModeCommand(mode, meant.on)
                  [] OTHER -> Refusal
  <2>1. command = CASE Last(text) = "button" ->
                         DeviceCommand(IF is_turned_on(text[Len(text) - 2])
                                       THEN "onbutton" ELSE "offbutton",
                                       parse_pin(lights, text[Len(text) - 1]), timeout)
                    [] Last(text) = "light" ->
                         DeviceCommand(IF is_turned_on(text[Len(text) - 2]) THEN "on" ELSE "off",
                                       parse_pin(lights, text[Len(text) - 1]), timeout)
                    [] Last(text) = "mode" ->
                         ModeCommand(get_mode_id(modes, text[Len(text) - 1]),
                                     is_turned_on(text[Len(text) - 2]))
                    [] OTHER -> Refusal
    BY <1>7, <1>8 DEF parse_action_text, phrase
  <2> HIDE DEF text, timeout, command
  <2>2. QED
    BY <1>7, <1>8, <2>1
<1> HIDE DEF text, timeout, command, pin, mode
<1>10. CASE meant.what = "mode"
  <2>1. /\ mode = INVALID <=> ~Knows("modes", meant.name)
        /\ mode # INVALID => IsMode(mode, meant.name)
    BY <1>10, ModeIsRead DEF mode
  <2>2. command = ModeCommand(mode, meant.on) /\ Member(meant.what) = "modes"
    BY <1>9, <1>10 DEF Member
  <2>3. CASE mode = INVALID
    BY <2>1, <2>2, <2>3
       DEF ModeCommand, Refusal, IsRefused, Has, ActsAs, ActionIsClear, command
  <2>4. CASE mode # INVALID
    <3>1. command = [kind |-> "mode", mode |-> mode, on |-> meant.on]
      BY <2>2, <2>4 DEF ModeCommand
    <3>2. /\ ~IsRefused(command) /\ command.kind = "mode" /\ command.mode = mode
          /\ command.on = meant.on
      BY <3>1 DEF IsRefused, Has
    <3>3. ActionIsMeant(command, meant)
      BY <1>10, <2>1, <2>4, <3>2 DEF ActionIsMeant
    <3>4. QED
      BY <2>1, <2>2, <2>4, <3>2, <3>3 DEF ActsAs, ActionIsClear, command
  <2>5. QED
    BY <2>3, <2>4
<1>11. CASE meant.what \in {"light", "button"}
  <2> DEFINE cmd == IF meant.what = "light" THEN (IF meant.on THEN "on" ELSE "off")
                    ELSE (IF meant.on THEN "onbutton" ELSE "offbutton")
  <2>1. /\ pin = INVALID <=> ~Knows("lights", meant.name)
        /\ pin # INVALID => IsPin(pin, "lights", meant.name)
    BY PinIsRead DEF pin, NamesAreRead
  <2>2. command = DeviceCommand(cmd, pin, meant.delay) /\ Member(meant.what) = "lights"
    BY <1>9, <1>11 DEF Member
  <2>3. CASE pin = INVALID
    BY <2>1, <2>2, <2>3
       DEF DeviceCommand, Refusal, IsRefused, Has, ActsAs, ActionIsClear, command
  <2>4. CASE pin # INVALID
    <3>1. command = [kind |-> "device", cmd |-> cmd, light |-> pin, delay |-> meant.delay,
                     by |-> "event"]
      BY <2>2, <2>4 DEF DeviceCommand
    <3> HIDE DEF cmd
    <3>2. /\ ~IsRefused(command) /\ command.kind = "device" /\ command.light = pin
          /\ command.cmd = cmd /\ command.delay = meant.delay
      BY <3>1 DEF IsRefused, Has
    <3>3. ActionIsMeant(command, meant)
      BY <1>11, <2>1, <2>4, <3>2 DEF ActionIsMeant, cmd
    <3>4. QED
      BY <2>1, <2>2, <2>4, <3>2, <3>3 DEF ActsAs, ActionIsClear, command
  <2>5. QED
    BY <2>3, <2>4
<1>12. QED
  BY <1>10, <1>11

-----------------------------------------------------------------------------
(* What the parser has read is what is meant.                              *)

\* The names the events are read with are those of the file.
ReadInv ==
  /\ pc \in {"init", "modes", "names"} => next = 1
  /\ pc = "names" =>
       /\ Has(config, "modes") /\ AreNamed(config.modes)
       /\ modes = <<"all">> \o [i \in DOMAIN config.modes |-> config.modes[i].name]
  /\ pc \in {"condition", "actions", "text", "json"} => NamesAreRead
  /\ next > 1 => NamesAreGiven
  /\ next > 1 => Has(config, "events") /\ 1 .. next - 1 \subseteq DOMAIN config.events

\* The nodes up to n that go to a list.
OfList(list, n) == {j \in 1 .. n : ListOf(j) = list}

\* A list has an event for each of its nodes, the event in hand being one more.
CountInv ==
  /\ \A list \in List :
       Len(events[list]) =
         Cardinality(OfList(list, next - 1)) + IF event.list = list THEN 1 ELSE 0
  /\ pc \in {"init", "modes", "names", "condition"} => event = NoEvent

\* The event in hand is the last of its list, and its condition is what is meant.
HandInv ==
  pc \in {"actions", "text", "json"} =>
    /\ event.list = ListOf(next)
    /\ event.at = Len(events[event.list])
    /\ HasMembers(events[event.list][event.at], Meant(next))
    /\ ConditionIsMeant(events[event.list][event.at], Meant(next))
    /\ ConditionIsClear(next)

\* The actions read are the first of those meant, and the agenda says the rest.
ActionsInv ==
  /\ pc \in {"init", "modes", "names", "condition", "actions", "json"} => actions = <<>>
  /\ pc = "text" =>
       /\ ~Has(Node, "actions") /\ Has(Node, "then")
       /\ Len(actions) <= Len(Meant(next).then)
       /\ \A k \in DOMAIN actions : /\ ActionIsClear(Meant(next).then[k])
                                    /\ ActionIsMeant(actions[k], Meant(next).then[k])
       /\ \/ agenda = <<Node.then>> /\ actions = <<>>
          \/ /\ Node.then.type \in {"string", "array"}
             /\ IsList(agenda) /\ Len(actions) + Len(agenda) = Len(Meant(next).then)
             /\ \A j \in DOMAIN agenda : ActionSays(agenda[j], Meant(next).then[Len(actions) + j])

MeantInv == ReadInv /\ CountInv /\ HandInv /\ ActionsInv /\ EventsAreMeant /\ RefusedIffNotClear

\* Nothing that is meant, and nothing the parser compares, changes.
LEMMA MeaningStays ==
  ASSUME config' = config
  PROVE  /\ NamesAreGiven' = NamesAreGiven
         /\ \A i : Meant(i)' = Meant(i)
         /\ \A i : ListOf(i)' = ListOf(i)
         /\ \A i : Clear(i)' = Clear(i)
         /\ \A i : ConditionIsClear(i)' = ConditionIsClear(i)
         /\ \A action : ActionIsClear(action)' = ActionIsClear(action)
         /\ \A built, meant : ConditionIsMeant(built, meant)' = ConditionIsMeant(built, meant)
         /\ \A action, meant : ActionIsMeant(action, meant)' = ActionIsMeant(action, meant)
<1>1. NamesAreGiven' = NamesAreGiven
  BY DEF NamesAreGiven, AreNamed
<1>2. \A i : Meant(i)' = Meant(i)
  BY DEF Meant
<1>3. \A i : ListOf(i)' = ListOf(i)
  BY DEF ListOf, Meant
<1>4. \A member, name : Knows(member, name)' = Knows(member, name)
  BY DEF Knows
<1>5. \A i : ConditionIsClear(i)' = ConditionIsClear(i)
  BY <1>2, <1>4 DEF ConditionIsClear
<1>6. \A action : ActionIsClear(action)' = ActionIsClear(action)
  BY <1>4 DEF ActionIsClear
<1>7. \A i : Clear(i)' = Clear(i)
  BY <1>2, <1>5, <1>6 DEF Clear
<1>8. /\ \A pin, member, name : IsPin(pin, member, name)' = IsPin(pin, member, name)
      /\ \A mode, name : IsMode(mode, name)' = IsMode(mode, name)
  BY DEF IsPin, IsMode
<1>9. \A built, meant : ConditionIsMeant(built, meant)' = ConditionIsMeant(built, meant)
  BY <1>8 DEF ConditionIsMeant
<1>10. \A action, meant : ActionIsMeant(action, meant)' = ActionIsMeant(action, meant)
  BY <1>8 DEF ActionIsMeant
<1>11. QED
  BY <1>1, <1>2, <1>3, <1>5, <1>6, <1>7, <1>9, <1>10

\* EventsAreMeant of the next state, with what is meant in this one.
LEMMA MeantNext ==
  ASSUME config' = config,
         \A i \in 1 .. next' - 1 :
           LET built == events'[ListOf(i)][Cardinality({j \in 1 .. i : ListOf(j) = ListOf(i)})]
           IN  /\ ConditionIsMeant(built, Meant(i))
               /\ Len(built.actions) = Len(Meant(i).then)
               /\ \A k \in DOMAIN Meant(i).then : ActionIsMeant(built.actions[k], Meant(i).then[k])
  PROVE  EventsAreMeant'
BY MeaningStays DEF EventsAreMeant, Built

\* How many nodes of a list there are, up to n.
LEMMA CountNext ==
  ASSUME NEW n \in Nat \ {0}, NEW list
  PROVE  /\ Cardinality(OfList(list, n - 1)) \in Nat
         /\ Cardinality(OfList(list, n)) =
              Cardinality(OfList(list, n - 1)) + IF ListOf(n) = list THEN 1 ELSE 0
<1>1. IsFiniteSet(1 .. n - 1)
  BY FS_Interval
<1>2. OfList(list, n - 1) \in SUBSET (1 .. n - 1)
  BY DEF OfList
<1>3. IsFiniteSet(OfList(list, n - 1)) /\ Cardinality(OfList(list, n - 1)) \in Nat
  BY <1>1, <1>2, FS_Subset, FS_CardinalityType
<1>4. n \notin OfList(list, n - 1)
  BY DEF OfList
<1>5. OfList(list, n) = IF ListOf(n) = list THEN OfList(list, n - 1) \cup {n}
                        ELSE OfList(list, n - 1)
  <2>1. 1 .. n = (1 .. n - 1) \cup {n}
    OBVIOUS
  <2>2. QED
    BY <2>1 DEF OfList
<1>6. CASE ListOf(n) = list
  <2>1. Cardinality(OfList(list, n - 1) \cup {n}) = Cardinality(OfList(list, n - 1)) + 1
    BY <1>3, <1>4, FS_AddElement
  <2>2. QED
    BY <1>3, <1>5, <1>6, <2>1
<1>7. CASE ListOf(n) # list
  BY <1>3, <1>5, <1>7
<1>8. QED
  BY <1>6, <1>7

\* The event of a node has its place among those of its list.
LEMMA PlaceOf ==
  ASSUME NEW n \in Nat, NEW i \in 1 .. n
  PROVE  Cardinality(OfList(ListOf(i), i)) \in 1 .. Cardinality(OfList(ListOf(i), n))
<1> DEFINE S == OfList(ListOf(i), i)
           T == OfList(ListOf(i), n)
<1>1. IsFiniteSet(1 .. n)
  BY FS_Interval
<1>2. T \in SUBSET (1 .. n) /\ S \in SUBSET T /\ i \in S
  BY DEF OfList
<1> HIDE DEF S, T
<1>3. IsFiniteSet(T) /\ Cardinality(T) \in Nat
  BY <1>1, <1>2, FS_Subset, FS_CardinalityType
<1>4. IsFiniteSet(S) /\ Cardinality(S) \in Nat /\ Cardinality(S) <= Cardinality(T)
  BY <1>2, <1>3, FS_Subset, FS_CardinalityType
<1>5. Cardinality(S) # 0
  BY <1>2, <1>4, FS_EmptySet
<1>6. QED
  BY <1>3, <1>4, <1>5 DEF S, T

\* The node that is read is one of the file's.
LEMMA NodeIsGiven ==
  ASSUME NamesInv, NodeInv, ~NoMoreEvents
  PROVE  Has(config, "events") /\ next \in DOMAIN config.events
<1>1. Has(config, "events")
  BY DEF NoMoreEvents, NodeInv
<1>2. IsList(config.events)
  BY <1>1, ConfigurationAssumption DEF NamesInv
<1>3. QED
  BY <1>1, <1>2, ListForm DEF NoMoreEvents, NodeInv

\* parse_condition refuses what is not clear, and puts the rest behind the events of its list.
LEMMA ParseConditionDoes ==
  ASSUME NamesInv, EventsInv, NodeInv, ReadInv, ParseCondition
  PROVE  LET list == ListOf(next)
             last == Len(events[list]) + 1
         IN  IF ConditionIsClear(next)
             THEN /\ list \in List
                  /\ \A l \in List \ {list} : events'[l] = events[l]
                  /\ Len(events'[list]) = last
                  /\ \A i \in DOMAIN events[list] : events'[list][i] = events[list][i]
                  /\ HasMembers(events'[list][last], Meant(next))
                  /\ ConditionIsMeant(events'[list][last], Meant(next))
                  /\ event' = [list |-> list, at |-> last]
                  /\ pc' = "actions"
                  /\ UNCHANGED <<config, nameVars, next, agenda, actions>>
             ELSE Refuse
<1> DEFINE result == parse_condition(Node, modes, sensors, lights)
           list == ListOf(next)
           last == Len(events[list]) + 1
<1>1. pc = "condition" /\ ~NoMoreEvents
  BY DEF ParseCondition
<1>2. config \in Configurations /\ NamesAreRead /\ IsList(modes) /\ modes # <<>>
  BY <1>1 DEF NamesInv, ReadInv
<1>3. ReadsAs(result, ConditionIsClear(next), list, Meant(next))
  BY <1>1, <1>2, NodeIsGiven, ConditionIsRead
<1>4. CASE ~ConditionIsClear(next)
  BY <1>3, <1>4 DEF ParseCondition, ReadsAs
<1>5. CASE ConditionIsClear(next)
  <2>1. /\ ~IsRefused(result) /\ result.list = list
        /\ HasMembers(result.event, Meant(next)) /\ ConditionIsMeant(result.event, Meant(next))
    BY <1>3, <1>5 DEF ReadsAs
  <2>2. /\ events' = [events EXCEPT ![result.list] = Append(@, result.event)]
        /\ event' = [list |-> result.list, at |-> Len(events[result.list]) + 1]
        /\ pc' = "actions"
        /\ UNCHANGED <<config, nameVars, next, agenda, actions>>
    BY <2>1 DEF ParseCondition
  <2>3. result.list \in List
    BY <1>2, <2>1, ConditionIsCondition DEF IsCondition
  <2> HIDE DEF result, list
  <2>4. list \in List /\ IsList(events[list])
    BY <2>1, <2>3 DEF EventsInv
  <2>5. /\ \A l \in List \ {list} : events'[l] = events[l]
        /\ events'[list] = Append(events[list], result.event)
    BY <2>1, <2>2, <2>4 DEF EventsInv
  <2>6. /\ Len(Append(events[list], result.event)) = last
        /\ \A i \in DOMAIN events[list] : Append(events[list], result.event)[i] = events[list][i]
        /\ Append(events[list], result.event)[last] = result.event
    BY <2>4, AppendList, ListForm
  <2>7. event' = [list |-> list, at |-> last]
    BY <2>1, <2>2
  <2> HIDE DEF last
  <2>8. QED
    BY <1>5, <2>1, <2>2, <2>4, <2>5, <2>6, <2>7 DEF list, last
<1>6. QED
  BY <1>4, <1>5

\* set_actions changes the event in hand alone, and its actions alone.
LEMMA SetActionsDoes ==
  ASSUME NamesInv, EventsInv, NodeInv, SetActions
  PROVE  /\ \A l \in List \ {event.list} : events'[l] = events[l]
         /\ Len(events'[event.list]) = Len(events[event.list])
         /\ \A i \in DOMAIN events[event.list] :
              i # event.at => events'[event.list][i] = events[event.list][i]
         /\ events'[event.list][event.at] =
              [events[event.list][event.at] EXCEPT !.actions = actions]
<1> DEFINE old == events[event.list]
           at == event.at
           set == [old[at] EXCEPT !.actions = actions]
<1>1. /\ pc \in {"text", "json"}
      /\ events' = [events EXCEPT ![event.list][event.at].actions = actions]
  BY DEF SetActions
<1>2. event.list \in List /\ at \in DOMAIN old
  BY <1>1 DEF NodeInv
<1>3. IsList(old)
  BY <1>2 DEF EventsInv
<1>4. events' = [events EXCEPT ![event.list] = [old EXCEPT ![at] = set]]
  BY <1>1
<1>5. /\ \A l \in List \ {event.list} : events'[l] = events[l]
      /\ events'[event.list] = [old EXCEPT ![at] = set]
  BY <1>2, <1>4 DEF EventsInv
<1> HIDE DEF set, old, at
<1>6. /\ Len([old EXCEPT ![at] = set]) = Len(old)
      /\ \A i \in DOMAIN old : i # at => [old EXCEPT ![at] = set][i] = old[i]
      /\ [old EXCEPT ![at] = set][at] = set
  <2>1. Len(old) \in Nat /\ DOMAIN old = 1 .. Len(old)
    BY <1>3, ListForm
  <2>2. old \in Seq({old[i] : i \in DOMAIN old} \cup {set})
    BY <1>3, SeqMonotonic DEF IsList
  <2>3. /\ Len([old EXCEPT ![at] = set]) = Len(old)
        /\ \A j \in 1 .. Len(old) : [old EXCEPT ![at] = set][j] = IF j = at THEN set ELSE old[j]
    BY <1>2, <2>1, <2>2, ExceptSeq DEF old, at
  <2>4. QED
    BY <1>2, <2>1, <2>3 DEF old, at
<1>7. QED
  BY <1>5, <1>6 DEF old, at, set

\* The names are read before the events, and stay.
LEMMA ReadStep ==
  ASSUME NamesInv, EventsInv, NodeInv, ReadInv, Next
  PROVE  ReadInv'
<1> DEFINE reading == {"condition", "actions", "text", "json"}
<1> USE DEF ReadInv
<1>1. ASSUME UNCHANGED <<config, nameVars>>
      PROVE  NamesAreGiven' = NamesAreGiven /\ NamesAreRead' = NamesAreRead
  BY <1>1, MeaningStays DEF NamesAreRead, nameVars
<1>2. ASSUME UNCHANGED <<config, nameVars, next>>,
             pc' \in Ended \/ (pc \in reading /\ pc' \in reading)
      PROVE  ReadInv'
  BY <1>1, <1>2 DEF Ended
<1>3. CASE Refuse
  BY <1>2, <1>3 DEF Refuse, Ended
<1>4. CASE InitLightObjects
  <2>1. CASE ~Refuse
    <3>1. /\ pc = "init" /\ pc' \in {"assert", "modes"}
          /\ UNCHANGED <<config, next>>
      BY <1>4, <2>1 DEF InitLightObjects
    <3>2. QED
      BY <3>1
  <2>2. QED
    BY <1>3, <2>1
<1>5. CASE ParseModes
  <2>1. CASE ~Refuse
    <3>1. /\ pc = "modes" /\ pc' = "names"
          /\ Has(config, "modes") /\ AreNamed(config.modes)
          /\ modes' = <<"all">> \o [i \in DOMAIN config.modes |-> config.modes[i].name]
          /\ UNCHANGED <<config, next>>
      BY <1>5, <2>1 DEF ParseModes
    <3>2. next' = 1
      BY <3>1
    <3>3. AreNamed(config.modes)'
      BY <3>1 DEF AreNamed
    <3>4. QED
      BY <3>1, <3>2, <3>3
  <2>2. QED
    BY <1>3, <2>1
<1>6. CASE ParsePinNames
  <2>1. CASE ~Refuse
    <3>1. /\ pc = "names" /\ pc' = "condition"
          /\ Has(config, "sensors") /\ AreNamed(config.sensors)
          /\ Has(config, "lights") /\ AreNamed(config.lights)
          /\ sensors' = config.sensors /\ lights' = config.lights
          /\ UNCHANGED <<config, modes, next>>
      BY <1>6, <2>1 DEF ParsePinNames
    <3>2. NamesAreGiven
      BY <3>1 DEF NamesAreGiven
    <3>3. NamesAreGiven'
      BY <3>1, <3>2, MeaningStays
    <3>4. NamesAreRead'
      BY <3>1, <3>3 DEF NamesAreRead
    <3>5. next' = 1
      BY <3>1
    <3>6. QED
      BY <3>1, <3>4, <3>5
  <2>2. QED
    BY <1>3, <2>1
<1>7. CASE ParseCondition
  BY <1>2, <1>3, <1>7, ParseConditionDoes DEF ParseCondition
<1>8. CASE ParseActions
  BY <1>2, <1>3, <1>8 DEF ParseActions
<1>9. CASE ParseActionsArrayText
  BY <1>2, <1>9 DEF ParseActionsArrayText
<1>10. CASE ParseActionText
  BY <1>2, <1>3, <1>10 DEF ParseActionText, Ended
<1>11. CASE ParseActionOther
  BY <1>3, <1>11 DEF ParseActionOther
<1>12. CASE ParseActionJson
  BY <1>2, <1>3, <1>12 DEF ParseActionJson, Ended
<1>13. CASE SetActions
  <2>1. /\ pc \in {"text", "json"} /\ pc' = "condition" /\ next' = next + 1
        /\ UNCHANGED <<config, nameVars>>
    BY <1>13 DEF SetActions
  <2>2. NamesAreRead /\ NamesAreGiven
    BY <2>1 DEF NamesAreRead
  <2>3. NamesAreRead' /\ NamesAreGiven'
    BY <1>1, <2>1, <2>2
  <2>4. next \in Nat \ {0} /\ Has(config, "events") /\ next \in DOMAIN config.events
    BY <2>1, NodeIsGiven DEF NodeInv
  <2>5. 1 .. next' - 1 = 1 .. next /\ 1 .. next = (1 .. next - 1) \cup {next}
    BY <2>1, <2>4
  <2>6. 1 .. next - 1 \subseteq DOMAIN config.events
    <3>1. CASE next > 1
      BY <3>1
    <3>2. CASE ~(next > 1)
      BY <2>4, <3>2
    <3>3. QED
      BY <3>1, <3>2
  <2>7. Has(config, "events")' /\ 1 .. next' - 1 \subseteq DOMAIN config'.events
    BY <2>1, <2>4, <2>5, <2>6
  <2>8. QED
    BY <2>1, <2>3, <2>7
<1>14. CASE \E started \in BOOLEAN : StartTimer(started)
  BY <1>2, <1>14 DEF StartTimer, Ended
<1>15. QED
  BY <1>4, <1>5, <1>6, <1>7, <1>8, <1>9, <1>10, <1>11, <1>12, <1>13, <1>14 DEF Next

\* The lists grow by the nodes that go to them.
LEMMA CountStep ==
  ASSUME NamesInv, EventsInv, NodeInv, ReadInv, CountInv, HandInv, Next
  PROVE  CountInv'
<1> DEFINE before == {"init", "modes", "names", "condition"}
<1>1. \A list, n : config' = config => OfList(list, n)' = OfList(list, n)
  BY MeaningStays DEF OfList
<1>2. ASSUME UNCHANGED <<config, events, next, event>>, pc' \in before => pc \in before
      PROVE  CountInv'
  BY <1>1, <1>2 DEF CountInv
<1>3. CASE Refuse
  BY <1>2, <1>3 DEF Refuse
<1>4. CASE InitLightObjects
  BY <1>2, <1>3, <1>4 DEF InitLightObjects
<1>5. CASE ParseModes
  BY <1>2, <1>3, <1>5 DEF ParseModes
<1>6. CASE ParsePinNames
  BY <1>2, <1>3, <1>6 DEF ParsePinNames
<1>7. CASE ParseCondition
  <2> DEFINE list == ListOf(next)
             last == Len(events[list]) + 1
  <2>1. CASE ~ConditionIsClear(next)
    BY <1>3, <1>7, <2>1, ParseConditionDoes
  <2>2. CASE ConditionIsClear(next)
    <3>1. /\ list \in List
          /\ \A l \in List \ {list} : events'[l] = events[l]
          /\ Len(events'[list]) = last
          /\ event' = [list |-> list, at |-> last]
          /\ pc' = "actions"
          /\ UNCHANGED <<config, next>>
      BY <1>7, <2>2, ParseConditionDoes
    <3>2. event = NoEvent
      BY <1>7 DEF ParseCondition, CountInv
    <3>3. event.list \notin List /\ event'.list = list
      BY <3>1, <3>2 DEF NoEvent, List
    <3>4. ASSUME NEW l \in List
          PROVE  Len(events'[l]) =
                   Cardinality(OfList(l, next - 1)) + IF event'.list = l THEN 1 ELSE 0
      <4>1. Len(events[l]) = Cardinality(OfList(l, next - 1)) + 0
        BY <3>3 DEF CountInv
      <4>2. Cardinality(OfList(l, next - 1)) \in Nat
        BY CountNext DEF NodeInv
      <4>3. CASE l = list
        BY <3>1, <3>3, <4>1, <4>2, <4>3
      <4>4. CASE l # list
        BY <3>1, <3>3, <4>1, <4>4
      <4>5. QED
        BY <4>3, <4>4
    <3>5. QED
      BY <1>1, <3>1, <3>4 DEF CountInv
  <2>3. QED
    BY <2>1, <2>2
<1>8. CASE ParseActions
  BY <1>2, <1>3, <1>8 DEF ParseActions
<1>9. CASE ParseActionsArrayText
  BY <1>2, <1>9 DEF ParseActionsArrayText
<1>10. CASE ParseActionText
  BY <1>2, <1>3, <1>10 DEF ParseActionText
<1>11. CASE ParseActionOther
  BY <1>3, <1>11 DEF ParseActionOther
<1>12. CASE ParseActionJson
  BY <1>2, <1>3, <1>12 DEF ParseActionJson
<1>13. CASE SetActions
  <2>1. /\ pc \in {"text", "json"} /\ next' = next + 1 /\ event' = NoEvent
        /\ UNCHANGED config
    BY <1>13 DEF SetActions
  <2>2. next \in Nat \ {0} /\ event.list \in List /\ event.list = ListOf(next)
    BY <2>1 DEF NodeInv, HandInv
  <2>3. \A l \in List : event'.list # l
    BY <2>1 DEF NoEvent, List
  <2>4. ASSUME NEW l \in List
        PROVE  Len(events'[l]) = Cardinality(OfList(l, next' - 1))
    <3>1. Len(events'[l]) = Len(events[l])
      BY <1>13, SetActionsDoes
    <3>2. Len(events[l]) = Cardinality(OfList(l, next - 1)) + IF event.list = l THEN 1 ELSE 0
      BY DEF CountInv
    <3>3. Cardinality(OfList(l, next)) =
            Cardinality(OfList(l, next - 1)) + IF ListOf(next) = l THEN 1 ELSE 0
      BY <2>2, CountNext
    <3>4. next' - 1 = next
      BY <2>1, <2>2
    <3>5. QED
      BY <2>2, <3>1, <3>2, <3>3, <3>4
  <2>5. ASSUME NEW l \in List
        PROVE  Len(events'[l]) =
                 Cardinality(OfList(l, next' - 1)) + IF event'.list = l THEN 1 ELSE 0
    <3>1. Cardinality(OfList(l, next' - 1)) \in Nat
      <4>1. next' \in Nat \ {0}
        BY <2>1, <2>2
      <4>2. QED
        BY <4>1, CountNext
    <3>2. QED
      BY <2>3, <2>4, <3>1
  <2>6. QED
    BY <1>1, <2>1, <2>5 DEF CountInv
<1>14. CASE \E started \in BOOLEAN : StartTimer(started)
  BY <1>2, <1>14 DEF StartTimer
<1>15. QED
  BY <1>4, <1>5, <1>6, <1>7, <1>8, <1>9, <1>10, <1>11, <1>12, <1>13, <1>14 DEF Next

\* The event in hand keeps its condition until its actions are set.
LEMMA HandStep ==
  ASSUME NamesInv, EventsInv, NodeInv, ReadInv, CountInv, HandInv, Next
  PROVE  HandInv'
<1> DEFINE inHand == {"actions", "text", "json"}
<1>1. ASSUME UNCHANGED <<config, events, next, event>>, pc' \in inHand => pc \in inHand
      PROVE  HandInv'
  <2>1. /\ ListOf(next)' = ListOf(next) /\ Meant(next)' = Meant(next)
        /\ ConditionIsClear(next)' = ConditionIsClear(next)
    BY <1>1, MeaningStays
  <2>2. \A built, meant : /\ ConditionIsMeant(built, meant)' = ConditionIsMeant(built, meant)
                          /\ HasMembers(built, meant)' = HasMembers(built, meant)
    BY <1>1, MeaningStays DEF HasMembers
  <2>3. QED
    BY <1>1, <2>1, <2>2 DEF HandInv
<1>2. CASE Refuse
  BY <1>2 DEF Refuse, HandInv
<1>3. CASE InitLightObjects \/ ParseModes \/ ParsePinNames
  BY <1>2, <1>3 DEF InitLightObjects, ParseModes, ParsePinNames, HandInv
<1>4. CASE ParseCondition
  <2> DEFINE list == ListOf(next)
             last == Len(events[list]) + 1
  <2>1. CASE ~ConditionIsClear(next)
    BY <1>2, <1>4, <2>1, ParseConditionDoes
  <2>2. CASE ConditionIsClear(next)
    <3>1. /\ list \in List
          /\ Len(events'[list]) = last
          /\ HasMembers(events'[list][last], Meant(next))
          /\ ConditionIsMeant(events'[list][last], Meant(next))
          /\ event' = [list |-> list, at |-> last]
          /\ UNCHANGED <<config, next>>
      BY <1>4, <2>2, ParseConditionDoes
    <3>2. /\ ListOf(next)' = list /\ Meant(next)' = Meant(next)
          /\ ConditionIsClear(next)'
      BY <2>2, <3>1, MeaningStays
    <3>3. \A built, meant : /\ ConditionIsMeant(built, meant)' = ConditionIsMeant(built, meant)
                            /\ HasMembers(built, meant)' = HasMembers(built, meant)
      BY <3>1, MeaningStays DEF HasMembers
    <3>4. event'.list = list /\ event'.at = last
      BY <3>1
    <3> HIDE DEF list, last
    <3>5. QED
      BY <3>1, <3>2, <3>3, <3>4 DEF HandInv
  <2>3. QED
    BY <2>1, <2>2
<1>5. CASE ParseActions
  BY <1>1, <1>2, <1>5 DEF ParseActions
<1>6. CASE ParseActionsArrayText
  BY <1>1, <1>6 DEF ParseActionsArrayText
<1>7. CASE ParseActionText
  BY <1>1, <1>2, <1>7 DEF ParseActionText
<1>8. CASE ParseActionOther
  BY <1>2, <1>8 DEF ParseActionOther
<1>9. CASE ParseActionJson
  BY <1>1, <1>2, <1>9 DEF ParseActionJson
<1>10. CASE SetActions
  BY <1>10 DEF SetActions, HandInv
<1>11. CASE \E started \in BOOLEAN : StartTimer(started)
  BY <1>11 DEF StartTimer, HandInv
<1>12. QED
  BY <1>3, <1>4, <1>5, <1>6, <1>7, <1>8, <1>9, <1>10, <1>11 DEF Next

\* What the author of the event in hand says.
LEMMA NodeSays ==
  ASSUME NamesInv, NodeInv, ~NoMoreEvents
  PROVE  /\ Says(config, Node, Meant(next))
         /\ \A k \in DOMAIN Meant(next).then :
              <<Meant(next).then[k].what, Meant(next).then[k].name>> # <<"mode", "all">>
<1>1. Has(config, "events") /\ next \in DOMAIN config.events /\ config \in Configurations
  BY NodeIsGiven DEF NamesInv
<1>2. QED
  BY <1>1, AuthorAssumption DEF Node, Meant

\* A text at the head of the agenda is the next action that is meant.
LEMMA HeadSays ==
  ASSUME NamesInv, NodeInv, ActionsInv, pc = "text", agenda # <<>>, Head(agenda).type = "string"
  PROVE  LET then == Meant(next).then
             at == Len(actions) + 1
         IN  /\ at \in DOMAIN then /\ ActionTextSays(Head(agenda).words, then[at])
             /\ then[at].what \in {"light", "button", "mode"}
             /\ <<then[at].what, then[at].name>> # <<"mode", "all">>
             /\ Node.then.type \in {"string", "array"}
             /\ IsList(Tail(agenda)) /\ at + Len(Tail(agenda)) = Len(then)
             /\ \A j \in DOMAIN Tail(agenda) : ActionSays(Tail(agenda)[j], then[at + j])
<1> DEFINE then == Meant(next).then
           at == Len(actions) + 1
<1>1. ~NoMoreEvents /\ IsList(actions) /\ Len(actions) \in Nat
  BY ListForm DEF NodeInv, AreCommands
<1>2. /\ IsList(then) /\ DOMAIN then = 1 .. Len(then) /\ Len(then) \in Nat
      /\ \A k \in DOMAIN then : then[k].what \in {"light", "button", "mode"}
      /\ \A k \in DOMAIN then : <<then[k].what, then[k].name>> # <<"mode", "all">>
      /\ ~Has(Node, "actions") /\ Has(Node, "then") => ActionsSay(Node.then, then)
  BY <1>1, NodeSays, ListForm DEF Says
<1>3. ~Has(Node, "actions") /\ Has(Node, "then")
  BY DEF ActionsInv
<1> HIDE DEF then
<1>4. CASE agenda = <<Node.then>> /\ actions = <<>>
  <2>1. Head(agenda) = Node.then /\ Tail(agenda) = <<>>
    BY <1>4
  <2>2. Len(then) = 1 /\ ActionTextSays(Head(agenda).words, then[1])
    BY <1>2, <1>3, <2>1 DEF ActionsSay
  <2>3. at = 1 /\ Len(<<>>) = 0 /\ DOMAIN <<>> = {}
    BY <1>4
  <2>4. IsList(<<>>)
    BY NoCommands DEF AreCommands
  <2>5. 1 \in DOMAIN then /\ Node.then.type \in {"string", "array"}
    BY <1>2, <2>1, <2>2
  <2> HIDE DEF at
  <2>6. at \in DOMAIN then /\ ActionTextSays(Head(agenda).words, then[at])
    BY <2>2, <2>3, <2>5
  <2>7. IsList(Tail(agenda)) /\ at + Len(Tail(agenda)) = Len(then)
    <3>1. IsList(Tail(agenda)) /\ Len(Tail(agenda)) = 0
      BY <2>1, <2>3, <2>4, Zenon
    <3>2. QED
      BY <2>2, <2>3, <3>1
  <2>8. \A j \in DOMAIN Tail(agenda) : ActionSays(Tail(agenda)[j], then[at + j])
    BY <2>1, <2>3
  <2>9. QED
    BY <1>2, <2>5, <2>6, <2>7, <2>8 DEF then, at
<1>5. CASE /\ Node.then.type \in {"string", "array"}
           /\ IsList(agenda) /\ Len(actions) + Len(agenda) = Len(then)
           /\ \A j \in DOMAIN agenda : ActionSays(agenda[j], then[Len(actions) + j])
  <2>1. /\ Len(agenda) \in Nat /\ DOMAIN agenda = 1 .. Len(agenda) /\ Len(agenda) > 0
        /\ agenda \in Seq({agenda[i] : i \in DOMAIN agenda})
    BY <1>5, ListForm DEF IsList
  <2>2. /\ Tail(agenda) \in Seq({agenda[i] : i \in DOMAIN agenda})
        /\ Len(Tail(agenda)) = Len(agenda) - 1
        /\ \A j \in 1 .. Len(agenda) - 1 : Tail(agenda)[j] = agenda[j + 1]
    BY <2>1, HeadTailProperties
  <2>3. IsList(Tail(agenda)) /\ DOMAIN Tail(agenda) = 1 .. Len(agenda) - 1
    BY <2>2, SequenceIsList, ListForm
  <2>4. Head(agenda) = agenda[1]
    BY <1>5, <2>1, HeadIsFirst
  <2>5. ActionSays(agenda[1], then[at])
    BY <1>5, <2>1
  <2>6. ActionTextSays(Head(agenda).words, then[at])
    BY <2>4, <2>5 DEF ActionSays
  <2>7. at \in DOMAIN then /\ at + Len(Tail(agenda)) = Len(then)
    BY <1>1, <1>2, <1>5, <2>1, <2>2
  <2>8. ASSUME NEW j \in DOMAIN Tail(agenda) PROVE ActionSays(Tail(agenda)[j], then[at + j])
    <3>1. j \in 1 .. Len(agenda) - 1 /\ j + 1 \in DOMAIN agenda /\ Len(actions) + (j + 1) = at + j
      BY <1>1, <2>1, <2>3
    <3>2. ActionSays(agenda[j + 1], then[Len(actions) + (j + 1)])
      BY <1>5, <3>1
    <3>3. QED
      BY <2>2, <3>1, <3>2
  <2> HIDE DEF at
  <2>9. QED
    BY <1>2, <1>5, <2>3, <2>6, <2>7, <2>8 DEF then, at
<1>6. QED
  BY <1>4, <1>5 DEF ActionsInv, then

\* A list after a list.
LEMMA ConcatList ==
  ASSUME NEW s, NEW t, IsList(s), IsList(t)
  PROVE  /\ IsList(s \o t)
         /\ Len(s \o t) = Len(s) + Len(t)
         /\ \A i \in 1 .. Len(s) + Len(t) : (s \o t)[i] = IF i <= Len(s) THEN s[i] ELSE t[i - Len(s)]
<1> DEFINE S == {s[i] : i \in DOMAIN s} \cup {t[i] : i \in DOMAIN t}
<1>1. s \in Seq(S) /\ t \in Seq(S)
  BY SeqMonotonic DEF IsList
<1> HIDE DEF S
<1>2. s \o t \in Seq(S)
  BY <1>1, ConcatProperties
<1>3. IsList(s \o t)
  BY <1>2, SequenceIsList
<1>4. QED
  BY <1>1, <1>3, ConcatProperties

\* An array at the head of the agenda says the next actions, or the next action alone.
LEMMA ArraySays ==
  ASSUME NamesInv, NodeInv, ActionsInv, pc = "text", agenda # <<>>, Head(agenda).type = "array"
  PROVE  LET then == Meant(next).then
             rest == Head(agenda).items \o Tail(agenda)
         IN  /\ Node.then.type \in {"string", "array"}
             /\ IsList(rest) /\ Len(actions) + Len(rest) = Len(then)
             /\ \A j \in DOMAIN rest : ActionSays(rest[j], then[Len(actions) + j])
<1> DEFINE then == Meant(next).then
           items == Head(agenda).items
           rest == items \o Tail(agenda)
<1>1. ~NoMoreEvents /\ Len(actions) \in Nat
  BY ListForm DEF NodeInv, AreCommands
<1>2. /\ DOMAIN then = 1 .. Len(then) /\ Len(then) \in Nat
      /\ ~Has(Node, "actions") /\ Has(Node, "then") => ActionsSay(Node.then, then)
  BY <1>1, NodeSays, ListForm DEF Says
<1>3. ~Has(Node, "actions") /\ Has(Node, "then")
  BY DEF ActionsInv
<1> HIDE DEF then, rest
<1>4. CASE agenda = <<Node.then>> /\ actions = <<>>
  <2>1. Head(agenda) = Node.then /\ Tail(agenda) = <<>>
    BY <1>4
  <2>2. /\ IsList(items) /\ Len(items) = Len(then)
        /\ \A k \in DOMAIN then : ActionSays(items[k], then[k])
    BY <1>2, <1>3, <2>1 DEF ActionsSay
  <2>3. IsList(<<>>)
    BY NoCommands DEF AreCommands
  <2>4. Len(<<>>) = 0
    OBVIOUS
  <2>5. Len(actions) = 0
    BY <1>4, <2>4, Zenon
  <2>6. /\ IsList(rest) /\ Len(rest) = Len(then)
        /\ \A i \in 1 .. Len(then) : rest[i] = items[i]
    <3>1. rest = items \o <<>>
      BY <2>1 DEF rest
    <3> HIDE DEF items
    <3>2. /\ IsList(items \o <<>>)
          /\ Len(items \o <<>>) = Len(items) + 0
          /\ \A i \in 1 .. Len(items) + 0 :
                (items \o <<>>)[i] = IF i <= Len(items) THEN items[i] ELSE (<<>>)[i - Len(items)]
      BY <2>2, <2>3, <2>4, ConcatList
    <3>3. QED
      BY <1>2, <2>2, <3>1, <3>2
  <2>7. DOMAIN rest = 1 .. Len(then)
    BY <2>6, ListForm
  <2>8. Node.then.type \in {"string", "array"}
    BY <2>1
  <2>9. \A j \in DOMAIN rest : ActionSays(rest[j], then[Len(actions) + j])
    BY <1>2, <2>2, <2>5, <2>6, <2>7
  <2>10. IsList(rest) /\ Len(actions) + Len(rest) = Len(then)
    BY <1>2, <2>5, <2>6
  <2>11. QED
    BY <2>8, <2>9, <2>10 DEF then, rest
<1>5. CASE /\ Node.then.type \in {"string", "array"}
           /\ IsList(agenda) /\ Len(actions) + Len(agenda) = Len(then)
           /\ \A j \in DOMAIN agenda : ActionSays(agenda[j], then[Len(actions) + j])
  <2>1. /\ Len(agenda) \in Nat /\ DOMAIN agenda = 1 .. Len(agenda) /\ Len(agenda) > 0
        /\ agenda \in Seq({agenda[i] : i \in DOMAIN agenda})
    BY <1>5, ListForm DEF IsList
  <2>2. /\ Tail(agenda) \in Seq({agenda[i] : i \in DOMAIN agenda})
        /\ Len(Tail(agenda)) = Len(agenda) - 1
        /\ \A j \in 1 .. Len(agenda) - 1 : Tail(agenda)[j] = agenda[j + 1]
    BY <2>1, HeadTailProperties
  <2>3. IsList(Tail(agenda))
    BY <2>2, SequenceIsList
  <2>4. ActionSays(Head(agenda), then[Len(actions) + 1])
    BY <1>5, <2>1, HeadIsFirst
  <2>5. /\ IsList(items) /\ Len(items) = 1
        /\ ActionSays(items[1], then[Len(actions) + 1])
    BY <2>4 DEF ActionSays
  <2> HIDE DEF items
  <2>6. /\ IsList(rest) /\ Len(rest) = 1 + (Len(agenda) - 1)
        /\ \A i \in 1 .. 1 + (Len(agenda) - 1) :
              rest[i] = IF i <= 1 THEN items[i] ELSE Tail(agenda)[i - 1]
    <3> DEFINE tail == Tail(agenda)
    <3>1. IsList(tail) /\ Len(tail) = Len(agenda) - 1
      BY <2>2, <2>3
    <3> HIDE DEF tail
    <3>2. /\ IsList(items \o tail)
          /\ Len(items \o tail) = Len(items) + Len(tail)
          /\ \A i \in 1 .. Len(items) + Len(tail) :
                (items \o tail)[i] = IF i <= Len(items) THEN items[i] ELSE tail[i - Len(items)]
      BY <2>5, <3>1, ConcatList
    <3>3. rest = items \o tail
      BY DEF rest, items, tail
    <3>4. QED
      BY <2>5, <3>1, <3>2, <3>3 DEF tail
  <2>7. Len(rest) = Len(agenda) /\ DOMAIN rest = 1 .. Len(agenda)
    BY <2>1, <2>6, ListForm
  <2>8. ASSUME NEW j \in DOMAIN rest PROVE ActionSays(rest[j], then[Len(actions) + j])
    <3>1. CASE j = 1
      BY <2>1, <2>5, <2>6, <2>7, <3>1
    <3>2. CASE j # 1
      <4>1. j - 1 \in 1 .. Len(agenda) - 1 /\ j - 1 + 1 = j /\ j \in DOMAIN agenda /\ ~(j <= 1)
            /\ j \in 1 .. 1 + (Len(agenda) - 1)
        BY <2>1, <2>7, <3>2
      <4>2. Tail(agenda)[j - 1] = agenda[j]
        BY <2>2, <4>1
      <4>3. rest[j] = agenda[j]
        BY <2>6, <4>1, <4>2
      <4>4. QED
        BY <1>5, <4>1, <4>3
    <3>3. QED
      BY <3>1, <3>2
  <2>9. IsList(rest) /\ Len(actions) + Len(rest) = Len(then)
    BY <1>5, <2>6, <2>7
  <2>10. QED
    BY <1>5, <2>8, <2>9 DEF then, rest, items
<1>6. QED
  BY <1>4, <1>5 DEF ActionsInv, then

\* The text at the head of the agenda becomes the next action.
LEMMA ParseActionTextDoes ==
  ASSUME NamesInv, EventsInv, NodeInv, ReadInv, ActionsInv, ParseActionText
  PROVE  LET meant == Meant(next).then[Len(actions) + 1]
             command == parse_action_text(Head(agenda).words, modes, lights)
         IN  IF ActionIsClear(meant)
             THEN /\ ActionIsMeant(command, meant)
                  /\ agenda' = Tail(agenda)
                  /\ pc' = "assert" \/ (pc' = "text" /\ actions' = Append(actions, command))
                  /\ UNCHANGED <<config, nameVars, events, next, event>>
             ELSE Refuse
<1> DEFINE meant == Meant(next).then[Len(actions) + 1]
           command == parse_action_text(Head(agenda).words, modes, lights)
<1>1. pc = "text" /\ agenda # <<>> /\ Head(agenda).type = "string"
  BY DEF ParseActionText
<1>2. config \in Configurations /\ NamesAreRead
  BY <1>1 DEF NamesInv, ReadInv
<1>3. /\ ActionTextSays(Head(agenda).words, meant)
      /\ meant.what \in {"light", "button", "mode"}
      /\ <<meant.what, meant.name>> # <<"mode", "all">>
  BY <1>1, HeadSays
<1>4. ActsAs(command, meant)
  BY <1>2, <1>3, ActionIsRead
<1>5. CASE ~ActionIsClear(meant)
  BY <1>4, <1>5 DEF ActsAs, ParseActionText
<1>6. CASE ActionIsClear(meant)
  <2>1. ~IsRefused(command) /\ ActionIsMeant(command, meant)
    BY <1>4, <1>6 DEF ActsAs
  <2>2. /\ agenda' = Tail(agenda)
        /\ pc' = "assert" \/ (pc' = "text" /\ actions' = Append(actions, command))
        /\ UNCHANGED <<config, nameVars, events, next, event>>
    BY <1>1, <2>1 DEF ParseActionText
  <2>3. QED
    BY <1>6, <2>1, <2>2
<1>7. QED
  BY <1>5, <1>6

\* The actions are those meant, in their order, the last of them still on the agenda.
LEMMA ActionsStep ==
  ASSUME NamesInv, EventsInv, NodeInv, ReadInv, ActionsInv, Next
  PROVE  ActionsInv'
<1> DEFINE then == Meant(next).then
<1>1. CASE Refuse
  BY <1>1 DEF Refuse, ActionsInv
<1>2. ASSUME pc' # "text", actions' = <<>> \/ pc' \in Ended
      PROVE  ActionsInv'
  BY <1>2 DEF ActionsInv, Ended
<1>3. CASE InitLightObjects \/ ParseModes \/ ParsePinNames
  BY <1>1, <1>2, <1>3 DEF InitLightObjects, ParseModes, ParsePinNames, ActionsInv
<1>4. CASE ParseCondition
  BY <1>1, <1>2, <1>4 DEF ParseCondition, ActionsInv
<1>5. CASE ParseActions
  <2>1. CASE Has(Node, "actions")
    BY <1>1, <1>2, <1>5, <2>1 DEF ParseActions, ActionsInv
  <2>2. CASE ~Has(Node, "actions") /\ Has(Node, "then")
    <3>1. /\ pc = "actions" /\ agenda' = <<Node.then>> /\ pc' = "text"
          /\ UNCHANGED <<config, next, actions>>
      BY <1>5, <2>2 DEF ParseActions
    <3>2. actions = <<>> /\ Len(actions) = 0 /\ DOMAIN actions = {}
      BY <3>1 DEF ActionsInv
    <3>3. ~NoMoreEvents /\ Len(then) \in Nat
      <4>1. ~NoMoreEvents
        BY <3>1 DEF NodeInv
      <4>2. QED
        BY <4>1, NodeSays, ListForm DEF Says
    <3>4. Node' = Node /\ Meant(next)' = Meant(next)
      BY <3>1, MeaningStays DEF Node
    <3>5. Len(actions') = 0 /\ DOMAIN actions' = {} /\ 0 <= Len(then)
      BY <3>1, <3>2, <3>3
    <3>6. QED
      BY <2>2, <3>1, <3>2, <3>4, <3>5 DEF ActionsInv
  <2>3. CASE ~Has(Node, "actions") /\ ~Has(Node, "then")
    BY <1>1, <1>5, <2>3 DEF ParseActions
  <2>4. QED
    BY <2>1, <2>2, <2>3
<1>6. CASE ParseActionsArrayText
  <2> DEFINE rest == Head(agenda).items \o Tail(agenda)
  <2>1. /\ pc = "text" /\ agenda # <<>> /\ Head(agenda).type = "array"
        /\ pc' = "text" /\ agenda' = rest
        /\ UNCHANGED <<config, next, actions>>
    BY <1>6 DEF ParseActionsArrayText
  <2>2. /\ Node.then.type \in {"string", "array"}
        /\ IsList(rest) /\ Len(actions) + Len(rest) = Len(then)
        /\ \A j \in DOMAIN rest : ActionSays(rest[j], then[Len(actions) + j])
    BY <2>1, ArraySays
  <2>3. Node' = Node /\ Meant(next)' = Meant(next)
    BY <2>1, MeaningStays DEF Node
  <2>4. \A action, meant : /\ ActionIsMeant(action, meant)' = ActionIsMeant(action, meant)
                           /\ ActionIsClear(meant)' = ActionIsClear(meant)
    BY <2>1, MeaningStays
  <2>5. \A node, meant : ActionSays(node, meant)' = ActionSays(node, meant)
    BY DEF ActionSays, ActionTextSays
  <2> HIDE DEF rest
  <2>6. QED
    BY <2>1, <2>2, <2>3, <2>4, <2>5 DEF ActionsInv
<1>7. CASE ParseActionText
  <2> DEFINE meant == then[Len(actions) + 1]
             command == parse_action_text(Head(agenda).words, modes, lights)
  <2>1. CASE ~ActionIsClear(meant)
    BY <1>1, <1>7, <2>1, ParseActionTextDoes
  <2>2. CASE ActionIsClear(meant)
    <3>1. /\ ActionIsMeant(command, meant)
          /\ agenda' = Tail(agenda)
          /\ pc' = "assert" \/ (pc' = "text" /\ actions' = Append(actions, command))
          /\ UNCHANGED <<config, next>>
      BY <1>7, <2>2, ParseActionTextDoes
    <3>2. CASE pc' = "assert"
      BY <1>2, <3>2 DEF Ended
    <3>3. CASE pc' = "text" /\ actions' = Append(actions, command)
      <4>1. /\ pc = "text" /\ agenda # <<>> /\ Head(agenda).type = "string"
        BY <1>7 DEF ParseActionText
      <4>2. /\ Node.then.type \in {"string", "array"}
            /\ IsList(Tail(agenda)) /\ Len(actions) + 1 + Len(Tail(agenda)) = Len(then)
            /\ \A j \in DOMAIN Tail(agenda) :
                 ActionSays(Tail(agenda)[j], then[Len(actions) + 1 + j])
            /\ Len(actions) + 1 \in DOMAIN then
        BY <4>1, HeadSays
      <4>3. /\ IsList(actions) /\ Len(actions) \in Nat /\ DOMAIN actions = 1 .. Len(actions)
            /\ IsList(actions')
            /\ Len(actions') = Len(actions) + 1
            /\ \A i \in 1 .. Len(actions) : actions'[i] = actions[i]
            /\ actions'[Len(actions) + 1] = command
        BY <3>3, AppendList, ListForm DEF NodeInv, AreCommands
      <4>4. DOMAIN actions' = 1 .. Len(actions) + 1
        BY <4>3, ListForm
      <4>5. Node' = Node /\ Meant(next)' = Meant(next)
        BY <3>1, MeaningStays DEF Node
      <4>6. \A action, a : /\ ActionIsMeant(action, a)' = ActionIsMeant(action, a)
                           /\ ActionIsClear(a)' = ActionIsClear(a)
        BY <3>1, MeaningStays
      <4>7. \A node, a : ActionSays(node, a)' = ActionSays(node, a)
        BY DEF ActionSays, ActionTextSays
      <4>8. ASSUME NEW k \in DOMAIN actions'
            PROVE  ActionIsClear(then[k]) /\ ActionIsMeant(actions'[k], then[k])
        <5>1. CASE k = Len(actions) + 1
          BY <2>2, <3>1, <4>3, <5>1
        <5>2. CASE k # Len(actions) + 1
          <6>1. k \in DOMAIN actions /\ actions'[k] = actions[k]
            BY <4>3, <4>4, <5>2
          <6>2. QED
            BY <4>1, <6>1 DEF ActionsInv
        <5>3. QED
          BY <5>1, <5>2
      <4>9. Len(actions') <= Len(then)
        <5>1. Len(Tail(agenda)) \in Nat
          BY <4>2, ListForm
        <5>2. QED
          BY <4>2, <4>3, <5>1
      <4>10. ~Has(Node, "actions") /\ Has(Node, "then")
        BY <4>1 DEF ActionsInv
      <4> HIDE DEF then, command, meant
      <4>11. /\ IsList(agenda') /\ Len(actions') + Len(agenda') = Len(then)
             /\ \A j \in DOMAIN agenda' : ActionSays(agenda'[j], then[Len(actions') + j])
        BY <3>1, <4>2, <4>3
      <4>12. Meant(next)'.then = then
        BY <4>5 DEF then
      <4>13. QED
        BY <3>3, <4>2, <4>5, <4>6, <4>7, <4>8, <4>9, <4>10, <4>11, <4>12 DEF ActionsInv
    <3>4. QED
      BY <3>1, <3>2, <3>3
  <2>3. QED
    BY <2>1, <2>2
<1>8. CASE ParseActionOther
  BY <1>1, <1>8 DEF ParseActionOther
<1>9. CASE ParseActionJson
  BY <1>1, <1>2, <1>9 DEF ParseActionJson, Ended
<1>10. CASE SetActions
  BY <1>2, <1>10 DEF SetActions
<1>11. CASE \E started \in BOOLEAN : StartTimer(started)
  BY <1>2, <1>11 DEF StartTimer, Ended
<1>12. QED
  BY <1>3, <1>4, <1>5, <1>6, <1>7, <1>8, <1>9, <1>10, <1>11 DEF Next

\* When the agenda is empty the event is clear, and its actions are all that is meant.
LEMMA ActionsAreComplete ==
  ASSUME NamesInv, NodeInv, HandInv, ActionsInv, SetActions
  PROVE  /\ Clear(next)
         /\ Len(actions) = Len(Meant(next).then)
         /\ \A k \in DOMAIN Meant(next).then : ActionIsMeant(actions[k], Meant(next).then[k])
<1> DEFINE then == Meant(next).then
<1>1. pc \in {"text", "json"} /\ agenda = <<>>
  BY DEF SetActions
<1>2. /\ ~NoMoreEvents /\ ConditionIsClear(next)
      /\ IsList(actions) /\ Len(actions) \in Nat /\ DOMAIN actions = 1 .. Len(actions)
  BY <1>1, ListForm DEF NodeInv, HandInv, AreCommands
<1>3. /\ DOMAIN then = 1 .. Len(then) /\ Len(then) \in Nat
      /\ Has(Node, "actions") /\ Node.actions.type = "array" =>
           (Node.actions.items = <<>> <=> then = <<>>)
  BY <1>2, NodeSays, ListForm DEF Says
<1>4. Len(<<>>) = 0 /\ DOMAIN <<>> = {}
  OBVIOUS
<1> HIDE DEF then
<1>5. CASE pc = "text"
  <2>1. ~(agenda = <<Node.then>>)
    BY <1>1
  <2>2. /\ ~Has(Node, "actions") /\ Has(Node, "then")
        /\ Node.then.type \in {"string", "array"}
        /\ Len(actions) + Len(agenda) = Len(then)
        /\ \A k \in DOMAIN actions : ActionIsClear(then[k]) /\ ActionIsMeant(actions[k], then[k])
    BY <1>5, <2>1 DEF ActionsInv, then
  <2>3. Len(agenda) = 0
    BY <1>1, <1>4, Zenon
  <2>4. Len(actions) = Len(then)
    BY <1>2, <2>2, <2>3
  <2>5. DOMAIN actions = DOMAIN then
    BY <1>2, <1>3, <2>4
  <2>6. Clear(next)
    BY <1>2, <2>2, <2>5 DEF Clear, Node, then
  <2>7. QED
    BY <2>2, <2>4, <2>5, <2>6 DEF then
<1>6. CASE pc = "json"
  <2>1. Has(Node, "actions") /\ Node.actions.type = "array" /\ Node.actions.items = <<>>
    BY <1>1, <1>6 DEF NodeInv
  <2>2. then = <<>> /\ actions = <<>>
    BY <1>3, <1>6, <2>1 DEF ActionsInv
  <2>3. Clear(next)
    BY <1>2, <1>4, <2>1, <2>2 DEF Clear, Node, then
  <2>4. QED
    BY <1>4, <2>2, <2>3 DEF then
<1>7. QED
  BY <1>1, <1>5, <1>6

\* The event of node i is what is meant, in given lists.
IsMeant(i, lists) ==
  LET built == lists[ListOf(i)][Cardinality(OfList(ListOf(i), i))]
  IN  /\ ConditionIsMeant(built, Meant(i))
      /\ Len(built.actions) = Len(Meant(i).then)
      /\ \A k \in DOMAIN Meant(i).then : ActionIsMeant(built.actions[k], Meant(i).then[k])

\* The events that were given their actions are not touched again.
LEMMA MeantStep ==
  ASSUME NamesInv, EventsInv, NodeInv, MeantInv, Next
  PROVE  EventsAreMeant'
<1> USE DEF MeantInv
<1>1. \A i \in 1 .. next - 1 : IsMeant(i, events)
  BY DEF EventsAreMeant, Built, IsMeant, OfList
<1>2. ASSUME config' = config, \A i \in 1 .. next' - 1 : IsMeant(i, events')
      PROVE  EventsAreMeant'
  BY <1>2, MeantNext DEF IsMeant, OfList
<1>3. ASSUME UNCHANGED <<config, events, next>>
      PROVE  EventsAreMeant'
  BY <1>1, <1>2, <1>3
<1>4. CASE Refuse
  BY <1>3, <1>4 DEF Refuse
<1>5. CASE InitLightObjects
  BY <1>3, <1>4, <1>5 DEF InitLightObjects
<1>6. CASE ParseModes
  BY <1>3, <1>4, <1>6 DEF ParseModes
<1>7. CASE ParsePinNames
  BY <1>3, <1>4, <1>7 DEF ParsePinNames
<1>8. CASE ParseCondition
  <2> DEFINE list == ListOf(next)
  <2>1. CASE ~ConditionIsClear(next)
    BY <1>4, <1>8, <2>1, ParseConditionDoes
  <2>2. CASE ConditionIsClear(next)
    <3>1. /\ list \in List
          /\ \A l \in List \ {list} : events'[l] = events[l]
          /\ \A i \in DOMAIN events[list] : events'[list][i] = events[list][i]
          /\ UNCHANGED <<config, next>>
      BY <1>8, <2>2, ParseConditionDoes
    <3>2. ASSUME NEW i \in 1 .. next - 1 PROVE IsMeant(i, events')
      <4> DEFINE l == ListOf(i)
                 at == Cardinality(OfList(l, i))
      <4>1. next \in Nat \ {0} /\ event = NoEvent
        BY <1>8 DEF NodeInv, CountInv, ParseCondition
      <4>2. at \in 1 .. Cardinality(OfList(l, next - 1))
        BY <4>1, PlaceOf
      <4>3. l \in List
        BY DEF ListOf, List
      <4>4. /\ Len(events[l]) = Cardinality(OfList(l, next - 1)) + 0
            /\ Cardinality(OfList(l, next - 1)) \in Nat
        BY <4>1, <4>3, CountNext DEF CountInv, NoEvent, List
      <4>5. DOMAIN events[l] = 1 .. Len(events[l])
        BY <4>3, ListForm DEF EventsInv
      <4>6. at \in DOMAIN events[l]
        BY <4>2, <4>4, <4>5
      <4>7. events'[l][at] = events[l][at]
        <5>1. CASE l = list
          BY <3>1, <4>6, <5>1
        <5>2. CASE l # list
          BY <3>1, <4>3, <5>2
        <5>3. QED
          BY <5>1, <5>2
      <4>8. QED
        BY <1>1, <4>7 DEF IsMeant
    <3>3. QED
      BY <1>2, <3>1, <3>2
  <2>3. QED
    BY <2>1, <2>2
<1>9. CASE ParseActions
  BY <1>3, <1>4, <1>9 DEF ParseActions
<1>10. CASE ParseActionsArrayText
  BY <1>3, <1>10 DEF ParseActionsArrayText
<1>11. CASE ParseActionText
  BY <1>3, <1>4, <1>11 DEF ParseActionText
<1>12. CASE ParseActionOther
  BY <1>4, <1>12 DEF ParseActionOther
<1>13. CASE ParseActionJson
  BY <1>3, <1>4, <1>13 DEF ParseActionJson
<1>14. CASE SetActions
  <2> DEFINE list == ListOf(next)
             old == events[list][event.at]
             new == [old EXCEPT !.actions = actions]
  <2>1. /\ pc \in {"text", "json"} /\ next' = next + 1 /\ config' = config
        /\ next \in Nat \ {0} /\ event.list = list /\ list \in List
        /\ event.at = Len(events[list])
        /\ HasMembers(old, Meant(next)) /\ ConditionIsMeant(old, Meant(next))
    BY <1>14 DEF SetActions, NodeInv, HandInv
  <2>2. /\ \A l \in List \ {list} : events'[l] = events[l]
        /\ \A i \in DOMAIN events[list] : i # event.at => events'[list][i] = events[list][i]
        /\ events'[list][event.at] = new
    BY <1>14, <2>1, SetActionsDoes
  <2>3. \A l \in List :
          /\ Len(events[l]) = Cardinality(OfList(l, next - 1)) + IF l = list THEN 1 ELSE 0
          /\ Cardinality(OfList(l, next - 1)) \in Nat
    BY <2>1, CountNext DEF CountInv
  <2>4. ASSUME NEW i \in 1 .. next - 1 PROVE IsMeant(i, events')
    <3> DEFINE l == ListOf(i)
               at == Cardinality(OfList(l, i))
    <3>1. at \in 1 .. Cardinality(OfList(l, next - 1))
      <4>1. next - 1 \in Nat
        BY <2>1
      <4>2. QED
        BY <4>1, PlaceOf
    <3>2. l \in List
      BY DEF ListOf, List
    <3>3. DOMAIN events[l] = 1 .. Len(events[l])
      BY <3>2, ListForm DEF EventsInv
    <3>4. at \in DOMAIN events[l] /\ (l = list => at # event.at)
      BY <2>1, <2>3, <3>1, <3>2, <3>3
    <3>5. events'[l][at] = events[l][at]
      <4>1. CASE l = list
        BY <2>2, <3>4, <4>1
      <4>2. CASE l # list
        BY <2>2, <3>2, <4>2
      <4>3. QED
        BY <4>1, <4>2
    <3>6. QED
      BY <1>1, <3>5 DEF IsMeant
  <2>5. IsMeant(next, events')
    <3>1. Cardinality(OfList(list, next)) = event.at
      <4>1. Cardinality(OfList(list, next)) = Cardinality(OfList(list, next - 1)) + 1
        BY <2>1, CountNext
      <4>2. QED
        BY <2>1, <2>3, <4>1
    <3>2. events'[list][Cardinality(OfList(list, next))] = new
      BY <2>2, <3>1
    <3> HIDE DEF old
    <3>3. ConditionIsMeant(new, Meant(next)) /\ new.actions = actions
      BY <2>1 DEF HasMembers, ConditionIsMeant
    <3>4. /\ Len(actions) = Len(Meant(next).then)
          /\ \A k \in DOMAIN Meant(next).then : ActionIsMeant(actions[k], Meant(next).then[k])
      BY <1>14, ActionsAreComplete
    <3> HIDE DEF new
    <3>5. QED
      BY <3>2, <3>3, <3>4 DEF IsMeant
  <2>6. \A i \in 1 .. next' - 1 : i = next \/ i \in 1 .. next - 1
    BY <2>1
  <2>7. QED
    BY <1>2, <2>1, <2>4, <2>5, <2>6
<1>15. CASE \E started \in BOOLEAN : StartTimer(started)
  BY <1>3, <1>15 DEF StartTimer
<1>16. QED
  BY <1>5, <1>6, <1>7, <1>8, <1>9, <1>10, <1>11, <1>12, <1>13, <1>14, <1>15 DEF Next

\* What is refused is not clear, and what is clear is read.
LEMMA RefusedStep ==
  ASSUME NamesInv, EventsInv, NodeInv, MeantInv, Next
  PROVE  RefusedIffNotClear'
<1> USE DEF MeantInv
<1>1. ASSUME UNCHANGED <<config, next>>,
             pc' = "refused" => NoMoreEvents \/ ~NamesAreGiven \/ ~Clear(next)
      PROVE  RefusedIffNotClear'
  <2>1. /\ NamesAreGiven' = NamesAreGiven
        /\ \A i : Clear(i)' = Clear(i)
        /\ NoMoreEvents' = NoMoreEvents
    BY <1>1, MeaningStays DEF NoMoreEvents
  <2>2. QED
    BY <1>1, <2>1 DEF RefusedIffNotClear
<1>2. CASE InitLightObjects
  <2>1. UNCHANGED <<config, next>> /\ (pc' = "refused" => ~Has(config, "lights"))
    BY <1>2 DEF InitLightObjects, Refuse
  <2>2. QED
    BY <1>1, <2>1 DEF NamesAreGiven
<1>3. CASE ParseModes
  <2>1. /\ UNCHANGED <<config, next>>
        /\ pc' = "refused" => ~(Has(config, "modes") /\ AreNamed(config.modes))
    BY <1>3 DEF ParseModes, Refuse
  <2>2. QED
    BY <1>1, <2>1 DEF NamesAreGiven
<1>4. CASE ParsePinNames
  <2>1. /\ UNCHANGED <<config, next>>
        /\ pc' = "refused" => ~(/\ Has(config, "sensors") /\ AreNamed(config.sensors)
                                /\ Has(config, "lights") /\ AreNamed(config.lights))
    BY <1>4 DEF ParsePinNames, Refuse
  <2>2. QED
    BY <1>1, <2>1 DEF NamesAreGiven
<1>5. CASE ParseCondition
  <2>1. UNCHANGED <<config, next>> /\ (pc' = "refused" => ~ConditionIsClear(next))
    BY <1>5, ParseConditionDoes DEF Refuse
  <2>2. QED
    BY <1>1, <2>1 DEF Clear
<1>6. CASE ParseActions
  <2>1. /\ UNCHANGED <<config, next>>
        /\ pc' = "refused" => /\ Has(Node, "actions") => Node.actions.type # "array"
                              /\ ~Has(Node, "actions") => ~Has(Node, "then")
    BY <1>6 DEF ParseActions, Refuse
  <2>2. QED
    BY <1>1, <2>1 DEF Clear, Node
<1>7. CASE ParseActionsArrayText
  BY <1>1, <1>7 DEF ParseActionsArrayText
<1>8. CASE ParseActionText
  <2> DEFINE meant == Meant(next).then[Len(actions) + 1]
  <2>1. UNCHANGED <<config, next>> /\ (pc' = "refused" => ~ActionIsClear(meant))
    BY <1>8, ParseActionTextDoes DEF Refuse
  <2>2. Len(actions) + 1 \in DOMAIN Meant(next).then
    BY <1>8, HeadSays DEF ParseActionText
  <2>3. QED
    BY <1>1, <2>1, <2>2 DEF Clear
<1>9. CASE ParseActionOther
  <2>1. /\ UNCHANGED <<config, next>> /\ pc = "text" /\ agenda # <<>>
        /\ Head(agenda).type \notin {"array", "string"}
    BY <1>9 DEF ParseActionOther, Refuse
  <2>2. ~Has(Node, "actions") /\ Node.then.type \notin {"array", "string"}
    <3>1. CASE agenda = <<Node.then>>
      BY <2>1, <3>1 DEF ActionsInv
    <3>2. CASE agenda # <<Node.then>>
      <4>1. /\ IsList(agenda)
            /\ \A j \in DOMAIN agenda : ActionSays(agenda[j], Meant(next).then[Len(actions) + j])
        BY <2>1, <3>2 DEF ActionsInv
      <4>2. 1 \in DOMAIN agenda /\ Head(agenda) = agenda[1]
        BY <2>1, <4>1, ListForm, HeadIsFirst
      <4>3. QED
        BY <2>1, <4>1, <4>2 DEF ActionSays
    <3>3. QED
      BY <3>1, <3>2
  <2>3. QED
    BY <1>1, <2>1, <2>2 DEF Clear, Node
<1>10. CASE ParseActionJson
  <2>1. UNCHANGED <<config, next>> /\ pc = "json" /\ agenda # <<>>
    BY <1>10 DEF ParseActionJson, Refuse
  <2>2. Has(Node, "actions") /\ Node.actions.items # <<>>
    BY <2>1 DEF NodeInv
  <2>3. QED
    BY <1>1, <2>1, <2>2 DEF Clear, Node
<1>11. CASE SetActions
  <2>1. /\ pc \in {"text", "json"} /\ pc' = "condition" /\ next' = next + 1 /\ config' = config
        /\ next \in Nat \ {0} /\ Clear(next)
    BY <1>11, ActionsAreComplete DEF SetActions, NodeInv
  <2>2. NamesAreGiven
    BY <2>1 DEF ReadInv, NamesAreRead
  <2>3. NamesAreGiven' /\ \A i : Clear(i)' = Clear(i)
    BY <2>1, <2>2, MeaningStays
  <2>4. \A i \in 1 .. next' - 1 : Clear(i)
    <3>1. \A i \in 1 .. next' - 1 : i = next \/ i \in 1 .. next - 1
      BY <2>1
    <3>2. QED
      BY <2>1, <3>1 DEF RefusedIffNotClear
  <2>5. QED
    BY <2>1, <2>3, <2>4 DEF RefusedIffNotClear
<1>12. CASE \E started \in BOOLEAN : StartTimer(started)
  BY <1>1, <1>12 DEF StartTimer
<1>13. QED
  BY <1>2, <1>3, <1>4, <1>5, <1>6, <1>7, <1>8, <1>9, <1>10, <1>11, <1>12 DEF Next

\* Nothing was read, so nothing is wrong.
LEMMA InitMeantInv == Init => MeantInv
<1> SUFFICES ASSUME Init PROVE MeantInv
  OBVIOUS
<1>1. pc = "init" /\ next = 1 /\ event = NoEvent /\ actions = <<>>
  BY DEF Init
<1>2. ReadInv /\ HandInv /\ ActionsInv
  BY <1>1 DEF ReadInv, HandInv, ActionsInv
<1>3. EventsAreMeant /\ RefusedIffNotClear
  BY <1>1 DEF EventsAreMeant, RefusedIffNotClear
<1>4. CountInv
  <2>1. ASSUME NEW list \in List
        PROVE  Len(events[list]) = 0 /\ event.list # list /\ OfList(list, next - 1) = {}
    BY <1>1 DEF Init, NoEvent, List, OfList
  <2>2. Cardinality({}) = 0
    BY FS_EmptySet
  <2>3. ASSUME NEW list \in List
        PROVE  Len(events[list]) =
                 Cardinality(OfList(list, next - 1)) + IF event.list = list THEN 1 ELSE 0
    <3>1. Cardinality(OfList(list, next - 1)) = 0
      BY <2>1, <2>2, Zenon
    <3>2. QED
      BY <2>1, <3>1
  <2>4. QED
    BY <1>1, <2>3 DEF CountInv
<1>5. QED
  BY <1>2, <1>3, <1>4 DEF MeantInv

\* MeantInv is inductive relative to IInv.
LEMMA NextMeantInv == IInv /\ MeantInv /\ [Next]_vars => MeantInv'
<1> SUFFICES ASSUME IInv, MeantInv, [Next]_vars PROVE MeantInv'
  OBVIOUS
<1>1. CASE Next
  BY <1>1, ReadStep, CountStep, HandStep, ActionsStep, MeantStep, RefusedStep DEF IInv, MeantInv
<1>2. CASE UNCHANGED vars
  <2>1. UNCHANGED <<config, pc, nameVars, events, next, event, agenda, actions>>
    BY <1>2 DEF vars
  <2>2. ReadInv' /\ HandInv'
    BY <2>1, MeaningStays DEF MeantInv, ReadInv, NamesAreRead, AreNamed, nameVars, HandInv, HasMembers
  <2>3. CountInv'
    BY <2>1, MeaningStays DEF MeantInv, CountInv, OfList
  <2>4. ActionsInv'
    <3>1. \A node, meant : ActionSays(node, meant)' = ActionSays(node, meant)
      BY DEF ActionSays, ActionTextSays
    <3>2. QED
      BY <2>1, <3>1, MeaningStays DEF MeantInv, ActionsInv, Node
  <2>5. EventsAreMeant'
    BY <2>1, MeantNext DEF MeantInv, EventsAreMeant, Built
  <2>6. RefusedIffNotClear'
    BY <2>1, MeaningStays DEF MeantInv, RefusedIffNotClear, NoMoreEvents
  <2>7. QED
    BY <2>2, <2>3, <2>4, <2>5, <2>6 DEF MeantInv
<1>3. QED
  BY <1>1, <1>2

(***************************************************************************)
(* Whatever the file holds, the event of a node that was read watches the  *)
(* pin or mode its author names, in the mode named, and has the actions    *)
(* its author means in their order, although its list had other events     *)
(* and parse_event gives it its actions later than its condition.          *)
(***************************************************************************)
THEOREM ReadAsMeant == Spec => []EventsAreMeant
<1>1. MeantInv => EventsAreMeant
  BY DEF MeantInv
<1>2. QED
  BY <1>1, InitMeantInv, NextMeantInv, InductiveInvariant, PTL DEF Spec

(***************************************************************************)
(* The start is refused before the events if names are not given, else at  *)
(* the first event that is not clear, and at no other: every event before  *)
(* it was clear, and it is not.                                            *)
(***************************************************************************)
THEOREM RefusesTheUnclear == Spec => []RefusedIffNotClear
<1>1. MeantInv => RefusedIffNotClear
  BY DEF MeantInv
<1>2. QED
  BY <1>1, InitMeantInv, NextMeantInv, InductiveInvariant, PTL DEF Spec
=============================================================================
