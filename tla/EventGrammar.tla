----------------------------- MODULE EventGrammar -----------------------------
(***************************************************************************)
(* How event_parser_t (src/src/server/event/event_parser.cpp) reads the    *)
(* conditions and actions of a configuration: pure operators.  A text is   *)
(* the sequence of its words; a JSON object is a record that has the       *)
(* members the file has, a null member being one it has not.               *)
(***************************************************************************)
EXTENDS Integers, Sequences, SequencesExt

CONSTANTS
  Numeral,    \* the words that atol reads as a number other than 0, with that number
  NotAString  \* a name that is not of string type

ASSUME NumeralAssumption == \A word \in DOMAIN Numeral : Numeral[word] \in Nat \cup {-1}

\* INVALID_PIN, INVALID_MODE and INVALID_TIMEOUT: (uint)-1.
INVALID == -1

Has(node, member) == member \in DOMAIN node

\* What a condition or an action that is not understood yields.
Refusal == [refused |-> TRUE]
IsRefused(result) == Has(result, "refused")

-----------------------------------------------------------------------------
(***************************************************************************)
(* Words.                                                                  *)
(***************************************************************************)
is_turned_on(word) == word \in {"high", "on", "enabled", "enable"}

\* std::string::find of the phrase between spaces: where it begins, 0 if it is not there.
Find(words, phrase) ==
  LET Stands(i) == SubSeq(words, i, i + Len(phrase) - 1) = phrase
      places == {i \in 2 .. Len(words) - Len(phrase) : Stands(i)}
  IN  IF places = {} THEN 0 ELSE CHOOSE i \in places : \A j \in places : i <= j

\* The text up to the phrase, and what comes after it.
Before(words, phrase) ==
  IF Find(words, phrase) = 0 THEN words ELSE SubSeq(words, 1, Find(words, phrase) - 1)
After(words, phrase) == SubSeq(words, Find(words, phrase) + Len(phrase), Len(words))

\* atol, as it is stored in an uint.
Atol(word) == IF word \in DOMAIN Numeral THEN Numeral[word] ELSE 0

-----------------------------------------------------------------------------
(***************************************************************************)
(* Names.  modes is m_modes; pins is m_sensors or m_lights, in the order   *)
(* of the file: map::insert keeps the first of two entries of one name.    *)
(***************************************************************************)
\* Mutant of get_mode_id: "all" is not counted.
get_mode_id_from_one(modes, name) ==
  LET at == {i \in DOMAIN modes : modes[i] = name}
  IN  IF at = {} THEN INVALID ELSE CHOOSE i \in at : \A j \in at : i <= j

get_mode_id(modes, name) ==
  LET at == {i \in DOMAIN modes : modes[i] = name}
  IN  IF at = {} THEN INVALID ELSE (CHOOSE i \in at : \A j \in at : i <= j) - 1

\* Mutant of parse_pin: the number of the file is taken as it is.
parse_pin_from_one(pins, name) ==
  LET at == {i \in DOMAIN pins : pins[i].name = name}
  IN  IF at = {} THEN INVALID ELSE pins[CHOOSE i \in at : \A j \in at : i <= j].pin

\* parse_sensor_pin and parse_light_pin of a name: pins are counted from 1 in the file.
parse_pin(pins, name) ==
  LET at == {i \in DOMAIN pins : pins[i].name = name}
  IN  IF at = {} THEN INVALID ELSE pins[CHOOSE i \in at : \A j \in at : i <= j].pin - 1

\* The same of a node, whose pin goes before its name.
parse_pin_node(pins, node) ==
  IF Has(node, "pin") THEN node.pin - 1
  ELSE IF Has(node, "name") /\ node.name # NotAString THEN parse_pin(pins, node.name)
  ELSE INVALID

-----------------------------------------------------------------------------
(***************************************************************************)
(* Conditions.  The result says which list of the handler the event goes   *)
(* to.  A double click has no state: it is recorded as high.               *)
(***************************************************************************)
DeviceEvent(list, pin, high, mode) ==
  IF pin = INVALID THEN Refusal
  ELSE [list |-> list,
        event |-> [pin |-> pin, high |-> high \/ list = "click", mode |-> mode,
                   actions |-> <<>>]]

ModeEvent(mode, enabled) ==
  IF mode = INVALID THEN Refusal
  ELSE [list |-> "modes", event |-> [mode |-> mode, enabled |-> enabled, actions |-> <<>>]]

\* parse_mode_text: no "in" is mode 0, "all".
parse_mode_text(words, modes) ==
  CASE words = <<>> -> INVALID
    [] Find(words, <<"in">>) = 0 -> 0
    [] OTHER -> IF Len(After(words, <<"in">>)) < 2 THEN INVALID
                ELSE get_mode_id(modes, Head(After(words, <<"in">>)))

parse_condition_text(words, modes, sensors, lights) ==
  LET mode == parse_mode_text(words, modes)
      text == Before(words, <<"in">>)
      on == is_turned_on(Last(text))
      pin == parse_pin(lights, text[1])
  IN  IF mode = INVALID \/ Len(text) < 3 THEN Refusal
      ELSE CASE text[2] = "mode" -> ModeEvent(get_mode_id(modes, text[1]), on)
             [] text[2] = "sensor" -> DeviceEvent("sensors", parse_pin(sensors, text[1]), on, mode)
             [] text[2] \in {"button", "light"} -> DeviceEvent("buttons", pin, on, mode)
             [] text[2] = "double" -> DeviceEvent("click", pin, on, mode)
             [] OTHER -> Refusal

\* get_sensor_state
get_sensor_state(state) ==
  IF Has(state, "text") THEN is_turned_on(state.text) ELSE state.number = 1

parse_device_condition(device, mode, sensors, lights) ==
  IF ~Has(device, "type") \/ ~Has(device, "state") THEN Refusal
  ELSE LET high == get_sensor_state(device.state)
           pin == parse_pin_node(lights, device)
       IN  CASE device.type = "sensor" ->
                  DeviceEvent("sensors", parse_pin_node(sensors, device), high, mode)
             [] device.type = "button" -> DeviceEvent("buttons", pin, high, mode)
             [] device.type = "light" -> DeviceEvent("lights", pin, high, mode)
             [] device.type = "double click" -> DeviceEvent("click", pin, high, mode)
             [] OTHER -> Refusal

parse_mode_condition(change, modes) ==
  IF ~Has(change, "name") \/ ~Has(change, "to") THEN Refusal
  ELSE ModeEvent(get_mode_id(modes, change.name), change.to = "on")

parse_condition_json(node, modes, sensors, lights) ==
  LET mode == IF Has(node, "mode") THEN get_mode_id(modes, node.mode) ELSE 0
  IN  CASE mode = INVALID -> Refusal
        [] mode # INVALID /\ Has(node, "device") ->
             parse_device_condition(node.device, mode, sensors, lights)
        [] mode # INVALID /\ ~Has(node, "device") /\ Has(node, "mode_change") ->
             parse_mode_condition(node.mode_change, modes)
        [] OTHER -> Refusal

\* parse_condition: the JSON form goes first.
parse_condition(node, modes, sensors, lights) ==
  CASE Has(node, "condition") -> parse_condition_json(node.condition, modes, sensors, lights)
    [] ~Has(node, "condition") /\ Has(node, "when") /\ node.when.type = "string" ->
         parse_condition_text(node.when.words, modes, sensors, lights)
    [] OTHER -> Refusal

-----------------------------------------------------------------------------
(***************************************************************************)
(* Actions: the commands EventHandler executes.                            *)
(***************************************************************************)
DeviceCommand(cmd, light, delay) ==
  IF light = INVALID THEN Refusal
  ELSE [kind |-> "device", cmd |-> cmd, light |-> light, delay |-> delay, by |-> "event"]
\* Mutant of ModeCommand: a name that is no mode's is taken.
UncheckedModeCommand(mode, on) == [kind |-> "mode", mode |-> mode, on |-> on]

ModeCommand(mode, on) ==
  IF mode = INVALID THEN Refusal ELSE [kind |-> "mode", mode |-> mode, on |-> on]

\* parse_timeout_text
parse_timeout_text(words) ==
  CASE words = <<>> -> INVALID
    [] Find(words, <<"with", "delay">>) = 0 -> 0
    [] OTHER -> IF Len(After(words, <<"with", "delay">>)) < 2 THEN INVALID
                ELSE Atol(Head(After(words, <<"with", "delay">>)))

\* parse_action_text: the last words count.  command_mode_t never looks at its delay.
parse_action_text(words, modes, lights) ==
  LET timeout == parse_timeout_text(words)
      text == Before(words, <<"with", "delay">>)
      name == text[Len(text) - 1]
      on == is_turned_on(text[Len(text) - 2])
      pin == parse_pin(lights, name)
  IN  IF timeout = INVALID \/ Len(text) < 3 THEN Refusal
      ELSE CASE Last(text) = "button" -> DeviceCommand(IF on THEN "onbutton" ELSE "offbutton", pin, timeout)
             [] Last(text) = "light" -> DeviceCommand(IF on THEN "on" ELSE "off", pin, timeout)
             [] Last(text) = "mode" -> ModeCommand(get_mode_id(modes, name), on)
             [] OTHER -> Refusal
=============================================================================
