------------------------------ MODULE EventParser ------------------------------
(***************************************************************************)
(* The start of the event handler: event_handler_t::init reads the         *)
(* configuration through event_parser_t, one node at a time.  The parser   *)
(* puts an event in the handler's list when it has read its condition and  *)
(* gives it its actions when it has read them all; what it does not        *)
(* understand makes the start fail.  EventGrammar says how texts and nodes *)
(* are understood.                                                         *)
(***************************************************************************)
EXTENDS EventGrammar, FiniteSets

CONSTANT Configurations  \* what the file may hold

\* An array of the file.
IsList(s) == s \in Seq({s[i] : i \in DOMAIN s})

\* Pins are numbers that are not negative; who writes actions as JSON means actions.
ASSUME ConfigurationAssumption ==
  \A c \in Configurations :
    /\ Has(c, "modes") => IsList(c.modes)
    /\ Has(c, "lights") => IsList(c.lights) /\ \A i \in DOMAIN c.lights : c.lights[i].pin \in Nat
    /\ Has(c, "events") =>
         /\ IsList(c.events)
         /\ \A i \in DOMAIN c.events :
              /\ Has(c.events[i], "actions")
              /\ c.events[i].actions.type = "array"
              /\ c.events[i].actions.items # <<>>
              => c.meant[i].then # <<>>

VARIABLES
  config,      \* m_config
  pc,          \* the starting thread
  lightCount,  \* m_lights.size( ) of the handler: its light objects
  modes,       \* m_modes
  sensors,     \* m_sensors
  lights,      \* m_lights of the parser
  events,      \* the handler's lists of events
  next,        \* the node of "events" that is read
  event,       \* where the event just created is in the handler's lists
  agenda,      \* nodes still to be read as actions of this event
  actions      \* commands read so far

nameVars == <<lightCount, modes, sensors, lights>>
vars == <<config, pc, nameVars, events, next, event, agenda, actions>>

List == {"lights", "buttons", "sensors", "click", "modes"}
Ended == {"done", "refused", "assert"}
NoEvent == [list |-> "none", at |-> 0]

Node == config.events[next]

\* init returns false, and start_event_handler fails with an assertion of its own; what was read
\* before stays as it is.
Refuse ==
  /\ pc' = "refused"
  /\ UNCHANGED <<config, nameVars, events, next, event, agenda, actions>>

-----------------------------------------------------------------------------
Init ==
  /\ config \in Configurations
  /\ pc = "init"
  /\ lightCount = 0
  /\ modes = <<>>
  /\ sensors = <<>>
  /\ lights = <<>>
  /\ events = [l \in List |-> <<>>]
  /\ next = 1
  /\ event = NoEvent
  /\ agenda = <<>>
  /\ actions = <<>>

\* init_light_objects, with its assertion that there are lights.
InitLightObjects ==
  /\ pc = "init"
  /\ IF Has(config, "lights")
     THEN /\ lightCount' = Len(config.lights)
          /\ pc' = IF config.lights = <<>> THEN "assert" ELSE "modes"
          /\ UNCHANGED <<config, modes, sensors, lights, events, next, event, agenda, actions>>
     ELSE Refuse

AreNamed(entries) == \A i \in DOMAIN entries : entries[i].name # NotAString

ParseModes ==
  /\ pc = "modes"
  /\ IF Has(config, "modes") /\ AreNamed(config.modes)
     THEN /\ modes' = <<"all">> \o [i \in DOMAIN config.modes |-> config.modes[i].name]
          /\ pc' = "names"
          /\ UNCHANGED <<config, lightCount, sensors, lights, events, next, event, agenda, actions>>
     ELSE Refuse

\* parse_pin_names, of the sensors and of the lights.
ParsePinNames ==
  /\ pc = "names"
  /\ IF /\ Has(config, "sensors") /\ AreNamed(config.sensors)
        /\ Has(config, "lights") /\ AreNamed(config.lights)
     THEN /\ sensors' = config.sensors
          /\ lights' = config.lights
          /\ pc' = "condition"
          /\ UNCHANGED <<config, lightCount, modes, events, next, event, agenda, actions>>
     ELSE Refuse

\* No "events" is no error.
NoMoreEvents == next > IF Has(config, "events") THEN Len(config.events) ELSE 0

\* parse_event, parse_condition: create_device_event or create_mode_event.
ParseCondition ==
  /\ pc = "condition"
  /\ ~NoMoreEvents
  /\ LET result == parse_condition(Node, modes, sensors, lights)
     IN  IF IsRefused(result) THEN Refuse
         ELSE /\ events' = [events EXCEPT ![result.list] = Append(@, result.event)]
              /\ event' = [list |-> result.list, at |-> Len(events[result.list]) + 1]
              /\ pc' = "actions"
              /\ UNCHANGED <<config, nameVars, next, agenda, actions>>

\* parse_actions: "actions" has to be an array of objects, "then" may be a text.
ParseActions ==
  /\ pc = "actions"
  /\ CASE Has(Node, "actions") ->
            IF Node.actions.type = "array"
            THEN /\ agenda' = Node.actions.items
                 /\ pc' = "json"
                 /\ UNCHANGED <<config, nameVars, events, next, event, actions>>
            ELSE Refuse
       [] ~Has(Node, "actions") /\ Has(Node, "then") ->
            /\ agenda' = <<Node.then>>
            /\ pc' = "text"
            /\ UNCHANGED <<config, nameVars, events, next, event, actions>>
       [] OTHER -> Refuse

\* parse_actions_array_text: the array's nodes are next, the rest after them.
ParseActionsArrayText ==
  /\ pc = "text"
  /\ agenda # <<>>
  /\ Head(agenda).type = "array"
  /\ agenda' = Head(agenda).items \o Tail(agenda)
  /\ UNCHANGED <<config, pc, nameVars, events, next, event, actions>>

\* create_device_command asserts that the light has an object.
HasLightObject(command) == command.kind = "device" => command.light < lightCount

ParseActionText ==
  /\ pc = "text"
  /\ agenda # <<>>
  /\ Head(agenda).type = "string"
  /\ LET command == parse_action_text(Head(agenda).words, modes, lights)
     IN  IF IsRefused(command) THEN Refuse
         ELSE /\ agenda' = Tail(agenda)
              /\ actions' = IF HasLightObject(command) THEN Append(actions, command) ELSE actions
              /\ pc' = IF HasLightObject(command) THEN pc ELSE "assert"
              /\ UNCHANGED <<config, nameVars, events, next, event>>

\* parse_actions_text of a node that is neither a text nor an array.
ParseActionOther ==
  /\ pc = "text"
  /\ agenda # <<>>
  /\ Head(agenda).type \notin {"array", "string"}
  /\ Refuse

\* The members parse_action_json wants before it looks at the target.
IsComplete(action) == Has(action, "target") /\ Has(action, "turn on")

\* The assertions under parse_action_json: modes and other targets are not implemented, and
\* the light has an object.
ActionAsserts(action) ==
  IF action.target \in {"light", "button"}
  THEN parse_pin_node(lights, action) # INVALID /\ parse_pin_node(lights, action) >= lightCount
  ELSE TRUE

\* parse_action_json makes the command and then returns false, whatever the action is.
ParseActionJson ==
  /\ pc = "json"
  /\ agenda # <<>>
  /\ IF IsComplete(Head(agenda)) /\ ActionAsserts(Head(agenda))
     THEN /\ pc' = "assert"
          /\ UNCHANGED <<config, nameVars, events, next, event, agenda, actions>>
     ELSE Refuse

\* Mutant of SetActions: the actions of the event before are kept.
SetActionsToo ==
  /\ pc \in {"text", "json"}
  /\ agenda = <<>>
  /\ events' = [events EXCEPT ![event.list][event.at].actions = actions]
  /\ next' = next + 1
  /\ event' = NoEvent
  /\ pc' = "condition"
  /\ UNCHANGED <<config, nameVars, agenda, actions>>

\* set_actions: the next event.
SetActions ==
  /\ pc \in {"text", "json"}
  /\ agenda = <<>>
  /\ events' = [events EXCEPT ![event.list][event.at].actions = actions]
  /\ next' = next + 1
  /\ event' = NoEvent
  /\ actions' = <<>>
  /\ pc' = "condition"
  /\ UNCHANGED <<config, nameVars, agenda>>

\* The end of parse; the timer's thread starts, or does not.
StartTimer(started) ==
  /\ pc = "condition"
  /\ NoMoreEvents
  /\ pc' = IF started THEN "done" ELSE "refused"
  /\ UNCHANGED <<config, nameVars, events, next, event, agenda, actions>>

Next ==
  \/ InitLightObjects
  \/ ParseModes
  \/ ParsePinNames
  \/ ParseCondition
  \/ ParseActions
  \/ ParseActionsArrayText
  \/ ParseActionText
  \/ ParseActionOther
  \/ ParseActionJson
  \/ SetActions
  \/ \E started \in BOOLEAN : StartTimer(started)

Spec == Init /\ [][Next]_vars

-----------------------------------------------------------------------------
(***************************************************************************)
(* What the properties compare with: config.meant[i] is what the author of *)
(* event i means, a condition [what, name, on, mode] with its actions      *)
(* "then", each [what, name, on, delay].  The program never sees it.       *)
(***************************************************************************)
Meant(i) == config.meant[i]

Knows(member, name) ==
  Has(config, member) /\ \E i \in DOMAIN config[member] : config[member][i].name = name

\* What init reads before the events.
NamesAreGiven ==
  \A member \in {"lights", "sensors", "modes"} : Has(config, member) /\ AreNamed(config[member])

Member(what) ==
  CASE what = "mode" -> "modes" [] what = "sensor" -> "sensors" [] OTHER -> "lights"

\* The author names what the file declares, and gives the actions as texts: parse_action_json
\* accepts none, so "actions" has to be empty.
ConditionIsClear(i) ==
  /\ Knows(Member(Meant(i).what), Meant(i).name)
  /\ Meant(i).mode # "all" => Knows("modes", Meant(i).mode)
  /\ Has(config.events[i], "when") \/ Has(config.events[i], "condition")
ActionIsClear(action) == Knows(Member(action.what), action.name)
Clear(i) ==
  /\ ConditionIsClear(i)
  /\ \A k \in DOMAIN Meant(i).then : ActionIsClear(Meant(i).then[k])
  /\ IF Has(config.events[i], "actions")
     THEN config.events[i].actions.type = "array" /\ config.events[i].actions.items = <<>>
     ELSE Has(config.events[i], "then") /\ config.events[i].then.type \in {"string", "array"}

\* A light in a text is watched by its button (case LIGHT_TURNED of parse_condition_text).
ListOf(i) ==
  CASE Meant(i).what = "mode" -> "modes"
    [] Meant(i).what = "sensor" -> "sensors"
    [] Meant(i).what = "double" -> "click"
    [] Meant(i).what = "light" /\ Has(config.events[i], "condition") -> "lights"
    [] OTHER -> "buttons"

IsPin(pin, member, name) == \E i \in DOMAIN config[member] :
  config[member][i].name = name /\ config[member][i].pin = pin + 1
IsMode(mode, name) ==
  IF name = "all" THEN mode = 0
  ELSE mode \in DOMAIN config.modes /\ config.modes[mode].name = name

ActionIsMeant(action, meant) ==
  IF meant.what = "mode"
  THEN action.kind = "mode" /\ IsMode(action.mode, meant.name) /\ action.on = meant.on
  ELSE /\ action.kind = "device"
       /\ IsPin(action.light, "lights", meant.name)
       /\ action.cmd = IF meant.what = "light" THEN (IF meant.on THEN "on" ELSE "off")
                       ELSE (IF meant.on THEN "onbutton" ELSE "offbutton")
       /\ action.delay = meant.delay

ConditionIsMeant(built, meant) ==
  IF meant.what = "mode" THEN IsMode(built.mode, meant.name) /\ built.enabled = meant.on
  ELSE /\ IsPin(built.pin, Member(meant.what), meant.name)
       /\ meant.what # "double" => built.high = meant.on
       /\ IsMode(built.mode, meant.mode)

-----------------------------------------------------------------------------
(***************************************************************************)
(* How an author writes what is meant, as bin/smarty.cfg does in texts and *)
(* cfg/smarty.cfg in JSON.  This is external: the program has no grammar.  *)
(***************************************************************************)
\* "<name> <kind> ... <state>" and "in <mode> mode", without which all modes are meant.
ConditionTextSays(words, meant) ==
  /\ IsList(words)
  /\ \E n \in 3 .. Len(words) :
       /\ words[1] = meant.name /\ words[2] = meant.what
       /\ meant.what # "double" => meant.on = is_turned_on(words[n])
       /\ \A i \in 2 .. n : words[i] # "in"
       /\ \/ n = Len(words) /\ meant.mode = "all"
          \/ n + 3 <= Len(words) /\ words[n + 1] = "in" /\ words[n + 2] = meant.mode

\* A device goes by its name, or by its pin.
Denotes(c, device, meant) ==
  IF Has(device, "pin")
  THEN LET entries == IF meant.what = "sensor" THEN c.sensors ELSE c.lights
       IN  \E i \in DOMAIN entries : entries[i].name = meant.name /\ entries[i].pin = device.pin
  ELSE Has(device, "name") /\ device.name = meant.name /\ device.name # NotAString

ConditionJsonSays(c, node, meant) ==
  /\ meant.mode = IF Has(node, "mode") THEN node.mode ELSE "all"
  /\ IF meant.what = "mode"
     THEN /\ ~Has(node, "device") /\ Has(node, "mode_change")
          /\ {"name", "to"} \subseteq DOMAIN node.mode_change
          /\ node.mode_change.name = meant.name
          /\ meant.on = (node.mode_change.to = "on")
     ELSE /\ Has(node, "device") /\ {"type", "state"} \subseteq DOMAIN node.device
          /\ node.device.type = IF meant.what = "double" THEN "double click" ELSE meant.what
          /\ meant.what # "double" => meant.on = get_sensor_state(node.device.state)
          /\ Denotes(c, node.device, meant)

\* "... <state> <name> <kind>" and "with delay <number> seconds".
ActionTextSays(words, meant) ==
  /\ IsList(words)
  /\ \E n \in 3 .. Len(words) :
       /\ words[n] = meant.what /\ words[n - 1] = meant.name
       /\ meant.on = is_turned_on(words[n - 2])
       /\ \A i \in 2 .. n - 1 : <<words[i], words[i + 1]>> # <<"with", "delay">>
       /\ \/ n = Len(words) /\ meant.delay = 0
          \/ /\ n + 4 <= Len(words)
             /\ words[n + 1] = "with" /\ words[n + 2] = "delay" /\ words[n + 4] = "seconds"
             /\ meant.delay = Atol(words[n + 3]) /\ meant.delay # INVALID

\* A text, or an array of it alone.
ActionSays(node, meant) ==
  \/ node.type = "string" /\ ActionTextSays(node.words, meant)
  \/ /\ node.type = "array" /\ IsList(node.items) /\ Len(node.items) = 1
     /\ node.items[1].type = "string" /\ ActionTextSays(node.items[1].words, meant)

\* The actions in their order, one text or an array; a node of another type says nothing.
ActionsSay(node, meant) ==
  CASE node.type = "string" -> Len(meant) = 1 /\ ActionTextSays(node.words, meant[1])
    [] node.type = "array" -> /\ IsList(node.items)
                              /\ Len(node.items) = Len(meant)
                              /\ \A k \in DOMAIN meant : ActionSays(node.items[k], meant[k])
    [] OTHER -> TRUE

Says(c, node, meant) ==
  /\ meant.what \in {"sensor", "button", "light", "double", "mode"}
  /\ IsList(meant.then)
  /\ \A k \in DOMAIN meant.then : meant.then[k].what \in {"light", "button", "mode"}
  /\ Has(node, "condition") => ConditionJsonSays(c, node.condition, meant)
  /\ ~Has(node, "condition") /\ Has(node, "when") =>
       node.when.type = "string" /\ ConditionTextSays(node.when.words, meant)
  /\ Has(node, "actions") /\ node.actions.type = "array" =>
       (node.actions.items = <<>> <=> meant.then = <<>>)
  /\ ~Has(node, "actions") /\ Has(node, "then") => ActionsSay(node.then, meant.then)

\* Pins are counted from 1, and "all" is no mode that is switched.
ASSUME AuthorAssumption ==
  \A c \in Configurations :
    /\ \A member \in {"sensors", "lights"} : Has(c, member) =>
         IsList(c[member]) /\ \A i \in DOMAIN c[member] : c[member][i].pin \in Nat \ {0}
    /\ Has(c, "events") => \A i \in DOMAIN c.events :
         /\ Says(c, c.events[i], c.meant[i])
         /\ <<c.meant[i].what, c.meant[i].name>> # <<"mode", "all">>
         /\ \A k \in DOMAIN c.meant[i].then :
              <<c.meant[i].then[k].what, c.meant[i].then[k].name>> # <<"mode", "all">>

\* The event of node i: as many nodes of its list are before it in the file.
Built(i) ==
  events[ListOf(i)][Cardinality({j \in 1 .. i : ListOf(j) = ListOf(i)})]

TypeOK ==
  /\ config \in Configurations
  /\ pc \in {"init", "modes", "names", "condition", "actions", "text", "json"} \cup Ended
  /\ lightCount \in Nat
  /\ \A list \in List : \A i \in DOMAIN events[list] :
       /\ \A k \in DOMAIN events[list][i].actions :
            events[list][i].actions[k].kind \in {"device", "mode"}
       /\ events[list][i].mode \in 0 .. Len(modes) - 1
  /\ pc \in {"actions", "text", "json"} =>
       event.list \in List /\ event.at \in DOMAIN events[event.list]

(***************************************************************************)
(* Every event read so far watches the pin or mode its text names, in the  *)
(* mode it names, and has the actions of its own node in their order       *)
(* (parse_event: condition, actions and set_actions are separate).         *)
(***************************************************************************)
EventsAreMeant ==
  \A i \in 1 .. next - 1 :
    /\ ConditionIsMeant(Built(i), Meant(i))
    /\ Len(Built(i).actions) = Len(Meant(i).then)
    /\ \A k \in DOMAIN Meant(i).then : ActionIsMeant(Built(i).actions[k], Meant(i).then[k])

(***************************************************************************)
(* The start is refused before the events if names are not given, else at  *)
(* the first event that is not clear, and at no other (CHECK_RETURN_MSG of *)
(* the parser): nothing is guessed.                                        *)
(***************************************************************************)
RefusedIffNotClear ==
  /\ next > 1 => NamesAreGiven
  /\ \A i \in 1 .. next - 1 : Clear(i)
  /\ pc = "refused" /\ ~NoMoreEvents /\ NamesAreGiven => ~Clear(next)

(***************************************************************************)
(* The assertion "lights index should be less than m_lights size"          *)
(* (event_handler.cpp:334) holds of texts if the lights' pins are the      *)
(* numbers from 1 to their count; it compares pins with the count of       *)
(* entries, so one gap is enough to break it.                              *)
(***************************************************************************)
AssertsOnlyForSparsePins ==
  pc = "assert" =>
    \/ config.lights = <<>>
    \/ \E i \in DOMAIN config.lights : config.lights[i].pin > lightCount
    \/ Has(Node, "actions") /\ Meant(next).then # <<>>
=============================================================================
