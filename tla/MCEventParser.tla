---------------------------- MODULE MCEventParser ----------------------------
(***************************************************************************)
(* Configurations of one or two events in the words of bin/smarty.cfg and  *)
(* the members of cfg/smarty.cfg, some of them with names that are not     *)
(* declared, with a light whose pin is greater than the count of lights,   *)
(* or with a part missing.                                                 *)
(***************************************************************************)
EXTENDS EventParser

MCNumeral == [word \in {"30"} |-> 30]

OnOff(on) == IF on THEN "on" ELSE "off"

When(what, name, on, mode) == [what |-> what, name |-> name, on |-> on, mode |-> mode]
Then(what, name, on, delay) == [what |-> what, name |-> name, on |-> on, delay |-> delay]

Conditions ==
  {When("sensor", "move", on, mode) : on \in BOOLEAN, mode \in {"all", "automatic", "dusk"}}
  \cup {When(what, name, TRUE, "night") :
          what \in {"button", "light", "double"}, name \in {"lamp", "porch"}}
  \cup {When("mode", name, FALSE, "all") : name \in {"night", "dusk"}}

ActionLists ==
  {<<Then("light", "lamp", TRUE, 0), Then("light", "lamp", FALSE, 30)>>,
   <<Then("button", "hall", FALSE, 0)>>,
   <<Then("mode", "automatic", TRUE, 0), Then("mode", "dusk", TRUE, 0)>>,
   <<Then("light", "porch", TRUE, 0)>>,
   <<>>}

Text(words) == [type |-> "string", words |-> words]
Array(items) == [type |-> "array", items |-> items]

InMode(mode) == IF mode = "all" THEN <<>> ELSE <<"in", mode, "mode">>

WhenText(m) ==
  CASE m.what = "mode" ->
         <<m.name, "mode", "is", IF m.on THEN "enabled" ELSE "disabled">>
    [] m.what = "double" -> <<m.name, "double", "clicked">> \o InMode(m.mode)
    [] OTHER -> <<m.name, m.what, "changes", "to", OnOff(m.on)>> \o InMode(m.mode)

WithMode(node, mode) ==
  IF mode = "all" THEN node
  ELSE [member \in DOMAIN node \cup {"mode"} |-> IF member = "mode" THEN mode ELSE node[member]]

\* The sensor goes by its pin, as in cfg/smarty.cfg.
WhenJson(m) ==
  CASE m.what = "mode" -> [mode_change |-> [name |-> m.name, to |-> OnOff(m.on)]]
    [] m.what = "sensor" ->
         WithMode([device |-> [type |-> "sensor", pin |-> 7,
                               state |-> [number |-> IF m.on THEN 1 ELSE 0]]], m.mode)
    [] OTHER ->
         WithMode([device |-> [type |-> IF m.what = "double" THEN "double click" ELSE m.what,
                               name |-> m.name, state |-> [text |-> OnOff(m.on)]]], m.mode)

ThenText(a) ==
  Text((CASE a.what = "button" -> <<IF a.on THEN "enable" ELSE "disable">>
          [] OTHER -> <<"turn", OnOff(a.on)>>)
       \o <<a.name, a.what>>
       \o (IF a.delay = 0 THEN <<>> ELSE <<"with", "delay", "30", "seconds">>))

\* One text alone, or an array that holds another.
ThenNode(list) ==
  IF Len(list) = 1 THEN ThenText(list[1])
  ELSE Array([i \in DOMAIN list |->
                IF i = 1 THEN ThenText(list[i]) ELSE Array(<<ThenText(list[i])>>)])

ThenJson(list) ==
  Array([i \in DOMAIN list |->
    [x \in {"target", "name", "turn on"} |->
       CASE x = "target" -> list[i].what [] x = "name" -> list[i].name [] OTHER -> list[i].on]])

\* cfg/smarty.cfg says "set_state" where the parser looks for "turn on".
Renamed(action) == [x \in {"target", "name", "set_state"} |->
                      action[IF x = "set_state" THEN "turn on" ELSE x]]
Older(array) == Array([i \in DOMAIN array.items |-> Renamed(array.items[i])])

\* The texts, a JSON condition with the texts, and JSON actions of both kinds.
Nodes(m) ==
  {[when |-> Text(WhenText(m)), then |-> ThenNode(m.then)],
   [condition |-> WhenJson(m), then |-> ThenNode(m.then)],
   [when |-> Text(WhenText(m)), actions |-> ThenJson(m.then)],
   [condition |-> WhenJson(m), actions |-> Older(ThenJson(m.then))]}

Meanings == {[what |-> c.what, name |-> c.name, on |-> c.on, mode |-> c.mode, then |-> t] :
               c \in Conditions, t \in ActionLists}

\* The event every configuration ends with.
Automatic ==
  [what |-> "sensor", name |-> "move", on |-> FALSE, mode |-> "automatic",
   then |-> <<Then("light", "lamp", TRUE, 0), Then("light", "lamp", FALSE, 30)>>]

Entry(name, pin) == [name |-> name, pin |-> pin]
Dense == <<Entry("hall", 2), Entry("lamp", 1)>>
Sparse == <<Entry("hall", 1), Entry("lamp", 6)>>

Configuration(lamps, node, m) ==
  [lights |-> lamps,
   sensors |-> <<Entry("door", 6), Entry("move", 7)>>,
   modes |-> <<[name |-> "automatic"], [name |-> "night"]>>,
   events |-> <<node, [when |-> Text(WhenText(Automatic)), then |-> ThenNode(Automatic.then)]>>,
   meant |-> <<m, Automatic>>]

Whole == UNION {{Configuration(lamps, node, m) : lamps \in {Dense, Sparse}, node \in Nodes(m)} :
                  m \in Meanings}

\* A part is missing, or a name is a number.
Without(node, member) == [x \in DOMAIN node \ {member} |-> node[x]]
Broken ==
  LET whole == CHOOSE c \in Whole : /\ c.lights = Dense
                                    /\ c.meant[1] = Automatic
                                    /\ {"when", "then"} \subseteq DOMAIN c.events[1]
      plain == CHOOSE c \in Whole : c.meant[1].what = "sensor" /\ c.meant[1].then = <<>>
  IN  {Without(plain, "lights")}
      \cup {Without(whole, member) : member \in {"lights", "sensors", "modes", "events"}}
      \cup {[whole EXCEPT !.modes[1].name = NotAString], [whole EXCEPT !.lights = <<>>],
            [whole EXCEPT !.events[1].then = [type |-> "number"]],
            [whole EXCEPT !.events[1] = Without(@, "then")],
            [whole EXCEPT !.events[1] = Without(@, "when")]}

MCConfigurations == Whole \cup Broken
=============================================================================
