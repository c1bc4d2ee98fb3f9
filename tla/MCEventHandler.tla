---------------------------- MODULE MCEventHandler ----------------------------
(***************************************************************************)
(* Events in the words of bin/smarty.cfg.  LampTimeout has its own: the    *)
(* lamp follows the move sensor in automatic mode and is turned off after  *)
(* a delay (one second here), a double click turns night mode on, enabling *)
(* night mode disables a button.  EventHandler has two clients and one     *)
(* mode: the sensor turns on the lamp and, against a client who turns it   *)
(* off, night mode.  EventsAreParsed has TLC check that these are the      *)
(* events the parser builds from the texts.                                *)
(***************************************************************************)
EXTENDS EventHandler, TLC

CONSTANT NotAString

MCNumeral == [word \in {"1"} |-> 1]
Grammar == INSTANCE EventGrammar WITH Numeral <- MCNumeral

Lights == <<[name |-> "lamp", pin |-> 1], [name |-> "living", pin |-> 2]>>
Sensors == <<[name |-> "move", pin |-> 2]>>

Lamp == 0
MCLight == {Lamp}
OnePin == {1}

LampModes == <<"all", "automatic", "night">>
LampEvents ==
  [lights |-> <<>>,
   buttons |-> <<>>,
   sensors |-> <<[pin |-> 1, high |-> FALSE, mode |-> 1,
                  actions |-> <<DeviceCommand("on", Lamp, 0), DeviceCommand("off", Lamp, 1)>>]>>,
   click |-> <<[pin |-> 1, high |-> TRUE, mode |-> 0,
                actions |-> <<ModeCommand(2, TRUE)>>]>>]
LampModeEvents ==
  <<[mode |-> 2, enabled |-> TRUE, actions |-> <<DeviceCommand("offbutton", 1, 0)>>]>>

NightModes == <<"all", "night">>
NightEvents ==
  [lights |-> <<>>,
   buttons |-> <<>>,
   sensors |-> <<[pin |-> 1, high |-> FALSE, mode |-> 1,
                  actions |-> <<DeviceCommand("on", Lamp, 0), ModeCommand(1, TRUE)>>]>>,
   click |-> <<>>]
NightModeEvents ==
  <<[mode |-> 1, enabled |-> TRUE, actions |-> <<DeviceCommand("offbutton", 1, 0)>>]>>

Parsed(when, then, names) ==
  [Grammar!parse_condition_text(when, names, Sensors, Lights).event EXCEPT !.actions =
     [i \in DOMAIN then |-> Grammar!parse_action_text(then[i], names, Lights)]]

TurnOnLamp == <<"turn", "on", "lamp", "light">>
TurnOnNight == <<"turn", "on", "night", "mode">>
DisableLiving == <<"disable", "living", "button">>

ASSUME EventsAreParsed ==
  /\ LampEvents.sensors =
       <<Parsed(<<"move", "sensor", "changes", "to", "low", "in", "automatic", "mode">>,
                <<TurnOnLamp, <<"turn", "off", "lamp", "light", "with", "delay", "1", "second">>>>,
                LampModes)>>
  /\ LampEvents.click = <<Parsed(<<"living", "double", "clicked">>, <<TurnOnNight>>, LampModes)>>
  /\ LampModeEvents =
       <<Parsed(<<"night", "mode", "is", "enabled">>, <<DisableLiving>>, LampModes)>>
  /\ NightEvents.sensors =
       <<Parsed(<<"move", "sensor", "changes", "to", "low", "in", "night", "mode">>,
                <<TurnOnLamp, TurnOnNight>>, NightModes)>>
  /\ NightModeEvents =
       <<Parsed(<<"night", "mode", "is", "enabled">>, <<DisableLiving>>, NightModes)>>
=============================================================================
