-------------------------------- MODULE Firmware --------------------------------
(***************************************************************************)
(* The microcontroller (src/src/mc/smarty_ir.v2.0.c): the SPI interrupt    *)
(* stores the bytes of a request while the main loop switches the lights,  *)
(* fills the answer and handles the request.  Nothing disables interrupts: *)
(* one may come between any two steps of the main loop.                    *)
(*                                                                         *)
(* The master on the other side is external (the body of                   *)
(* device_driver_t::execute_command is commented out).  It sends six bytes *)
(* at any speed and lets the main loop come round before the next request. *)
(***************************************************************************)
EXTENDS Integers, FiniteSetsExt

CONSTANTS
  Bit,      \* bits of the lights and buttons in use
  Request   \* the pairs <<command, parameter>> the master sends

BUFFER_SIZE == 6
END_DATA == 255
EC_STATUS == 0
EC_TURNON == 1
EC_TURNOFF == 2
EC_TURNALL == 3
EC_TURNOFFBUTTON == 5
EC_TURNONBUTTON == 6
ECommand == EC_STATUS .. EC_TURNONBUTTON
Byte == 0 .. 255

ASSUME BitAssumption == Bit \subseteq 0 .. 7
ASSUME RequestAssumption == Request \subseteq ECommand \X Byte

VARIABLES
  pins,        \* the buttons that are down
  buttons,     \* buttons_state
  disabled,    \* buttons_disabled_state
  lights,      \* lights_state, written to LIGHTS_PORT in every turn
  recv,        \* recv_buffer
  error,       \* the bytes of send_buffer that hold 0xEE
  pos, process,
  pc,          \* where the main loop is
  frame,       \* the request the master is sending, or has sent
  sent,        \* how many bytes of it
  moved,       \* history: buttons that moved since update_lights looked
  clean,       \* history: requests since the last parameter of 0xFF, this one included, up to 2
  executed     \* history: the request was executed

bufferVars == <<recv, pos, process>>
masterVars == <<frame, sent, clean, executed>>
lightVars == <<buttons, disabled, lights>>
vars == <<pins, buttons, disabled, lights, recv, error, pos, process, pc, frame, sent, moved, clean,
          executed>>

Bits(byte) == {b \in Bit : (byte \div 2^b) % 2 = 1}

\* The six bytes of a request.
ByteOf(request, k) ==
  CASE k \in {0, 1} -> request[k + 1]
    [] k \in {2, 3, 4} -> 0
    [] k = 5 -> END_DATA

\* Globals are zero; buttons that are down at power up differ from buttons_state.
Init ==
  /\ pins \in SUBSET Bit
  /\ buttons = {}
  /\ disabled = {}
  /\ lights = {}
  /\ recv = [k \in 0 .. BUFFER_SIZE - 1 |-> 0]
  /\ error = {}
  /\ pos = 0
  /\ process = FALSE
  /\ pc = "update_lights"
  /\ frame \in Request
  /\ sent = BUFFER_SIZE
  /\ moved = pins
  /\ clean = 2
  /\ executed = TRUE

(***************************************************************************)
(* Outside: the buttons and the master.                                    *)
(***************************************************************************)
MoveButton(b) ==
  /\ pins' = SymDiff(pins, {b})
  /\ moved' = moved \cup {b}
  /\ UNCHANGED <<lightVars, bufferVars, error, pc, masterVars>>

\* Nothing is left of the last request, as far as the main loop knows.
Quiet == sent = BUFFER_SIZE /\ pc = "update_lights" /\ ~process

BeginRequest ==
  /\ Quiet
  /\ frame' \in Request
  /\ sent' = 0
  /\ clean' = IF frame'[2] = END_DATA THEN 0 ELSE IF clean = 0 THEN 1 ELSE 2
  /\ executed' = FALSE
  /\ UNCHANGED <<pins, lightVars, bufferVars, error, pc, moved>>

(***************************************************************************)
(* The interrupt.                                                          *)
(***************************************************************************)
\* Mutant of Store: one byte too many.
StoreBehind(data) ==
  /\ pos <= BUFFER_SIZE
  /\ recv' = [recv EXCEPT ![pos] = data]
  /\ pos' = pos + 1
  /\ process' = (process \/ data = END_DATA)

Store(data) ==
  /\ pos < BUFFER_SIZE
  /\ recv' = [recv EXCEPT ![pos] = data]
  /\ pos' = pos + 1
  /\ process' = (process \/ data = END_DATA)

\* Mutant of Wrap: pos stays behind the buffer until a request is handled.
StayFull ==
  /\ pos = BUFFER_SIZE
  /\ UNCHANGED bufferVars

\* The buffer is full: the byte is dropped.
Wrap ==
  /\ pos = BUFFER_SIZE
  /\ pos' = 0
  /\ UNCHANGED <<recv, process>>

Transfer ==
  /\ sent < BUFFER_SIZE
  /\ sent' = sent + 1
  /\ \/ Store(ByteOf(frame, sent))
     \/ Wrap
  /\ UNCHANGED <<pins, lightVars, error, pc, frame, moved, clean, executed>>

(***************************************************************************)
(* The main loop.                                                          *)
(***************************************************************************)
GoTo(place) == pc' = place

\* Mutant of UpdateLights: buttons that are disabled are not looked at.
UpdateEnabled ==
  /\ pc = "update_lights"
  /\ lights' = SymDiff(lights, SymDiff(buttons, pins) \ disabled)
  /\ buttons' = (pins \ disabled) \cup (buttons \cap disabled)
  /\ moved' = {}
  /\ GoTo("set_buffer")
  /\ UNCHANGED <<pins, disabled, bufferVars, error, masterVars>>

\* A button that moved switches its light.  read_sensors, next, shares nothing with the interrupt.
UpdateLights ==
  /\ pc = "update_lights"
  /\ lights' = SymDiff(lights, SymDiff(buttons, pins) \ disabled)
  /\ buttons' = pins
  /\ moved' = {}
  /\ GoTo("set_buffer")
  /\ UNCHANGED <<pins, disabled, bufferVars, error, masterVars>>

\* Sensors, lights and buttons go to bytes 1 to 3; byte 0 is left alone.
SetBuffer ==
  /\ pc = "set_buffer"
  /\ error' = error \ {1}
  /\ GoTo("process_command")
  /\ UNCHANGED <<pins, lightVars, bufferVars, masterVars, moved>>

\* Mutant of CheckCommand: the length is not looked at.
CheckBytes ==
  /\ \A k \in {2, 3, 4} : recv[k] = 0
  /\ recv[5] = END_DATA

\* Reading pos and four bytes is one step: when pos is 6 and the last byte END_DATA, at most four
\* bytes are to come, and those wrap first; none of them changes a byte to one that passes.
CheckCommand ==
  /\ pos = BUFFER_SIZE
  /\ \A k \in {2, 3, 4} : recv[k] = 0
  /\ recv[5] = END_DATA

NothingToProcess ==
  /\ pc = "process_command"
  /\ ~process
  /\ GoTo("update_lights")
  /\ UNCHANGED <<pins, lightVars, bufferVars, error, masterVars, moved>>

Accept ==
  /\ pc = "process_command"
  /\ process
  /\ CheckCommand
  /\ GoTo("execute_command")
  /\ UNCHANGED <<pins, lightVars, bufferVars, error, masterVars, moved>>

\* Mutant of Reject: a wrong request is left where it is.
RejectOnly ==
  /\ pc = "process_command"
  /\ process
  /\ ~CheckCommand
  /\ error' = {0, 1}
  /\ GoTo("clear")
  /\ UNCHANGED <<pins, lightVars, bufferVars, masterVars, moved>>

Reject ==
  /\ pc = "process_command"
  /\ process
  /\ ~CheckCommand
  /\ error' = {0, 1}
  /\ GoTo("reset_pos")
  /\ UNCHANGED <<pins, lightVars, bufferVars, masterVars, moved>>

\* The switch: EC_STATUS and EC_TURNEQUAL change nothing.
Switch(cmd, param) ==
  /\ lights' = CASE cmd = EC_TURNON -> lights \cup Bits(param)
                 [] cmd = EC_TURNOFF -> lights \ Bits(param)
                 [] cmd = EC_TURNALL -> IF param = 0 THEN {} ELSE Bit
                 [] OTHER -> lights
  /\ disabled' = CASE cmd = EC_TURNOFFBUTTON -> disabled \cup Bits(param)
                   [] cmd = EC_TURNONBUTTON -> disabled \ Bits(param)
                   [] OTHER -> disabled

ExecuteCommand ==
  /\ pc = "execute_command"
  /\ Switch(recv[0], recv[1])
  /\ executed' = TRUE
  /\ GoTo("reset_pos")
  /\ UNCHANGED <<pins, buttons, bufferVars, error, frame, sent, moved, clean>>

\* Mutant of ResetPos: the next request goes behind this one.
KeepPos ==
  /\ pc = "reset_pos"
  /\ GoTo("clear")
  /\ UNCHANGED <<pins, lightVars, bufferVars, error, masterVars, moved>>

ResetPos ==
  /\ pc = "reset_pos"
  /\ pos' = 0
  /\ GoTo("clear")
  /\ UNCHANGED <<pins, lightVars, recv, process, error, masterVars, moved>>

\* A last byte that came since the check is forgotten with the flag.
ClearProcess ==
  /\ pc = "clear"
  /\ process' = FALSE
  /\ GoTo("update_lights")
  /\ UNCHANGED <<pins, lightVars, recv, pos, error, masterVars, moved>>

Loop ==
  \/ UpdateLights
  \/ SetBuffer
  \/ NothingToProcess
  \/ Accept
  \/ Reject
  \/ ExecuteCommand
  \/ ResetPos
  \/ ClearProcess

Next ==
  \/ Loop
  \/ Transfer
  \/ BeginRequest
  \/ \E b \in Bit : MoveButton(b)

Spec == Init /\ [][Next]_vars

-----------------------------------------------------------------------------
\* The variables have their types: the interrupt never stores outside recv_buffer.
TypeOK ==
  /\ pins \subseteq Bit
  /\ buttons \subseteq Bit
  /\ disabled \subseteq Bit
  /\ lights \subseteq Bit
  /\ recv \in [0 .. BUFFER_SIZE - 1 -> Byte]
  /\ error \subseteq {0, 1}
  /\ pos \in 0 .. BUFFER_SIZE
  /\ process \in BOOLEAN
  /\ pc \in {"update_lights", "set_buffer", "process_command", "execute_command", "reset_pos", "clear"}
  /\ frame \in Request
  /\ sent \in 0 .. BUFFER_SIZE
  /\ moved \subseteq Bit
  /\ clean \in 0 .. 2
  /\ executed \in BOOLEAN

(***************************************************************************)
(* What execute_command runs is the request just sent, whole, and for the  *)
(* first time: never one put together from parts of two, whatever the      *)
(* interrupt and the main loop do to pos (lines 65 to 82, 152 to 176).     *)
(***************************************************************************)
ExecutesWhatWasSent ==
  [][ExecuteCommand => /\ sent = BUFFER_SIZE
                       /\ <<recv[0], recv[1]>> = frame
                       /\ ~executed]_vars

(***************************************************************************)
(* A parameter of 0xFF may cost its own request and the next one, not more:*)
(* with two requests free of it, the second has been executed.  (What      *)
(* device_controller_t relies on when it sends 0x0F and 0xF0 instead.)     *)
(***************************************************************************)
CleanRequestsAreExecuted ==
  Quiet /\ clean = 2 => executed

(***************************************************************************)
(* During such a request the byte that goes out is the one whose turn it   *)
(* is: the master reads lights as lights and buttons as buttons.           *)
(***************************************************************************)
AnswersAreAligned ==
  sent < BUFFER_SIZE /\ clean = 2 => pos = sent

(***************************************************************************)
(* A light that update_lights switches has a button that moved since the   *)
(* turn before and is not disabled: enabling a button again switches       *)
(* nothing by itself.                                                      *)
(***************************************************************************)
OnlyButtonsSwitchLights ==
  [][UpdateLights => SymDiff(lights, lights') \subseteq moved \ disabled]_vars

(***************************************************************************)
(* The inductive invariant behind TypeOK, ExecutesWhatWasSent,             *)
(* CleanRequestsAreExecuted, AnswersAreAligned and OnlyButtonsSwitchLights.*)
(***************************************************************************)
\* The main loop is not handling a request.
Idle == pc \in {"update_lights", "set_buffer", "process_command"}

\* A request free of 0xFF sets no flag before its last byte.
SendingInv ==
  clean > 0 /\ sent < BUFFER_SIZE => Idle /\ ~process /\ frame[2] # END_DATA

\* Its last byte is stored and sets the flag, or finds the buffer full and takes pos to 0.
SentInv ==
  clean > 0 /\ sent = BUFFER_SIZE =>
    \/ Idle /\ (process \/ pos = 0)
    \/ pc \in {"execute_command", "reset_pos"}
    \/ pc = "clear" /\ pos = 0

\* The second such request lies in recv_buffer as it was sent, until it is executed.
AlignedInv ==
  clean = 2 =>
    /\ sent < BUFFER_SIZE => pos = sent /\ ~executed
    /\ ~executed => \A k \in 0 .. sent - 1 : recv[k] = ByteOf(frame, k)
    /\ ~executed /\ sent = BUFFER_SIZE =>
         pos = BUFFER_SIZE /\ process /\ (Idle \/ pc = "execute_command")
    /\ executed /\ Idle => ~process

MovedInv == SymDiff(buttons, pins) \subseteq moved

\* recv_buffer holds the pos bytes that came last: where the request being sent has fewer, those
\* before them are the end of another.
ReceivedInv ==
  \E last \in Request : \A k \in 0 .. pos - 1 :
    recv[k] = IF pos - k <= sent THEN ByteOf(frame, sent + k - pos)
              ELSE ByteOf(last, BUFFER_SIZE + sent + k - pos)

\* What is about to be executed is the whole request, and once it was executed nothing is left of it.
CommandInv ==
  /\ sent = 0 => Idle /\ ~process
  /\ pc = "execute_command" =>
       sent = BUFFER_SIZE /\ <<recv[0], recv[1]>> = frame /\ ~executed
  /\ executed => sent = BUFFER_SIZE /\ (pc = "reset_pos" \/ pos = 0)

IInv == TypeOK /\ SendingInv /\ SentInv /\ AlignedInv /\ ReceivedInv /\ CommandInv /\ MovedInv
=============================================================================
