----------------------------- MODULE FirmwareProofs -----------------------------
(***************************************************************************)
(* Proofs about Firmware, for any lights and any set of requests: IInv is  *)
(* inductive, so the interrupt and the main loop find together again after *)
(* a parameter of 0xFF, one request later, and only whole requests are     *)
(* executed.                                                               *)
(***************************************************************************)
EXTENDS Firmware, TLAPS

\* Only the last byte of a request ends it, if its parameter does not.
LEMMA OnlyLastByteEnds ==
  ASSUME NEW r \in Request, NEW k \in 0 .. BUFFER_SIZE - 1, r[2] # END_DATA
  PROVE  /\ ByteOf(r, k) \in Byte
         /\ ByteOf(r, k) = END_DATA <=> k = 5
<1>1. r[1] \in 0 .. 6 /\ r[2] \in Byte
  BY RequestAssumption DEF ECommand, EC_STATUS, EC_TURNONBUTTON
<1>2. CASE k = 0
  BY <1>1, <1>2 DEF ByteOf, Byte, END_DATA
<1>3. CASE k = 1
  BY <1>1, <1>3 DEF ByteOf, Byte, END_DATA
<1>4. CASE k \in {2, 3, 4}
  BY <1>4 DEF ByteOf, Byte, END_DATA
<1>5. CASE k = 5
  BY <1>5 DEF ByteOf, Byte, END_DATA
<1>6. QED
  BY <1>2, <1>3, <1>4, <1>5 DEF BUFFER_SIZE

\* Whatever the request, bytes are sent.
LEMMA BytesAreBytes ==
  ASSUME NEW r \in Request, NEW k \in 0 .. BUFFER_SIZE - 1
  PROVE  ByteOf(r, k) \in Byte
<1>1. r[1] \in 0 .. 6 /\ r[2] \in Byte
  BY RequestAssumption DEF ECommand, EC_STATUS, EC_TURNONBUTTON
<1>2. CASE k \in {0, 1}
  <2>1. ByteOf(r, k) = r[k + 1]
    BY <1>2 DEF ByteOf
  <2>2. CASE k = 0
    BY <1>1, <2>1, <2>2 DEF Byte
  <2>3. CASE k = 1
    BY <1>1, <2>1, <2>3
  <2>4. QED
    BY <1>2, <2>2, <2>3
<1>3. CASE k \in {2, 3, 4}
  BY <1>3 DEF ByteOf, Byte
<1>4. CASE k = 5
  BY <1>4 DEF ByteOf, Byte, END_DATA
<1>5. QED
  BY <1>2, <1>3, <1>4 DEF BUFFER_SIZE

\* Type correctness: the interrupt's test of pos keeps it inside recv_buffer.
LEMMA TypeStep == TypeOK /\ [Next]_vars => TypeOK'
<1> SUFFICES ASSUME TypeOK, [Next]_vars PROVE TypeOK'
  OBVIOUS
<1> USE DEF TypeOK, BUFFER_SIZE, GoTo, lightVars, bufferVars, masterVars
<1>1. ASSUME NEW b \in Bit, MoveButton(b) PROVE TypeOK'
  BY <1>1 DEF MoveButton, SymDiff
<1>2. CASE BeginRequest
  <2>1. /\ frame' \in Request
        /\ sent' \in 0 .. BUFFER_SIZE
        /\ clean' \in 0 .. 2
        /\ executed' = FALSE
    BY <1>2 DEF BeginRequest
  <2>2. UNCHANGED <<pins, buttons, disabled, lights, recv, pos, process, error, pc, moved>>
    BY <1>2 DEF BeginRequest
  <2>3. QED
    BY <2>1, <2>2, Zenon
<1>3. CASE Transfer
  <2>1. ByteOf(frame, sent) \in Byte
    BY <1>3, BytesAreBytes DEF Transfer
  <2>2. recv' \in [0 .. BUFFER_SIZE - 1 -> Byte]
    BY <1>3, <2>1 DEF Transfer, Store, Wrap
  <2>3. pos' \in 0 .. BUFFER_SIZE
    BY <1>3 DEF Transfer, Store, Wrap
  <2>4. process' \in BOOLEAN
    BY <1>3, Zenon DEF Transfer, Store, Wrap
  <2>5. sent' \in 0 .. BUFFER_SIZE
    BY <1>3 DEF Transfer
  <2>6. QED
    BY <1>3, <2>2, <2>3, <2>4, <2>5 DEF Transfer
<1>4. CASE UpdateLights
  BY <1>4 DEF UpdateLights, SymDiff
<1>5. CASE SetBuffer \/ NothingToProcess \/ Accept \/ Reject \/ ResetPos \/ ClearProcess
  <2>1. CASE SetBuffer
    BY <2>1 DEF SetBuffer
  <2>2. CASE NothingToProcess \/ Accept
    BY <2>2 DEF NothingToProcess, Accept
  <2>3. CASE Reject
    BY <2>3 DEF Reject
  <2>4. CASE ResetPos
    BY <2>4 DEF ResetPos
  <2>5. CASE ClearProcess
    BY <2>5 DEF ClearProcess
  <2>6. QED
    BY <1>5, <2>1, <2>2, <2>3, <2>4, <2>5
<1>6. CASE ExecuteCommand
  <2>1. lights' \subseteq Bit
    BY <1>6 DEF ExecuteCommand, Switch, Bits
  <2>2. disabled' \subseteq Bit
    BY <1>6 DEF ExecuteCommand, Switch, Bits
  <2>3. QED
    BY <1>6, <2>1, <2>2 DEF ExecuteCommand
<1>7. CASE UNCHANGED vars
  BY <1>7 DEF vars
<1>8. QED
  BY <1>1, <1>2, <1>3, <1>4, <1>5, <1>6, <1>7 DEF Next, Loop

\* The interrupt: what a request free of 0xFF does to the flag and to pos.
LEMMA TransferStep ==
  ASSUME TypeOK, SendingInv, SentInv, AlignedInv, Transfer
  PROVE  SendingInv' /\ SentInv' /\ AlignedInv'
<1> USE DEF BUFFER_SIZE
<1>1. sent \in 0 .. 5 /\ sent' = sent + 1 /\ UNCHANGED <<pc, frame, clean, executed>>
  BY DEF Transfer, TypeOK
<1>2. frame \in Request
  BY DEF TypeOK
<1>3. \/ /\ pos < 6
         /\ recv' = [recv EXCEPT ![pos] = ByteOf(frame, sent)]
         /\ pos' = pos + 1
         /\ process' <=> (process \/ ByteOf(frame, sent) = END_DATA)
      \/ /\ pos = 6
         /\ pos' = 0
         /\ process' <=> process
  BY DEF Transfer, Store, Wrap
<1>4. CASE clean = 0
  BY <1>1, <1>4 DEF SendingInv, SentInv, AlignedInv
<1>5. CASE clean > 0
  <2>1. Idle /\ ~process /\ frame[2] # END_DATA
    BY <1>1, <1>5 DEF SendingInv
  <2>2. ByteOf(frame, sent) = END_DATA <=> sent = 5
    BY <1>1, <1>2, <2>1, OnlyLastByteEnds
  <2>3. Idle'
    BY <1>1, <2>1 DEF Idle
  <2>4. sent' < 6 => ~process'
    <3>1. sent' < 6 => ByteOf(frame, sent) # END_DATA
      BY <1>1, <2>2
    <3>2. QED
      BY <1>3, <2>1, <3>1
  <2>5. sent' = 6 => process' \/ pos' = 0
    <3>1. sent' = 6 => ByteOf(frame, sent) = END_DATA
      BY <1>1, <2>2
    <3>2. QED
      BY <1>3, <3>1
  <2>6. SendingInv' /\ SentInv'
    BY <1>1, <2>1, <2>3, <2>4, <2>5 DEF SendingInv, SentInv
  <2>7. ASSUME clean = 2 PROVE AlignedInv'
    <3>1. pos = sent /\ ~executed /\ \A k \in 0 .. sent - 1 : recv[k] = ByteOf(frame, k)
      BY <1>1, <2>7 DEF AlignedInv
    <3>2. /\ pos' = sent'
          /\ recv' = [recv EXCEPT ![sent] = ByteOf(frame, sent)]
      BY <1>1, <1>3, <3>1
    <3>3. \A k \in 0 .. sent' - 1 : recv'[k] = ByteOf(frame', k)
      <4> SUFFICES ASSUME NEW k \in 0 .. sent PROVE recv'[k] = ByteOf(frame, k)
        BY <1>1
      <4>1. recv \in [0 .. 5 -> Byte]
        BY DEF TypeOK
      <4>2. QED
        BY <1>1, <3>1, <3>2, <4>1
    <3>4. sent' = 6 => process'
      BY <1>1, <2>5, <3>2
    <3>5. QED
      BY <1>1, <2>3, <3>1, <3>2, <3>3, <3>4 DEF AlignedInv
  <2>8. QED
    BY <1>1, <2>6, <2>7 DEF AlignedInv
<1>6. QED
  BY <1>4, <1>5 DEF TypeOK

\* The second request free of 0xFF passes check_command once it is processed.
LEMMA CleanRequestPasses ==
  ASSUME TypeOK, SendingInv, AlignedInv, clean = 2, pc = "process_command", process
  PROVE  ~executed /\ CheckCommand
<1> USE DEF BUFFER_SIZE
<1>1. sent = 6
  BY DEF SendingInv, TypeOK
<1>2. ~executed
  BY DEF AlignedInv, Idle
<1>3. pos = 6 /\ \A k \in 0 .. 5 : recv[k] = ByteOf(frame, k)
  BY <1>1, <1>2 DEF AlignedInv
<1>4. /\ \A k \in {2, 3, 4} : ByteOf(frame, k) = 0
      /\ ByteOf(frame, 5) = END_DATA
  BY DEF ByteOf
<1>5. QED
  BY <1>2, <1>3, <1>4 DEF CheckCommand

\* The rest of a turn handles what the interrupt left, and the master waits for its end.
LEMMA LoopStep ==
  ASSUME TypeOK, SendingInv, SentInv, AlignedInv, Loop
  PROVE  SendingInv' /\ SentInv' /\ AlignedInv'
<1> USE DEF GoTo, lightVars, bufferVars, masterVars, BUFFER_SIZE
<1>1. CASE UpdateLights \/ SetBuffer \/ NothingToProcess
  BY <1>1 DEF UpdateLights, SetBuffer, NothingToProcess, SendingInv, SentInv, AlignedInv, Idle
<1>2. CASE Accept
  <2>1. clean > 0 => sent = 6
    BY <1>2 DEF Accept, SendingInv, TypeOK
  <2>2. clean = 2 => ~executed
    BY <1>2, CleanRequestPasses DEF Accept
  <2>3. QED
    BY <1>2, <2>1, <2>2 DEF Accept, SendingInv, SentInv, AlignedInv, Idle
<1>3. CASE Reject
  <2>1. clean > 0 => sent = 6
    BY <1>3 DEF Reject, SendingInv, TypeOK
  <2>2. clean # 2
    BY <1>3, CleanRequestPasses DEF Reject
  <2>3. QED
    BY <1>3, <2>1, <2>2 DEF Reject, SendingInv, SentInv, AlignedInv, Idle
<1>4. CASE ExecuteCommand
  <2>1. clean > 0 => sent = 6
    BY <1>4 DEF ExecuteCommand, SendingInv, TypeOK, Idle
  <2>2. QED
    BY <1>4, <2>1 DEF ExecuteCommand, SendingInv, SentInv, AlignedInv, Idle
<1>5. CASE ResetPos
  <2>1. clean > 0 => sent = 6
    BY <1>5 DEF ResetPos, SendingInv, TypeOK, Idle
  <2>2. clean = 2 => executed
    BY <1>5, <2>1 DEF ResetPos, AlignedInv, Idle
  <2>3. QED
    BY <1>5, <2>1, <2>2 DEF ResetPos, SendingInv, SentInv, AlignedInv, Idle
<1>6. CASE ClearProcess
  <2>1. clean > 0 => sent = 6 /\ pos = 0
    BY <1>6 DEF ClearProcess, SendingInv, SentInv, TypeOK, Idle
  <2>2. clean = 2 => executed
    BY <1>6, <2>1 DEF ClearProcess, AlignedInv, Idle
  <2>3. QED
    BY <1>6, <2>1, <2>2 DEF ClearProcess, SendingInv, SentInv, AlignedInv, Idle
<1>7. QED
  BY <1>1, <1>2, <1>3, <1>4, <1>5, <1>6 DEF Loop

\* A request begins with pos = 0 if the one before was free of 0xFF.
LEMMA BeginStep ==
  ASSUME TypeOK, SentInv, BeginRequest
  PROVE  SendingInv' /\ SentInv' /\ AlignedInv'
<1> USE DEF BUFFER_SIZE
<1>1. Idle' /\ ~process' /\ sent' = 0 /\ ~executed' /\ pos' = pos
  BY DEF BeginRequest, Quiet, Idle, bufferVars
<1>2. clean > 0 => pos = 0
  BY DEF BeginRequest, Quiet, SentInv
<1>3. clean' > 0 => frame'[2] # END_DATA
  BY DEF BeginRequest
<1>4. clean' = 2 => clean > 0
  BY DEF BeginRequest, TypeOK
<1>5. QED
  BY <1>1, <1>2, <1>3, <1>4 DEF SendingInv, SentInv, AlignedInv

\* The byte that comes is stored behind the last pos ones, or pos becomes 0; a new request turns
\* the one before into the other.
LEMMA ReceivedStep ==
  ASSUME TypeOK, ReceivedInv, [Next]_vars
  PROVE  ReceivedInv'
<1> USE DEF BUFFER_SIZE
<1>1. PICK last \in Request : \A k \in 0 .. pos - 1 :
        recv[k] = IF pos - k <= sent THEN ByteOf(frame, sent + k - pos)
                  ELSE ByteOf(last, 6 + sent + k - pos)
  BY DEF ReceivedInv
<1>2. pos \in 0 .. 6 /\ sent \in 0 .. 6 /\ frame \in Request /\ recv \in [0 .. 5 -> Byte]
  BY DEF TypeOK
<1>3. ASSUME UNCHANGED <<recv, pos, frame, sent>> PROVE ReceivedInv'
  BY <1>1, <1>3 DEF ReceivedInv
<1>4. ASSUME pos' = 0, frame' = frame PROVE ReceivedInv'
  BY <1>2, <1>4 DEF ReceivedInv
<1>5. CASE BeginRequest
  <2>1. sent = 6 /\ sent' = 0 /\ pos' = pos /\ recv' = recv
    BY <1>5 DEF BeginRequest, Quiet, bufferVars
  <2>2. ASSUME NEW k \in 0 .. pos - 1
        PROVE  recv[k] = ByteOf(frame, 6 + k - pos)
    BY <1>1, <1>2, <2>1
  <2>3. \A k \in 0 .. pos' - 1 :
          recv'[k] = IF pos' - k <= sent' THEN ByteOf(frame', sent' + k - pos')
                     ELSE ByteOf(frame, 6 + sent' + k - pos')
    BY <1>2, <2>1, <2>2
  <2>4. QED
    BY <1>2, <2>3 DEF ReceivedInv
<1>6. CASE Transfer
  <2>1. sent' = sent + 1 /\ frame' = frame
    BY <1>6 DEF Transfer
  <2>2. CASE Store(ByteOf(frame, sent))
    <3>1. pos < 6 /\ pos' = pos + 1 /\ recv' = [recv EXCEPT ![pos] = ByteOf(frame, sent)]
      BY <2>2 DEF Store
    <3>2. ASSUME NEW k \in 0 .. pos' - 1
          PROVE  recv'[k] = IF pos' - k <= sent' THEN ByteOf(frame', sent' + k - pos')
                            ELSE ByteOf(last, 6 + sent' + k - pos')
      <4>1. CASE k = pos
        BY <1>2, <2>1, <3>1, <4>1
      <4>2. CASE k # pos
        <5>1. k \in 0 .. pos - 1 /\ recv'[k] = recv[k]
          BY <1>2, <3>1, <4>2
        <5>2. sent' + k - pos' = sent + k - pos /\ (pos' - k <= sent' <=> pos - k <= sent)
          BY <1>2, <2>1, <3>1
        <5>3. 6 + sent' + k - pos' = 6 + sent + k - pos
          BY <1>2, <2>1, <3>1
        <5>4. QED
          BY <1>1, <2>1, <5>1, <5>2, <5>3
      <4>3. QED
        BY <4>1, <4>2
    <3>3. QED
      BY <3>2 DEF ReceivedInv
  <2>3. CASE Wrap
    BY <1>4, <2>1, <2>3 DEF Wrap
  <2>4. QED
    BY <1>6, <2>2, <2>3 DEF Transfer
<1>7. CASE ResetPos
  BY <1>4, <1>7 DEF ResetPos, masterVars
<1>8. CASE UpdateLights \/ SetBuffer \/ NothingToProcess \/ Accept \/ Reject \/ ExecuteCommand
           \/ ClearProcess
  BY <1>3, <1>8 DEF UpdateLights, SetBuffer, NothingToProcess, Accept, Reject, ExecuteCommand,
                    ClearProcess, bufferVars, masterVars
<1>9. ASSUME NEW b \in Bit, MoveButton(b) PROVE ReceivedInv'
  BY <1>3, <1>9 DEF MoveButton, bufferVars, masterVars
<1>10. CASE UNCHANGED vars
  BY <1>3, <1>10 DEF vars
<1>11. QED
  BY <1>5, <1>6, <1>7, <1>8, <1>9, <1>10 DEF Next, Loop

\* Bytes that came in two requests never pass check_command: its END_DATA is the last byte of a
\* request, or a parameter behind the last byte of the request before.
LEMMA OnlyWholeRequestsPass ==
  ASSUME TypeOK, ReceivedInv, CommandInv, process, CheckCommand
  PROVE  sent = BUFFER_SIZE /\ <<recv[0], recv[1]>> = frame
<1> USE DEF BUFFER_SIZE
<1>1. PICK last \in Request : \A k \in 0 .. 5 :
        recv[k] = IF 6 - k <= sent THEN ByteOf(frame, sent + k - 6) ELSE ByteOf(last, sent + k)
  BY DEF ReceivedInv, CheckCommand, TypeOK
<1>2. sent \in 1 .. 6
  BY DEF TypeOK, CommandInv
<1>3. recv[5] = 255 /\ recv[3] = 0
  BY DEF CheckCommand, END_DATA
<1>4. frame[1] \in 0 .. 6 /\ frame = <<frame[1], frame[2]>>
  BY RequestAssumption DEF TypeOK, ECommand, EC_STATUS, EC_TURNONBUTTON
<1>5. recv[5] = ByteOf(frame, sent - 1)
  BY <1>1, <1>2
<1>6. CASE sent = 1
  <2>1. ByteOf(frame, 0) = frame[1]
    BY DEF ByteOf
  <2>2. QED
    BY <1>3, <1>4, <1>5, <1>6, <2>1
<1>7. CASE sent = 2
  <2>1. recv[3] = ByteOf(last, 5)
    BY <1>1, <1>7
  <2>2. ByteOf(last, 5) = 255
    BY DEF ByteOf, END_DATA
  <2>3. QED
    BY <1>3, <2>1, <2>2
<1>8. CASE sent \in {3, 4, 5}
  <2>1. ByteOf(frame, sent - 1) = 0
    BY <1>8 DEF ByteOf
  <2>2. QED
    BY <1>3, <1>5, <2>1
<1>9. CASE sent = 6
  <2>1. recv[0] = ByteOf(frame, 0) /\ recv[1] = ByteOf(frame, 1)
    BY <1>1, <1>9
  <2>2. ByteOf(frame, 0) = frame[1] /\ ByteOf(frame, 1) = frame[2]
    BY DEF ByteOf
  <2>3. QED
    BY <1>4, <1>9, <2>1, <2>2
<1>10. QED
  BY <1>2, <1>6, <1>7, <1>8, <1>9

\* No byte comes between check_command and the end of the turn, if it accepts.
LEMMA CommandStep ==
  ASSUME TypeOK, ReceivedInv, CommandInv, [Next]_vars
  PROVE  CommandInv'
<1> USE DEF CommandInv, Idle, BUFFER_SIZE, GoTo, lightVars, bufferVars, masterVars
<1>1. CASE BeginRequest
  BY <1>1 DEF BeginRequest, Quiet
<1>2. CASE Transfer
  <2>1. sent' # 0 /\ ~executed /\ pc # "execute_command"
    BY <1>2 DEF Transfer, TypeOK
  <2>2. QED
    BY <1>2, <2>1 DEF Transfer
<1>3. CASE Accept
  <2>1. sent = 6 /\ <<recv[0], recv[1]>> = frame
    BY <1>3, OnlyWholeRequestsPass DEF Accept
  <2>2. ~executed
    BY <1>3 DEF Accept, CheckCommand
  <2>3. QED
    BY <1>3, <2>1, <2>2 DEF Accept
<1>4. CASE Reject
  BY <1>4 DEF Reject
<1>5. CASE ExecuteCommand
  BY <1>5 DEF ExecuteCommand
<1>6. CASE ResetPos \/ ClearProcess
  BY <1>6 DEF ResetPos, ClearProcess
<1>7. CASE UpdateLights \/ SetBuffer \/ NothingToProcess
  BY <1>7 DEF UpdateLights, SetBuffer, NothingToProcess
<1>8. ASSUME NEW b \in Bit, MoveButton(b) PROVE CommandInv'
  BY <1>8 DEF MoveButton
<1>9. CASE UNCHANGED vars
  BY <1>9 DEF vars
<1>10. QED
  BY <1>1, <1>2, <1>3, <1>4, <1>5, <1>6, <1>7, <1>8, <1>9 DEF Next, Loop

\* A button that differs from what update_lights saw has moved.
LEMMA MovedStep == MovedInv /\ [Next]_vars => MovedInv'
<1> SUFFICES ASSUME MovedInv, [Next]_vars PROVE MovedInv'
  OBVIOUS
<1> USE DEF MovedInv, SymDiff, lightVars, masterVars
<1>1. ASSUME NEW b \in Bit, MoveButton(b) PROVE MovedInv'
  BY <1>1 DEF MoveButton
<1>2. CASE UpdateLights
  BY <1>2 DEF UpdateLights
<1>3. CASE UNCHANGED <<buttons, pins, moved>>
  BY <1>3
<1>4. QED
  BY <1>1, <1>2, <1>3
     DEF Next, Loop, SetBuffer, NothingToProcess, Accept, Reject, ExecuteCommand, ResetPos,
         ClearProcess, Transfer, BeginRequest, vars

\* Globals are zero and nothing is being sent.
LEMMA InitIInv == Init => IInv
<1> SUFFICES ASSUME Init PROVE IInv
  OBVIOUS
<1>1. TypeOK
  <2>1. recv \in [0 .. BUFFER_SIZE - 1 -> Byte]
    BY DEF Init, Byte
  <2>2. pos \in 0 .. BUFFER_SIZE /\ sent \in 0 .. BUFFER_SIZE /\ clean \in 0 .. 2
    BY DEF Init, BUFFER_SIZE
  <2>3. QED
    BY <2>1, <2>2 DEF Init, TypeOK
<1>2. SendingInv /\ SentInv /\ AlignedInv
  BY DEF Init, SendingInv, SentInv, AlignedInv, Idle, BUFFER_SIZE
<1>3. MovedInv
  BY DEF Init, MovedInv, SymDiff
<1>4. ReceivedInv /\ CommandInv
  BY DEF Init, ReceivedInv, CommandInv, BUFFER_SIZE
<1>5. QED
  BY <1>1, <1>2, <1>3, <1>4 DEF IInv

\* IInv is inductive.
LEMMA NextIInv == IInv /\ [Next]_vars => IInv'
<1> SUFFICES ASSUME IInv, [Next]_vars PROVE IInv'
  OBVIOUS
<1> USE DEF IInv
<1>1. TypeOK' /\ MovedInv' /\ ReceivedInv' /\ CommandInv'
  BY TypeStep, MovedStep, ReceivedStep, CommandStep
<1>2. SendingInv' /\ SentInv' /\ AlignedInv'
  <2>1. ASSUME NEW b \in Bit, MoveButton(b) PROVE SendingInv' /\ SentInv' /\ AlignedInv'
    BY <2>1 DEF MoveButton, bufferVars, masterVars, SendingInv, SentInv, AlignedInv, Idle
  <2>2. CASE UNCHANGED vars
    BY <2>2 DEF vars, SendingInv, SentInv, AlignedInv, Idle
  <2>3. QED
    BY <2>1, <2>2, TransferStep, LoopStep, BeginStep DEF Next
<1>3. QED
  BY <1>1, <1>2

(***************************************************************************)
(* The invariant of the interrupt, the main loop and the master.           *)
(***************************************************************************)
THEOREM InductiveInvariant == Spec => []IInv
<1>1. QED
  BY InitIInv, NextIInv, PTL DEF Spec

(***************************************************************************)
(* The variables keep their types: pos stays within recv_buffer for any    *)
(* requests, those with a parameter of 0xFF included.                      *)
(***************************************************************************)
THEOREM TypeCorrect == Spec => []TypeOK
<1>1. IInv => TypeOK
  BY DEF IInv
<1>2. QED
  BY <1>1, InductiveInvariant, PTL

(***************************************************************************)
(* Only a request that came whole is executed, and that once, whatever the *)
(* requests are and wherever in the buffer they start.                     *)
(***************************************************************************)
THEOREM WholeRequestsAreExecuted == Spec => ExecutesWhatWasSent
<1> DEFINE WholeOnce == ExecuteCommand => /\ sent = BUFFER_SIZE
                                          /\ <<recv[0], recv[1]>> = frame
                                          /\ ~executed
<1>1. ASSUME IInv PROVE WholeOnce
  BY <1>1 DEF IInv, CommandInv, ExecuteCommand
<1>2. IInv /\ [Next]_vars => [WholeOnce]_vars
  BY <1>1
<1>3. QED
  BY <1>2, InductiveInvariant, PTL DEF Spec, ExecutesWhatWasSent

(***************************************************************************)
(* The second of two requests free of 0xFF has been executed when the main *)
(* loop is done with it, whatever came before.                             *)
(***************************************************************************)
THEOREM CleanRequestIsExecuted == Spec => []CleanRequestsAreExecuted
<1>1. IInv => CleanRequestsAreExecuted
  BY DEF IInv, AlignedInv, CleanRequestsAreExecuted, Quiet
<1>2. QED
  BY <1>1, InductiveInvariant, PTL

\* While it is sent, each byte of the answer is the one whose turn it is.
THEOREM AnswerIsAligned == Spec => []AnswersAreAligned
<1>1. IInv => AnswersAreAligned
  BY DEF IInv, AlignedInv, AnswersAreAligned
<1>2. QED
  BY <1>1, InductiveInvariant, PTL

(***************************************************************************)
(* update_lights switches only lights whose button moved and is enabled.   *)
(***************************************************************************)
THEOREM LightsFollowButtons == Spec => OnlyButtonsSwitchLights
<1> DEFINE ButtonsOnly == UpdateLights => SymDiff(lights, lights') \subseteq moved \ disabled
<1>1. ASSUME IInv PROVE ButtonsOnly
  BY <1>1 DEF IInv, MovedInv, UpdateLights, SymDiff
<1>2. IInv /\ [Next]_vars => [ButtonsOnly]_vars
  BY <1>1
<1>3. QED
  BY <1>2, InductiveInvariant, PTL DEF Spec, OnlyButtonsSwitchLights
=============================================================================
