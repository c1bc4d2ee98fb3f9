------------------------------- MODULE MobileApp -------------------------------
(***************************************************************************)
(* The mobile application and its connection to the server: the thread of  *)
(* ConnectionHandler, which connects, sends, receives and connects again;  *)
(* the application's main thread, with the check boxes of ModesActivity;   *)
(* on the server the thread of this client (mobile_handler_t), another     *)
(* thread that sets modes (event_handler_t) and the heartbeat.             *)
(*                                                                         *)
(* What goes to the server is a stream of words, because two threads of    *)
(* the application write packets to it word by word (PacketBase.send).     *)
(* What comes from it is a sequence of packets: the server sends to this   *)
(* client one packet at a time.  MainActivity is created once.  The fields *)
(* of SmartyApplication are not volatile: what one thread assigns the      *)
(* other is taken to see at once.                                          *)
(***************************************************************************)
EXTENDS Naturals, Sequences

CONSTANTS
  ModeCount,  \* modes in the configuration
  QueueLen,   \* bound: packets on their way, and runnables the thread of the connection posts
  MaxClicks,  \* bound: clicks on check boxes
  MaxSets,    \* bound: modes set by the event handler
  Others      \* bound: what the server sends beside modes and configuration: "light", "heartbeat"

ASSUME BoundAssumption ==
  ModeCount \in 1 .. 2 /\ QueueLen \in Nat \ {0}
  /\ MaxClicks \in Nat /\ MaxSets \in Nat /\ Others \subseteq {"light", "heartbeat"}

VARIABLES
  \* the server
  modes,       \* event_handler_t::m_event_modes_bitset
  handler,     \* the thread of this client
  registered,  \* the client is in m_client_list
  unanswered,  \* a heartbeat was sent and not answered
  loaded,      \* the bitset set_mode_bit has loaded
  announcing,  \* what each thread is about to tell all clients
  \* the connection
  link,
  toApp,       \* packets
  toServer,    \* words
  \* the application
  thread,      \* the thread of ConnectionHandler
  value,       \* the modes it received, or has read for the check boxes
  target,      \* the activity it has read: the one there is, or one that was left
  place,       \* whether it reads the stream in the right place
  out,         \* words each thread has yet to send
  m_connected,
  m_eventModes,
  config,      \* SmartyApplication::m_config is set
  screen,      \* ModesActivity
  ui,          \* the main thread
  clicked,     \* the modes after the click, or read for the check boxes
  boxes,       \* the check boxes
  posted,      \* runnables of updateModesCheckList
  died,        \* an exception nobody catches ended the application
  \* bounds and history
  clicks, sets,
  raced,       \* the server told the client other modes than it has
  torn,        \* a word of one thread fell into a packet of the other
  crossed,     \* who has modes that the other thread overwrote since they were read
  behind       \* the modes changed while the check boxes were not in the foreground

serverVars == <<modes, handler, registered, unanswered, loaded, announcing>>
linkVars == <<link, toApp, toServer>>
threadVars == <<thread, value, target, place, m_connected, config>>
screenVars == <<screen, ui, clicked, boxes, posted>>
boundVars == <<clicks, sets>>
raceVars == <<raced, torn, crossed>>
vars == <<serverVars, linkVars, threadVars, out, m_eventModes, screenVars, died, boundVars,
          raceVars, behind>>

-----------------------------------------------------------------------------
(***************************************************************************)
(* Packets.  A packet to the server is its magic, its size and its fields; *)
(* the password and the version of the handshake are one word.             *)
(***************************************************************************)
HANDSHAKE_REQUEST == 0
HEARTBEAT_RESPONSE == 4
CONFIG_UPDATE_REQUEST == 9
UPDATE_MODES_REQUEST == 17
PASSWORD == 99
Word == {HANDSHAKE_REQUEST, HEARTBEAT_RESPONSE, CONFIG_UPDATE_REQUEST, UPDATE_MODES_REQUEST,
         PASSWORD} \cup 0 .. 7

makeHandshakeRequest == <<HANDSHAKE_REQUEST, PASSWORD>>
makeConfigUpdateRequest == <<CONFIG_UPDATE_REQUEST, 0>>
makeMobileHeartbeatResponse == <<HEARTBEAT_RESPONSE, 0>>
makeUpdateModesRequest(state) == <<UPDATE_MODES_REQUEST, 4, state>>

Plain(kind) == [kind |-> kind, modes |-> 0]
HandshakeResponse(state) == [kind |-> "handshake", modes |-> state]
ModesNotification(state) == [kind |-> "modes", modes |-> state]
Packet == [kind : {"handshake", "modes", "config", "light", "heartbeat"}, modes : 0 .. 7]

\* No announcement; get_modes_bitset( ) is yet to be called.
Nothing == 8
ToRead == 9

\* Mutant of Flip: the bit is added.
Add(bitset, idx) == bitset + 2 ^ idx

\* modesBitest ^= 1 << index
Flip(bitset, idx) ==
  IF (bitset \div 2 ^ idx) % 2 = 0 THEN bitset + 2 ^ idx ELSE bitset - 2 ^ idx

Foreground == screen = "foreground"
Room == Len(toApp) < QueueLen

-----------------------------------------------------------------------------
Init ==
  /\ modes = 0
  /\ handler = "none"
  /\ registered = FALSE
  /\ unanswered = FALSE
  /\ loaded = Nothing
  /\ announcing = [t \in {"client", "events"} |-> Nothing]
  /\ link = "none"
  /\ toApp = <<>>
  /\ toServer = <<>>
  /\ thread = "connect"
  /\ value = 0
  /\ target = "none"
  /\ place = "right"
  /\ out = [t \in {"thread", "main"} |-> <<>>]
  /\ m_connected = FALSE
  /\ m_eventModes = 0
  /\ config = FALSE
  /\ screen = "none"
  /\ ui = "idle"
  /\ clicked = 0
  /\ boxes = 0
  /\ posted = <<>>
  /\ died = FALSE
  /\ clicks = 0
  /\ sets = 0
  /\ raced = FALSE
  /\ torn = FALSE
  /\ crossed = {}
  /\ behind = FALSE

(***************************************************************************)
(* The thread of ConnectionHandler: run and do_run.  m_isStopping is never *)
(* set: nobody calls finish.                                               *)
(***************************************************************************)
\* connect, or five seconds of sleep before the next try; the server hands the socket to a thread.
\* What the main thread is still writing goes to the old stream.
Connect(works) ==
  /\ thread = "connect"
  /\ IF works
     THEN /\ link' = "open"
          /\ toApp' = <<>>
          /\ handler' = "handshake"
          /\ thread' = "handshake"
          /\ out' = [out EXCEPT !["thread"] = makeHandshakeRequest, !["main"] = <<>>]
          /\ torn' = FALSE
     ELSE UNCHANGED <<link, toApp, handler, thread, out, torn>>
  /\ UNCHANGED <<modes, registered, unanswered, loaded, announcing, toServer, value, target, place,
                 m_connected, config, m_eventModes, screenVars, died, boundVars, raced, crossed,
                 behind>>

\* The handshake is sent; then the request for the configuration; then do_run.
Sent ==
  /\ out["thread"] = <<>>
  /\ \/ /\ thread = "handshake"
        /\ m_connected' = TRUE
        /\ thread' = "config"
        /\ out' = [out EXCEPT !["thread"] = makeConfigUpdateRequest]
     \/ /\ thread \in {"config", "answer"}
        /\ thread' = "receive"
        /\ UNCHANGED <<m_connected, out>>
  /\ UNCHANGED <<serverVars, linkVars, value, target, place, config, m_eventModes, screenVars, died,
                 boundVars, raceVars, behind>>

\* In the middle of a packet.
Midway(t) == Len(out[t]) \in 1 .. (IF t = "thread" THEN 1 ELSE 2)

\* PacketBase.send writes one word; to a closed connection that may pass unnoticed.
Write(t) ==
  /\ out[t] # <<>>
  /\ out' = [out EXCEPT ![t] = Tail(@)]
  /\ toServer' = IF link = "open" THEN Append(toServer, Head(out[t])) ELSE toServer
  /\ torn' = (torn \/ \E other \in DOMAIN out \ {t} : Midway(other))
  /\ UNCHANGED <<serverVars, link, toApp, threadVars, m_eventModes, screenVars, died, boundVars,
                 raced, crossed, behind>>

\* send returns false: without handshake or request for the configuration run returns for good.
WriteFails(t) ==
  /\ out[t] # <<>>
  /\ link = "closed"
  /\ out' = [out EXCEPT ![t] = <<>>]
  /\ thread' = IF t = "main" THEN thread ELSE IF thread = "answer" THEN "receive" ELSE "ended"
  /\ UNCHANGED <<serverVars, linkVars, value, target, place, m_connected, config, m_eventModes,
                 screenVars, died, boundVars, raceVars, behind>>

\* do_run returns, run calls onDisconnect and connects again.
ReadFails ==
  /\ thread = "receive"
  /\ link = "closed"
  /\ thread' = "connect"
  /\ m_connected' = FALSE
  /\ place' = "right"
  /\ UNCHANGED <<serverVars, linkVars, value, target, config, out, m_eventModes, screenVars, died,
                 boundVars, raceVars, behind>>

\* One packet.  A light notification is four bytes, of which the application reads one.
Receive ==
  /\ thread = "receive" /\ place # "wrong" /\ toApp # <<>>
  /\ toApp' = Tail(toApp)
  /\ LET packet == Head(toApp) IN
       /\ IF packet.kind \in {"handshake", "modes"}
          THEN thread' = "set" /\ value' = packet.modes
          ELSE thread' = (IF packet.kind = "heartbeat" THEN "answer" ELSE thread) /\ value' = value
       /\ out' = IF packet.kind = "heartbeat"
                 THEN [out EXCEPT !["thread"] = makeMobileHeartbeatResponse] ELSE out
       /\ config' = (config \/ packet.kind = "config")
       /\ place' = IF packet.kind = "light" THEN "wrong" ELSE place
  /\ UNCHANGED <<serverVars, link, toServer, target, m_connected, m_eventModes, screenVars, died,
                 boundVars, raceVars, behind>>

\* With the stream three bytes late a magic is unknown and the size of a packet that has any is
\* some 64 MB and more: no memory, or the bytes that are there are read away.
ReceiveGarbled ==
  /\ thread = "receive" /\ place = "wrong" /\ toApp # <<>>
  /\ IF Head(toApp).kind = "heartbeat"
     THEN toApp' = Tail(toApp) /\ UNCHANGED <<place, died>>
     ELSE \/ died' = TRUE /\ UNCHANGED <<toApp, place>>
          \/ /\ \E n \in 1 .. Len(toApp) : toApp' = SubSeq(toApp, n + 1, Len(toApp))
             /\ place' \in {"wrong", "skipped"}
             /\ UNCHANGED died
  /\ UNCHANGED <<serverVars, link, toServer, thread, value, target, m_connected, config, out,
                 m_eventModes, screenVars, boundVars, raceVars, behind>>

\* The check boxes get what thread t has read.
Posted(t) == (crossed \ {"boxes", t}) \cup (IF t \in crossed THEN {"boxes"} ELSE {})

\* SmartyApplication.setEventModesBitset: the assignment ...
SetEventModes ==
  /\ thread = "set"
  /\ m_eventModes' = value
  /\ thread' = "check"
  /\ value' = 0
  /\ crossed' = crossed \cup {t \in {"main"} : ui = "post" /\ clicked # value}
  /\ behind' = (behind \/ screen = "hidden")
  /\ UNCHANGED <<serverVars, linkVars, target, place, m_connected, config, out, screenVars, died,
                 boundVars, raced, torn>>

\* ... the test of m_modesActivityForeground ...
CheckForeground ==
  /\ thread = "check"
  /\ thread' = IF Foreground THEN "load" ELSE "receive"
  /\ behind' = (behind \/ (~Foreground /\ screen # "none"))
  /\ UNCHANGED <<serverVars, linkVars, value, target, place, m_connected, config, out, m_eventModes,
                 screenVars, died, boundVars, raceVars>>

\* ... its load for the call, which fails if onPause came between ...
LoadForeground ==
  /\ thread = "load"
  /\ IF Foreground THEN target' = "shown" /\ thread' = "read" /\ died' = died
                   ELSE died' = TRUE /\ UNCHANGED <<target, thread>>
  /\ UNCHANGED <<serverVars, linkVars, value, place, m_connected, config, out, m_eventModes,
                 screenVars, boundVars, raceVars, behind>>

\* ... the load of m_eventModes, which the main thread may have assigned ...
ReadModes ==
  /\ thread = "read"
  /\ value' = m_eventModes
  /\ thread' = "post"
  /\ UNCHANGED <<serverVars, linkVars, target, place, m_connected, config, out, m_eventModes,
                 screenVars, died, boundVars, raceVars, behind>>

\* ... and the post of updateModesCheckList.
PostModes ==
  /\ thread = "post"
  /\ Len(posted) < QueueLen
  /\ IF target = "shown"
     THEN posted' = Append(posted, value) /\ crossed' = Posted("thread") /\ behind' = FALSE
     ELSE crossed' = crossed \ {"thread"} /\ UNCHANGED <<posted, behind>>
  /\ thread' = "receive"
  /\ value' = 0
  /\ target' = "none"
  /\ UNCHANGED <<serverVars, linkVars, place, m_connected, config, out, m_eventModes, screen, ui,
                 clicked, boxes, died, boundVars, raced, torn>>

(***************************************************************************)
(* The main thread: ModesActivity.                                         *)
(***************************************************************************)
\* onCreate; without a configuration it runs into a null pointer.
OpenModes ==
  /\ ui = "idle" /\ screen = "none"
  /\ IF config
     THEN /\ screen' = "hidden"
          /\ boxes' = m_eventModes % 2 ^ ModeCount
          /\ behind' = FALSE
          /\ died' = died
     ELSE died' = TRUE /\ UNCHANGED <<screen, boxes, behind>>
  /\ UNCHANGED <<serverVars, linkVars, threadVars, out, m_eventModes, ui, clicked, posted,
                 boundVars, raceVars>>

Resume ==
  /\ ui = "idle" /\ screen = "hidden"
  /\ screen' = "foreground"
  /\ UNCHANGED <<serverVars, linkVars, threadVars, out, m_eventModes, ui, clicked, boxes, posted,
                 died, boundVars, raceVars, behind>>

Pause ==
  /\ ui = "idle" /\ Foreground
  /\ screen' = "hidden"
  /\ UNCHANGED <<serverVars, linkVars, threadVars, out, m_eventModes, ui, clicked, boxes, posted,
                 died, boundVars, raceVars, behind>>

\* The activity is destroyed; what was posted or is about to be goes to its boxes.
Leave ==
  /\ ui = "idle" /\ screen = "hidden"
  /\ screen' = "none"
  /\ posted' = <<>>
  /\ target' = IF target = "shown" THEN "left" ELSE target
  /\ boxes' = 0
  /\ crossed' = crossed \ {"boxes"}
  /\ behind' = FALSE
  /\ UNCHANGED <<serverVars, linkVars, thread, value, place, m_connected, config, out, m_eventModes,
                 ui, clicked, died, boundVars, raced, torn>>

\* The runnable of updateModesCheckList.
ShowModes ==
  /\ ui = "idle" /\ posted # <<>>
  /\ boxes' = Head(posted) % 2 ^ ModeCount
  /\ posted' = Tail(posted)
  /\ UNCHANGED <<serverVars, linkVars, threadVars, out, m_eventModes, screen, ui, clicked, died,
                 boundVars, raceVars, behind>>

\* The box changes and onClick reads the modes ...
Click(idx) ==
  /\ ui = "idle" /\ Foreground /\ clicks < MaxClicks
  /\ clicks' = clicks + 1
  /\ boxes' = Flip(boxes, idx)
  /\ clicked' = Flip(m_eventModes, idx)
  /\ ui' = "write"
  /\ UNCHANGED <<serverVars, linkVars, threadVars, out, m_eventModes, screen, posted, died, sets,
                 raceVars, behind>>

\* ... assigns them, with setEventModesBitset on this thread ...
WriteClick ==
  /\ ui = "write"
  /\ m_eventModes' = clicked
  /\ clicked' = 0
  /\ ui' = "read"
  /\ crossed' = crossed \cup {t \in {"thread"} : thread = "post" /\ value # clicked}
  /\ UNCHANGED <<serverVars, linkVars, threadVars, out, screen, boxes, posted, died, boundVars,
                 raced, torn, behind>>

\* ... reads m_eventModes for the check boxes, which are in the foreground ...
ReadClick ==
  /\ ui = "read"
  /\ clicked' = m_eventModes
  /\ ui' = "post"
  /\ UNCHANGED <<serverVars, linkVars, threadVars, out, m_eventModes, screen, boxes, posted, died,
                 boundVars, raceVars, behind>>

\* ... posts it ...
PostClick ==
  /\ ui = "post"
  /\ posted' = Append(posted, clicked)
  /\ crossed' = Posted("main")
  /\ behind' = FALSE
  /\ clicked' = 0
  /\ ui' = "request"
  /\ UNCHANGED <<serverVars, linkVars, threadVars, out, m_eventModes, screen, boxes, died,
                 boundVars, raced, torn>>

\* ... and reads m_eventModes once more to send it: updateModes.
RequestModesUpdate ==
  /\ ui = "request"
  /\ out' = [out EXCEPT !["main"] = makeUpdateModesRequest(m_eventModes)]
  /\ ui' = "send"
  /\ UNCHANGED <<serverVars, linkVars, threadVars, m_eventModes, screen, clicked, boxes, posted,
                 died, boundVars, raceVars, behind>>

ClickEnds ==
  /\ ui = "send"
  /\ out["main"] = <<>>
  /\ ui' = "idle"
  /\ UNCHANGED <<serverVars, linkVars, threadVars, out, m_eventModes, screen, clicked, boxes,
                 posted, died, boundVars, raceVars, behind>>

(***************************************************************************)
(* The server.                                                             *)
(***************************************************************************)
\* The socket is closed and the thread of the client is free for another.  What it was about to
\* announce does not reach this client any more, whose next handshake has it.
Close ==
  /\ link' = "closed"
  /\ toServer' = <<>>
  /\ handler' = "none"
  /\ registered' = FALSE
  /\ unanswered' = FALSE
  /\ announcing' = [announcing EXCEPT !["client"] = Nothing]

\* create_client_handler with make_handshake: the modes are read for the response.
Handshake ==
  /\ handler = "handshake" /\ Len(toServer) >= 2
  /\ IF SubSeq(toServer, 1, 2) = makeHandshakeRequest
     THEN /\ Room
          /\ toServer' = SubSeq(toServer, 3, Len(toServer))
          /\ toApp' = Append(toApp, HandshakeResponse(modes))
          /\ handler' = "config"
          /\ raced' = FALSE
          /\ UNCHANGED <<link, registered, unanswered, announcing>>
     ELSE Close /\ UNCHANGED <<toApp, raced>>
  /\ UNCHANGED <<modes, loaded, threadVars, out, m_eventModes, screenVars, died,
                 boundVars, torn, crossed, behind>>

\* update_mobile_config
UpdateMobileConfig ==
  /\ handler = "config" /\ Len(toServer) >= 2
  /\ IF Head(toServer) = CONFIG_UPDATE_REQUEST
     THEN /\ Room
          /\ toServer' = SubSeq(toServer, 3, Len(toServer))
          /\ toApp' = Append(toApp, Plain("config"))
          /\ handler' = "add"
          /\ UNCHANGED <<link, registered, unanswered, announcing>>
     ELSE Close /\ UNCHANGED toApp
  /\ UNCHANGED <<modes, loaded, threadVars, out, m_eventModes, screenVars, died,
                 boundVars, raceVars, behind>>

AddClient ==
  /\ handler = "add"
  /\ registered' = TRUE
  /\ handler' = "serve"
  /\ UNCHANGED <<modes, unanswered, loaded, announcing, linkVars, threadVars, out, m_eventModes,
                 screenVars, died, boundVars, raceVars, behind>>

\* mobile_heartbeat_response_t, or anything else that starts with its magic.
HeartbeatResponse ==
  /\ handler = "serve" /\ Len(toServer) >= 2
  /\ Head(toServer) = HEARTBEAT_RESPONSE
  /\ toServer' = SubSeq(toServer, 3, Len(toServer))
  /\ unanswered' = FALSE
  /\ UNCHANGED <<modes, handler, registered, loaded, announcing, link, toApp, threadVars, out,
                 m_eventModes, screenVars, died, boundVars, raceVars, behind>>

\* Mutant of UpdateModes: the modes are compared when they have been set.
UpdateModesSilently ==
  /\ handler = "serve" /\ Len(toServer) >= 3
  /\ Head(toServer) = UPDATE_MODES_REQUEST
  /\ toServer' = SubSeq(toServer, 4, Len(toServer))
  /\ modes' = toServer[3]
  /\ UNCHANGED <<handler, registered, unanswered, loaded, announcing, link, toApp, threadVars, out,
                 m_eventModes, screenVars, died, boundVars, raceVars, behind>>

\* event_handler_t::update_modes with whatever word is where the modes should be.
UpdateModes ==
  /\ handler = "serve" /\ Len(toServer) >= 3
  /\ Head(toServer) = UPDATE_MODES_REQUEST
  /\ toServer' = SubSeq(toServer, 4, Len(toServer))
  /\ modes' = toServer[3]
  /\ IF modes' = modes
     THEN UNCHANGED <<handler, announcing>>
     ELSE handler' = "update" /\ announcing' = [announcing EXCEPT !["client"] = ToRead]
  /\ UNCHANGED <<registered, unanswered, loaded, link, toApp, threadVars, out, m_eventModes,
                 screenVars, died, boundVars, raceVars, behind>>

\* A magic that is none of these, or a torn packet with the wrong size.
ReceiveError ==
  /\ handler = "serve" /\ toServer # <<>>
  /\ \/ Head(toServer) \notin {HEARTBEAT_RESPONSE, UPDATE_MODES_REQUEST}
     \/ Len(toServer) >= 2 /\ toServer[2] # (IF Head(toServer) = HEARTBEAT_RESPONSE THEN 0 ELSE 4)
  /\ Close
  /\ UNCHANGED <<modes, loaded, toApp, threadVars, out, m_eventModes, screenVars, died,
                 boundVars, raceVars, behind>>

\* event_handler_t::set_mode_bit, on the thread of the event handler: a load ...
LoadModes ==
  /\ loaded = Nothing /\ announcing["events"] = Nothing /\ sets < MaxSets
  /\ sets' = sets + 1
  /\ loaded' = modes
  /\ UNCHANGED <<modes, handler, registered, unanswered, announcing, linkVars, threadVars, out,
                 m_eventModes, screenVars, died, clicks, raceVars, behind>>

\* ... and a store, whatever the modes are by then.
SetModeBit(bit, onOff) ==
  /\ loaded # Nothing
  /\ LET isOn == (loaded \div 2 ^ (bit - 1)) % 2 = 1
         set == IF isOn = onOff THEN loaded ELSE Flip(loaded, bit - 1)
     IN /\ modes' = set
        /\ announcing' = IF set = loaded THEN announcing
                         ELSE [announcing EXCEPT !["events"] = ToRead]
        /\ raced' = (raced \/ (set = loaded /\ set # modes))
  /\ loaded' = Nothing
  /\ UNCHANGED <<handler, registered, unanswered, linkVars, threadVars, out, m_eventModes,
                 screenVars, died, boundVars, torn, crossed, behind>>

\* get_modes_bitset( ), before the register's lock is taken.
GetModes(t) ==
  /\ announcing[t] = ToRead
  /\ announcing' = [announcing EXCEPT ![t] = modes]
  /\ UNCHANGED <<modes, handler, registered, unanswered, loaded, linkVars, threadVars, out,
                 m_eventModes, screenVars, died, boundVars, raceVars, behind>>

\* mobile_register_t::notify_modes_update, under the lock.
NotifyModesUpdate(t) ==
  /\ announcing[t] \notin {Nothing, ToRead}
  /\ registered => Room
  /\ toApp' = IF registered /\ link = "open"
              THEN Append(toApp, ModesNotification(announcing[t])) ELSE toApp
  /\ raced' = IF registered THEN announcing[t] # modes ELSE raced \/ handler \in {"config", "add"}
  /\ announcing' = [announcing EXCEPT ![t] = Nothing]
  /\ handler' = IF t = "client" /\ handler = "update" THEN "serve" ELSE handler
  /\ UNCHANGED <<modes, registered, unanswered, loaded, link, toServer, threadVars, out,
                 m_eventModes, screenVars, died, boundVars, torn, crossed, behind>>

\* update_clients, when a light changes.
NotifyLight ==
  /\ registered /\ Room
  /\ "light" \in Others
  /\ toApp' = Append(toApp, Plain("light"))
  /\ UNCHANGED <<serverVars, link, toServer, threadVars, out, m_eventModes, screenVars, died,
                 boundVars, raceVars, behind>>

\* Mutant of AskAlive: the client counts as alive when it was asked.
AskAliveOnly ==
  /\ registered /\ ~unanswered /\ Room
  /\ "heartbeat" \in Others
  /\ toApp' = Append(toApp, Plain("heartbeat"))
  /\ UNCHANGED <<serverVars, link, toServer, threadVars, out, m_eventModes, screenVars, died,
                 boundVars, raceVars, behind>>

\* check_liveness: the request ...
AskAlive ==
  /\ registered /\ ~unanswered /\ Room
  /\ "heartbeat" \in Others
  /\ toApp' = Append(toApp, Plain("heartbeat"))
  /\ unanswered' = TRUE
  /\ UNCHANGED <<modes, handler, registered, loaded, announcing, link, toServer, threadVars, out,
                 m_eventModes, screenVars, died, boundVars, raceVars, behind>>

\* ... and two periods later drop_client.
DropClient ==
  /\ registered /\ unanswered
  /\ Close
  /\ UNCHANGED <<modes, loaded, toApp, threadVars, out, m_eventModes, screenVars, died,
                 boundVars, raceVars, behind>>

\* The network breaks the connection.
Break ==
  /\ link = "open"
  /\ Close
  /\ UNCHANGED <<modes, loaded, toApp, threadVars, out, m_eventModes, screenVars, died,
                 boundVars, raceVars, behind>>

-----------------------------------------------------------------------------
ConnectionThread ==
  \/ Sent
  \/ Write("thread")
  \/ WriteFails("thread")
  \/ ReadFails
  \/ Receive
  \/ ReceiveGarbled
  \/ SetEventModes
  \/ CheckForeground
  \/ LoadForeground
  \/ ReadModes
  \/ PostModes

MainThread ==
  \/ ShowModes
  \/ WriteClick
  \/ ReadClick
  \/ PostClick
  \/ RequestModesUpdate
  \/ Write("main")
  \/ WriteFails("main")
  \/ ClickEnds

User == OpenModes \/ Resume \/ Pause \/ Leave \/ \E idx \in 0 .. ModeCount - 1 : Click(idx)

ClientHandler ==
  \/ Handshake
  \/ UpdateMobileConfig
  \/ AddClient
  \/ HeartbeatResponse
  \/ UpdateModes
  \/ ReceiveError
  \/ GetModes("client")
  \/ NotifyModesUpdate("client")

EventThread ==
  \/ \E bit \in 1 .. ModeCount, onOff \in BOOLEAN : SetModeBit(bit, onOff)
  \/ GetModes("events")
  \/ NotifyModesUpdate("events")

Next ==
  /\ ~died
  /\ \/ \E works \in BOOLEAN : Connect(works)
     \/ ConnectionThread
     \/ MainThread
     \/ User
     \/ ClientHandler
     \/ LoadModes
     \/ EventThread
     \/ NotifyLight
     \/ AskAlive
     \/ DropClient
     \/ Break

\* The thread of the connection goes on reading and the heartbeat's timer fires; it waits for room
\* to send, which comes and goes.  Nobody has to click, to set a mode or to show what was posted,
\* no thread has to write, and the network need not let the application connect.
Fairness ==
  /\ WF_vars(~died /\ (ReadFails \/ ReceiveGarbled))
  /\ SF_vars(~died /\ AskAlive)
  /\ WF_vars(~died /\ DropClient)

Spec == Init /\ [][Next]_vars
FairSpec == Spec /\ Fairness

-----------------------------------------------------------------------------
TypeOK ==
  /\ modes \in 0 .. 7
  /\ handler \in {"none", "handshake", "config", "add", "serve", "update"}
  /\ registered \in BOOLEAN
  /\ unanswered \in BOOLEAN
  /\ loaded \in 0 .. 7 \cup {Nothing}
  /\ announcing \in [{"client", "events"} -> 0 .. 7 \cup {Nothing, ToRead}]
  /\ link \in {"none", "open", "closed"}
  /\ toApp \in Seq(Packet) /\ Len(toApp) <= QueueLen
  /\ toServer \in Seq(Word)
  /\ thread \in {"connect", "handshake", "config", "receive", "answer", "set", "check", "load",
                 "read", "post", "ended"}
  /\ value \in 0 .. 7
  /\ target \in {"none", "shown", "left"}
  /\ place \in {"right", "wrong", "skipped"}
  /\ out \in [{"thread", "main"} -> Seq(Word)]
  /\ m_connected \in BOOLEAN
  /\ m_eventModes \in 0 .. 7
  /\ config \in BOOLEAN
  /\ screen \in {"none", "hidden", "foreground"}
  /\ ui \in {"idle", "write", "read", "post", "request", "send"}
  /\ clicked \in 0 .. 7
  /\ boxes \in 0 .. 2 ^ ModeCount - 1
  /\ posted \in Seq(0 .. 7)
  /\ died \in BOOLEAN
  /\ clicks \in 0 .. MaxClicks
  /\ sets \in 0 .. MaxSets
  /\ raced \in BOOLEAN
  /\ torn \in BOOLEAN
  /\ crossed \subseteq {"thread", "main", "boxes"}
  /\ behind \in BOOLEAN

\* Nothing is on its way and no thread is at work; the client is served and has read every packet.
Quiet ==
  /\ ~died
  /\ handler = "serve" /\ registered /\ link = "open"
  /\ loaded = Nothing
  /\ \A t \in DOMAIN announcing : announcing[t] = Nothing
  /\ toApp = <<>> /\ toServer = <<>>
  /\ \A t \in DOMAIN out : out[t] = <<>>
  /\ thread = "receive" /\ place = "right"
  /\ ui = "idle" /\ posted = <<>>

(***************************************************************************)
(* The screen shows the modes the server has (setEventModesBitset,         *)
(* updateModesCheckList, update_modes, notify_modes_update), whatever      *)
(* clicks, notifications, torn packets and lost connections came before,   *)
(* but for these: an announcement that was read before the lock overtook   *)
(* another, or came between handshake and add_client, or set_mode_bit      *)
(* wrote over an update (raced); check boxes that were not in the          *)
(* foreground when the modes changed are not brought up to date (behind);  *)
(* and the last modes posted to them had been overwritten by the other     *)
(* thread since SmartyApplication.java:93 read them (crossed).             *)
(***************************************************************************)
ScreenShowsTheModes ==
  Quiet /\ ~raced /\ ~torn =>
    /\ m_eventModes = modes
    /\ Foreground /\ ~behind /\ "boxes" \notin crossed => boxes = m_eventModes % 2 ^ ModeCount

(***************************************************************************)
(* An application that reads in the wrong place does not answer and is     *)
(* dropped (check_liveness): it starts anew, if it has not died of it.     *)
(***************************************************************************)
LostPlaceEnds == place = "wrong" ~> (place # "wrong" \/ died)
=============================================================================
