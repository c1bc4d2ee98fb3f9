------------------------------- MODULE Registers -------------------------------
(***************************************************************************)
(* mobile_register_t and desktop_register_t with the threads that serve    *)
(* the clients (mobile_handler_t, desktop_handler_t).  A client is one     *)
(* connection, and stands for its socket and for the thread serving it.    *)
(*                                                                         *)
(* A section of code under m_client_list_mutex sends and drops, and takes  *)
(* no other lock: it is one step.  Under m_clients_lock the desktop        *)
(* register calls the mobile one, so that lock has an owner and its        *)
(* sections several steps.  Lock order: desktops, then mobiles.            *)
(*                                                                         *)
(* Two places of the code are undefined: remove_desktop( socket_t* ) goes  *)
(* on from an erased iterator, and set_heartbeat_lasttime writes, without  *)
(* the mutex, to a list node that may be erased.  Either does nothing, or  *)
(* the process ends.                                                       *)
(***************************************************************************)
EXTENDS Naturals

CONSTANTS
  Mobile,      \* connections of mobile clients
  Desktop,     \* connections of desktop clients
  Index,       \* the numbers desktops give themselves; 0 is none
  Lights,      \* values of the device's word of lights
  OtherWord,   \* the words of the device beside the lights; bound: those whose changes are looked at
  NoDesktop,   \* m_desktops has no entry
  NoClient     \* m_clients_lock is free

ASSUME ClientAssumption ==
  /\ Mobile \cap Desktop = {}
  /\ NoClient \notin Mobile \cup Desktop
  /\ NoDesktop \notin Desktop
ASSUME IndexAssumption == Index \subseteq Nat \ {0} /\ Index # {}

Client == Mobile \cup Desktop

VARIABLES
  pc,         \* the thread of each client
  index,      \* m_desktop_index of a desktop's handler; the index a mobile's command failed for
  mobiles,    \* m_client_list
  desktops,   \* m_desktops
  lock,       \* the client whose thread holds m_clients_lock
  toTell,     \* refresh_desktops_info: entries still to be announced
  late,       \* registered clients whose last_time is two timeouts ago or more
  asked,      \* clients with a heartbeat request to answer
  gone,       \* clients nothing more arrives from: power or network lost
  cut,        \* clients whose socket drop_client closed
  told,       \* the desktops a registered mobile was told of as connected
  lights,     \* m_device_state.lights
  previous,   \* m_prev_device_state.lights
  updated,    \* m_update_event, manual reset
  callback,   \* a callback has written the lights and not yet set m_update_event
  device,     \* the thread of device_t
  word,       \* the lights update_clients is telling
  carried,    \* history: the last change of the lights is one the device thread tells of
  view,       \* the lights each mobile was last told
  missed,     \* history: other lights were told between the mobile's handshake and add_client
  up          \* the process lives

registerVars == <<mobiles, desktops, told, view, missed>>
heartbeatVars == <<late, asked>>
lightVars == <<lights, previous, updated, callback, device, word, carried>>
vars == <<pc, index, mobiles, desktops, lock, toTell, late, asked, gone, cut, told, lights,
          previous, updated, callback, device, word, carried, view, missed, up>>

Entry(d) == {i \in Index : desktops[i] = d}
Entries == {i \in Index : desktops[i] # NoDesktop}

GoTo(c, place) == pc' = [pc EXCEPT ![c] = place]

\* The state of a socket no client uses: what finish_connection leaves.
Forgotten(c) ==
  /\ asked' = asked \ {c}
  /\ gone' = gone \ {c}
  /\ cut' = cut \ {c}

-----------------------------------------------------------------------------
Init ==
  /\ pc = [c \in Client |-> "out"]
  /\ index = [c \in Client |-> 0]
  /\ mobiles = {}
  /\ desktops = [i \in Index |-> NoDesktop]
  /\ lock = NoClient
  /\ toTell = {}
  /\ late = {}
  /\ asked = {}
  /\ gone = {}
  /\ cut = {}
  /\ told = [m \in Mobile |-> {}]
  /\ lights \in Lights
  /\ previous = lights
  /\ updated = FALSE
  /\ callback = FALSE
  /\ device = "wait"
  /\ word = lights
  /\ carried = TRUE
  /\ view = [m \in Mobile |-> lights]
  /\ missed = {}
  /\ up = TRUE

(***************************************************************************)
(* Under m_client_list_mutex.                                              *)
(***************************************************************************)
\* Mutant of Drop: the socket is closed, the entry stays.
DropCut(lost) ==
  /\ mobiles' = mobiles
  /\ late' = late
  /\ cut' = cut \cup lost

\* drop_client for the mobiles in lost.
Drop(lost) ==
  /\ mobiles' = mobiles \ lost
  /\ late' = late \ lost
  /\ cut' = cut \cup lost

\* A send fails only to a client that is gone, and need not.
Lost == SUBSET (mobiles \cap gone)

\* notify_clients, for a notification that changes what is known of desktop i from Known.
Notify(Known(_)) ==
  \E lost \in Lost :
    /\ Drop(lost)
    /\ told' = [m \in Mobile |-> IF m \in mobiles \ lost THEN Known(told[m]) ELSE {}]
    /\ missed' = missed \ lost

TellConnected(i) == Notify(LAMBDA known : known \cup {i})
TellDisconnected(i) == Notify(LAMBDA known : known \ {i})
TellOther == Notify(LAMBDA known : known)

(***************************************************************************)
(* A mobile client: make_handshake and process_client.                     *)
(***************************************************************************)
\* The response carries the lights; the client list does not know the client yet.
MobileHandshake(m) ==
  /\ pc[m] = "out"
  /\ view' = [view EXCEPT ![m] = lights]
  /\ GoTo(m, "config")
  /\ UNCHANGED <<index, mobiles, desktops, lock, toTell, heartbeatVars, gone, cut, told,
                 lightVars, missed, up>>

\* The handshake's or the configuration's exchange fails.
HandshakeFails(m) ==
  /\ pc[m] = "config"
  /\ GoTo(m, "out")
  /\ Forgotten(m)
  /\ missed' = missed \ {m}
  /\ UNCHANGED <<index, mobiles, desktops, lock, toTell, late, told, lightVars, view, up>>

\* add_client; on_client_connected follows with the mutex released.
AddClient(m) ==
  /\ pc[m] = "config"
  /\ mobiles' = mobiles \cup {m}
  /\ GoTo(m, "refresh")
  /\ UNCHANGED <<index, desktops, lock, toTell, heartbeatVars, gone, cut, told, lightVars, view,
                 missed, up>>

\* desktop_command_request_t with EDC_REFRESH_DESKTOPS.
AskRefresh(m) ==
  /\ pc[m] = "serve"
  /\ m \notin gone \cup cut
  /\ GoTo(m, "refresh")
  /\ UNCHANGED <<index, registerVars, lock, toTell, heartbeatVars, gone, cut, lightVars, up>>

\* Mutant of RefreshDesktops: the entries are copied and the lock is released.
RefreshUnlocked(m) ==
  /\ pc[m] = "refresh"
  /\ lock = NoClient
  /\ toTell = {}
  /\ toTell' = Entries
  /\ GoTo(m, "tellAll")
  /\ UNCHANGED <<index, registerVars, lock, heartbeatVars, gone, cut, lightVars, up>>

\* refresh_desktops_info takes the lock for its whole loop.
RefreshDesktops(m) ==
  /\ pc[m] = "refresh"
  /\ lock = NoClient
  /\ lock' = m
  /\ toTell' = Entries
  /\ GoTo(m, "tellAll")
  /\ UNCHANGED <<index, registerVars, heartbeatVars, gone, cut, lightVars, up>>

\* One turn of its loop, in the order of the map: every mobile is told, not only the new one.
TellEntry(m) ==
  /\ pc[m] = "tellAll"
  /\ \E i \in toTell :
       /\ \A k \in toTell : i <= k
       /\ TellConnected(i)
       /\ toTell' = toTell \ {i}
  /\ UNCHANGED <<pc, index, desktops, lock, asked, gone, lightVars, view, up>>

RefreshEnds(m) ==
  /\ pc[m] = "tellAll"
  /\ toTell = {}
  /\ lock' = NoClient
  /\ GoTo(m, "serve")
  /\ UNCHANGED <<index, registerVars, toTell, heartbeatVars, gone, cut, lightVars, up>>

\* execute_desktop_command whose send fails; one that succeeds changes nothing here.
CommandFails(m, i) ==
  /\ pc[m] = "serve"
  /\ m \notin gone \cup cut
  /\ lock = NoClient
  /\ desktops[i] \in gone
  /\ lock' = m
  /\ index' = [index EXCEPT ![m] = i]
  /\ GoTo(m, "tellGone")
  /\ UNCHANGED <<registerVars, toTell, heartbeatVars, gone, cut, lightVars, up>>

\* set_heartbeat_lasttime finds the client in the list ...
FindMobile(m) ==
  /\ pc[m] = "serve"
  /\ m \in asked \ (gone \cup cut)
  /\ asked' = asked \ {m}
  /\ GoTo(m, IF m \in mobiles THEN "beat" ELSE "serve")
  /\ UNCHANGED <<index, registerVars, lock, toTell, late, gone, cut, lightVars, up>>

\* ... and writes last_time to the node it found, which may be erased by now.
Beat(m) ==
  /\ pc[m] = "beat"
  /\ late' = late \ {m}
  /\ up' \in IF m \in mobiles THEN {TRUE} ELSE BOOLEAN
  /\ GoTo(m, "serve")
  /\ UNCHANGED <<index, registerVars, lock, toTell, asked, gone, cut, lightVars>>

\* Mutant of RemoveClient: the thread ends without remove_client, as it may before add_client.
LeaveRegistered(m) ==
  /\ pc[m] = "serve"
  /\ Forgotten(m)
  /\ GoTo(m, "out")
  /\ UNCHANGED <<index, registerVars, lock, toTell, late, lightVars, up>>

\* A disconnect request, a receive error or a failed configuration response: remove_client,
\* and finish_connection closes the socket.
RemoveClient(m) ==
  /\ pc[m] = "serve"
  /\ mobiles' = mobiles \ {m}
  /\ late' = late \ {m}
  /\ told' = [told EXCEPT ![m] = {}]
  /\ missed' = missed \ {m}
  /\ Forgotten(m)
  /\ GoTo(m, "out")
  /\ UNCHANGED <<index, desktops, lock, toTell, lightVars, view, up>>

\* update_modes ends in notify_modes_update.
NotifyModes(m) ==
  /\ pc[m] = "serve"
  /\ mobiles \cap gone # {}
  /\ TellOther
  /\ UNCHANGED <<pc, index, desktops, lock, toTell, asked, gone, lightVars, view, up>>

(***************************************************************************)
(* A desktop client: make_handshake and process_client.                    *)
(***************************************************************************)
\* The client chooses its index, and may choose one that is in use.
DesktopHandshake(d, i) ==
  /\ pc[d] = "out"
  /\ index' = [index EXCEPT ![d] = i]
  /\ GoTo(d, "add")
  /\ UNCHANGED <<registerVars, lock, toTell, heartbeatVars, gone, cut, lightVars, up>>

\* add_desktop: an older entry of the index is deleted, its client is not told nor closed.
AddDesktop(d) ==
  /\ pc[d] = "add"
  /\ lock = NoClient
  /\ desktops' = [desktops EXCEPT ![index[d]] = d]
  /\ late' = late \ {desktops[index[d]]}
  /\ GoTo(d, "announce")
  /\ UNCHANGED <<index, mobiles, lock, toTell, asked, gone, cut, told, lightVars, view, missed,
                 up>>

\* on_desktop_connected, with the lock released.
Announce(d) ==
  /\ pc[d] = "announce"
  /\ TellConnected(index[d])
  /\ GoTo(d, "serve")
  /\ UNCHANGED <<index, desktops, lock, toTell, asked, gone, lightVars, view, up>>

\* A notification of the desktop's own (shut down, locked, ...), passed on to the mobiles.
PassOn(d) ==
  /\ pc[d] = "serve"
  /\ d \notin gone
  /\ mobiles \cap gone # {}
  /\ TellOther
  /\ UNCHANGED <<pc, index, desktops, lock, toTell, asked, gone, lightVars, view, up>>

\* set_heartbeat_lasttime goes by the index: it may meet another client's entry.
DesktopBeat(d) ==
  /\ pc[d] = "serve"
  /\ d \in asked \ gone
  /\ lock = NoClient
  /\ asked' = asked \ {d}
  /\ late' = late \ {desktops[index[d]]}
  /\ UNCHANGED <<pc, index, registerVars, lock, toTell, gone, cut, lightVars, up>>

\* A disconnect request or a receive error: remove_desktop( socket_t* ).
FindDesktop(d) ==
  /\ pc[d] = "serve"
  /\ lock = NoClient
  /\ Entry(d) # {}
  /\ lock' = d
  /\ GoTo(d, "tellGone")
  /\ UNCHANGED <<index, registerVars, toTell, heartbeatVars, gone, cut, lightVars, up>>

\* No entry: it was replaced, or check_liveness or a failed command removed it.
FindNoDesktop(d) ==
  /\ pc[d] = "serve"
  /\ lock = NoClient
  /\ Entry(d) = {}
  /\ Forgotten(d)
  /\ index' = [index EXCEPT ![d] = 0]
  /\ GoTo(d, "out")
  /\ UNCHANGED <<registerVars, lock, toTell, late, lightVars, up>>

\* on_desktop_disconnected, under the lock.
TellGone(c) ==
  /\ pc[c] = "tellGone"
  /\ TellDisconnected(index[c])
  /\ GoTo(c, "erase")
  /\ UNCHANGED <<index, desktops, lock, toTell, asked, gone, lightVars, view, up>>

\* do_remove_desktop
Erased(c) ==
  /\ desktops' = [desktops EXCEPT ![index[c]] = NoDesktop]
  /\ late' = late \ {desktops[index[c]]}

\* The end of execute_desktop_command.
EraseForMobile(m) ==
  /\ pc[m] = "erase"
  /\ Erased(m)
  /\ lock' = NoClient
  /\ index' = [index EXCEPT ![m] = 0]
  /\ GoTo(m, "serve")
  /\ UNCHANGED <<mobiles, toTell, asked, gone, cut, told, lightVars, view, missed, up>>

\* The end of remove_desktop( socket_t* ), whose loop goes on from the erased iterator.
EraseForDesktop(d) ==
  /\ pc[d] = "erase"
  /\ Erased(d)
  /\ lock' = NoClient
  /\ index' = [index EXCEPT ![d] = 0]
  /\ Forgotten(d)
  /\ GoTo(d, "out")
  /\ up' \in BOOLEAN
  /\ UNCHANGED <<mobiles, toTell, told, lightVars, view, missed>>

(***************************************************************************)
(* The heartbeat threads: client_heartbeat_t::do_run.                      *)
(***************************************************************************)
\* Two timeouts since the client's last_time.
BecomeLate(c) ==
  /\ c \in mobiles \/ c \in {desktops[i] : i \in Entries}
  /\ c \notin late
  /\ late' = late \cup {c}
  /\ UNCHANGED <<pc, index, registerVars, lock, toTell, asked, gone, cut, lightVars, up>>

\* mobile_register_t::check_liveness.  A failed send of the request is ignored.
CheckMobiles ==
  /\ mobiles # {}
  /\ Drop(late \cap mobiles)
  /\ told' = [m \in Mobile |-> IF m \in late THEN {} ELSE told[m]]
  /\ missed' = missed \ late
  /\ asked' = asked \cup (mobiles \ late)
  /\ UNCHANGED <<pc, index, desktops, lock, toTell, gone, lightVars, view, up>>

\* Mutant of CheckDesktops: a desktop that is not alive is asked again.
AskDesktops ==
  /\ lock = NoClient
  /\ Entries # {}
  /\ asked' = asked \cup {desktops[i] : i \in Entries}
  /\ UNCHANGED <<pc, index, registerVars, lock, toTell, late, gone, cut, lightVars, up>>

\* desktop_register_t::check_liveness: the mobiles are not told, the socket is not closed.
CheckDesktops ==
  /\ lock = NoClient
  /\ Entries # {}
  /\ desktops' = [i \in Index |-> IF desktops[i] \in late THEN NoDesktop ELSE desktops[i]]
  /\ late' = late \ Desktop
  /\ asked' = asked \cup ({desktops[i] : i \in Entries} \ late)
  /\ UNCHANGED <<pc, index, mobiles, lock, toTell, gone, cut, told, lightVars, view, missed, up>>

\* The client's power or network is lost.
Vanish(c) ==
  /\ pc[c] # "out"
  /\ c \notin gone
  /\ gone' = gone \cup {c}
  /\ UNCHANGED <<pc, index, registerVars, lock, toTell, heartbeatVars, cut, lightVars, up>>

(***************************************************************************)
(* device_t, as far as the lights go: its thread between the driver's      *)
(* callbacks, which the controller's lock keeps apart, and the mobiles.    *)
(* Module Device has all words and all observers.                          *)
(***************************************************************************)
clientVars == <<pc, index, mobiles, desktops, lock, toTell, heartbeatVars, gone, cut, told, up>>

\* The lights as written now differ from what the device thread compares them with, or it has
\* found a difference and has not yet read what it will tell.
WillBeTold(state) ==
  \/ device \in {"wait", "check"} /\ state # previous
  \/ device \in {"changed", "read"}

\* device_t::on_light_changed at any time, also in a round: the store ...
ChangeLights(state) ==
  /\ ~callback
  /\ state # lights
  /\ lights' = state
  /\ callback' = TRUE
  /\ carried' = WillBeTold(state)
  /\ UNCHANGED <<clientVars, previous, updated, device, word, view, missed>>

\* ... and the event.
Announced ==
  /\ callback
  /\ updated' = TRUE
  /\ callback' = FALSE
  /\ UNCHANGED <<clientVars, lights, previous, device, word, carried, view, missed>>

\* A callback for another word, which sets the event as well.
OtherChange(other) ==
  /\ ~callback
  /\ ~updated
  /\ updated' = TRUE
  /\ UNCHANGED <<clientVars, lights, previous, callback, device, word, carried, view, missed>>

WakeUp ==
  /\ device = "wait"
  /\ updated
  /\ device' = "check"
  /\ UNCHANGED <<clientVars, lights, previous, updated, callback, word, carried, view, missed>>

\* check_lights_changes
CompareLights ==
  /\ device = "check"
  /\ device' = IF lights = previous THEN "save" ELSE "changed"
  /\ UNCHANGED <<clientVars, lights, previous, updated, callback, word, carried, view, missed>>

\* Clients that took other lights from the handshake and are not in m_client_list yet.
BeforeAdd(state) == {m \in Mobile : pc[m] = "config" /\ view[m] # state}

\* on_light_changed of the register looks at m_client_list without the mutex.
FindNobody ==
  /\ device = "changed"
  /\ mobiles = {}
  /\ missed' = missed \cup BeforeAdd(lights)
  /\ device' = "save"
  /\ UNCHANGED <<clientVars, lights, previous, updated, callback, word, carried, view>>

FindMobiles ==
  /\ device = "changed"
  /\ mobiles # {}
  /\ device' = "read"
  /\ UNCHANGED <<clientVars, lights, previous, updated, callback, word, carried, view, missed>>

\* The observers get a reference: update_clients reads the lights as they are now.
ReadLights ==
  /\ device = "read"
  /\ word' = lights
  /\ device' = "tell"
  /\ UNCHANGED <<clientVars, lights, previous, updated, callback, carried, view, missed>>

\* Mutant of UpdateClients: the loop ends at the first client that cannot be told.
UpdateSomeClients ==
  /\ device = "tell"
  /\ \E lost \in Lost :
       /\ Drop(lost)
       /\ told' = [m \in Mobile |-> IF m \in lost THEN {} ELSE told[m]]
       /\ view' = [m \in Mobile |-> IF m \in mobiles /\ lost = {} THEN word ELSE view[m]]
       /\ missed' = (missed \cup BeforeAdd(word)) \ mobiles
  /\ device' = "save"
  /\ UNCHANGED <<pc, index, desktops, lock, toTell, asked, gone, lights, previous, updated,
                 callback, word, carried, up>>

\* update_clients, the rest of it: under m_client_list_mutex.
UpdateClients ==
  /\ device = "tell"
  /\ \E lost \in Lost :
       /\ Drop(lost)
       /\ told' = [m \in Mobile |-> IF m \in lost THEN {} ELSE told[m]]
       /\ view' = [m \in Mobile |-> IF m \in mobiles \ lost THEN word ELSE view[m]]
       /\ missed' = (missed \cup BeforeAdd(word)) \ mobiles
  /\ device' = "save"
  /\ UNCHANGED <<pc, index, desktops, lock, toTell, asked, gone, lights, previous, updated,
                 callback, word, carried, up>>

\* m_prev_device_state = m_device_state: with what was written since the lights were read.
SaveLights ==
  /\ device = "save"
  /\ previous' = lights
  /\ device' = "reset"
  /\ UNCHANGED <<clientVars, lights, updated, callback, word, carried, view, missed>>

ResetEvent ==
  /\ device = "reset"
  /\ updated' = FALSE
  /\ device' = "wait"
  /\ UNCHANGED <<clientVars, lights, previous, callback, word, carried, view, missed>>

Refresh(m) == RefreshDesktops(m) \/ TellEntry(m) \/ RefreshEnds(m)
Removal(c) == TellGone(c) \/ (c \in Mobile /\ EraseForMobile(c))
                          \/ (c \in Desktop /\ EraseForDesktop(c))

MobileThread(m) ==
  \/ MobileHandshake(m)
  \/ HandshakeFails(m)
  \/ AddClient(m)
  \/ AskRefresh(m)
  \/ Refresh(m)
  \/ \E i \in Index : CommandFails(m, i)
  \/ FindMobile(m)
  \/ Beat(m)
  \/ RemoveClient(m)
  \/ NotifyModes(m)

DesktopThread(d) ==
  \/ \E i \in Index : DesktopHandshake(d, i)
  \/ AddDesktop(d)
  \/ Announce(d)
  \/ PassOn(d)
  \/ DesktopBeat(d)
  \/ FindDesktop(d)
  \/ FindNoDesktop(d)

DeviceThread ==
  \/ WakeUp
  \/ CompareLights
  \/ FindNobody
  \/ FindMobiles
  \/ ReadLights
  \/ UpdateClients
  \/ SaveLights
  \/ ResetEvent

Next ==
  /\ up
  /\ \/ \E m \in Mobile : MobileThread(m)
     \/ \E d \in Desktop : DesktopThread(d)
     \/ \E c \in Client : Removal(c) \/ BecomeLate(c) \/ Vanish(c)
     \/ CheckMobiles
     \/ CheckDesktops
     \/ \E state \in Lights : ChangeLights(state)
     \/ Announced
     \/ \E other \in OtherWord : OtherChange(other)
     \/ DeviceThread

\* Time passes, the heartbeat threads run, and a section that holds the lock ends.
Fairness ==
  /\ \A m \in Mobile : WF_vars(up /\ (TellEntry(m) \/ RefreshEnds(m)))
  /\ \A c \in Client : WF_vars(up /\ Removal(c)) /\ WF_vars(up /\ c \in gone /\ BecomeLate(c))
  /\ WF_vars(up /\ CheckMobiles)
  /\ SF_vars(up /\ CheckDesktops)

Spec == Init /\ [][Next]_vars
FairSpec == Spec /\ Fairness

-----------------------------------------------------------------------------
TypeOK ==
  /\ pc \in [Client -> {"out", "config", "refresh", "tellAll", "serve", "beat", "add", "announce",
                        "tellGone", "erase"}]
  /\ index \in [Client -> Index \cup {0}]
  /\ mobiles \subseteq Mobile
  /\ desktops \in [Index -> Desktop \cup {NoDesktop}]
  /\ lock \in Client \cup {NoClient}
  /\ toTell \subseteq Index
  /\ late \subseteq mobiles \cup {desktops[i] : i \in Entries}
  /\ asked \subseteq Client
  /\ gone \subseteq Client
  /\ cut \subseteq Mobile \ mobiles
  /\ told \in [Mobile -> SUBSET Index]
  /\ lights \in Lights
  /\ previous \in Lights
  /\ updated \in BOOLEAN
  /\ callback \in BOOLEAN
  /\ device \in {"wait", "check", "changed", "read", "tell", "save", "reset"}
  /\ word \in Lights
  /\ carried \in BOOLEAN
  /\ view \in [Mobile -> Lights]
  /\ missed \subseteq Mobile
  /\ up \in BOOLEAN

(***************************************************************************)
(* Whenever the lock is free and its own refresh is over, a registered     *)
(* mobile knows every registered desktop that had itself announced: the    *)
(* announcement outside the lock, the refresh and the removals under it    *)
(* never leave a connected desktop unknown.  (It may know some that are    *)
(* gone: check_liveness and a late announcement tell nobody.)              *)
(***************************************************************************)
ConnectedDesktopsAreKnown ==
  lock = NoClient =>
    \A m \in mobiles, i \in Entries :
      pc[m] # "refresh" /\ pc[desktops[i]] # "announce" => i \in told[m]

(***************************************************************************)
(* No register keeps the socket of a client whose thread has left: every   *)
(* exit of process_client after add_client or add_desktop takes it out     *)
(* (the socket is deleted when the thread's turn ends).                    *)
(***************************************************************************)
RegisteredClientsAreServed ==
  /\ \A m \in mobiles : pc[m] \notin {"out", "config"}
  /\ \A i \in Entries : pc[desktops[i]] \notin {"out", "add"}

(***************************************************************************)
(* When no change of the lights is announced or being looked at, every     *)
(* registered mobile has the device's lights: through the handshake        *)
(* response, the look at the client list without the mutex, the value read *)
(* in the round, and clients that are dropped among others.  Left out are  *)
(* a mobile that was told other lights before add_client, and a last       *)
(* change that the device thread does not tell of: one that is written in  *)
(* a round after update_clients read the lights (device.cpp:190 and 84     *)
(* swallow it), or that turns the lights back before they are compared.    *)
(***************************************************************************)
MobilesSeeTheLights ==
  device = "wait" /\ ~updated /\ ~callback /\ carried =>
    \A m \in mobiles \ missed : view[m] = lights

(***************************************************************************)
(* A client that is gone without a word leaves its register: the heartbeat *)
(* threads find it, also when answers for its index still come in.         *)
(***************************************************************************)
GoneClientsAreForgotten ==
  /\ \A m \in Mobile : (m \in gone /\ m \in mobiles) ~> (m \notin mobiles \/ ~up)
  /\ \A d \in Desktop : (d \in gone /\ Entry(d) # {}) ~> (Entry(d) = {} \/ ~up)
=============================================================================
