---------------------------- MODULE RegistersProofs ----------------------------
(***************************************************************************)
(* Proofs about Registers, for any clients, any indices and any lights:    *)
(* the registers hold only clients that are served, and what a mobile was  *)
(* told is what is registered and what the device shows.                   *)
(***************************************************************************)
EXTENDS Registers, TLAPS

-----------------------------------------------------------------------------
(* The inductive invariant. *)

\* The sections that hold m_clients_lock for more than one step.
Holding == {"tellAll", "tellGone", "erase"}

\* Each kind of client runs the code of its own handler.
PlaceInv ==
  /\ \A m \in Mobile : pc[m] \notin {"add", "announce"}
  /\ \A d \in Desktop : pc[d] \notin {"config", "refresh", "tellAll", "beat"}

\* m_clients_lock is held by the one thread that is in such a section.
LockInv ==
  /\ \A c \in Client : pc[c] \in Holding => lock = c
  /\ lock # NoClient => pc[lock] \in Holding

\* An index is used only once it was received: by a desktop that gave it, by a mobile whose
\* command failed for it.
IndexInv ==
  /\ \A d \in Desktop : pc[d] \in {"add", "announce", "serve", "tellGone", "erase"} =>
                          index[d] \in Index
  /\ \A m \in Mobile : pc[m] \in {"tellGone", "erase"} => index[m] \in Index

\* An entry of m_desktops is that of a desktop that is served, under the index it gave.
EntryInv ==
  \A i \in Entries :
    /\ index[desktops[i]] = i
    /\ pc[desktops[i]] \in {"announce", "serve", "tellGone", "erase"}

\* A registered mobile is served.  One that is not yet registered has its socket.
MobileInv ==
  /\ \A m \in mobiles : pc[m] \notin {"out", "config"}
  /\ \A m \in Mobile : pc[m] \in {"out", "config"} => m \notin cut

\* Whom update_clients tells, or would find registered soon, has the lights.
LightsKnown ==
  \A m \in Mobile \ missed : m \in mobiles \/ pc[m] = "config" => view[m] = lights

\* As long as the device thread tells of the last change: what it waits for is announced, what it
\* tells are the lights, and what it has told, or compared equal, is known.
LightsInv ==
  carried =>
    /\ device \in {"wait", "check"} /\ lights = previous => LightsKnown
    /\ device = "wait" /\ lights # previous => updated \/ callback
    /\ device = "tell" => word = lights
    /\ device \in {"save", "reset"} => LightsKnown
    /\ device = "reset" => lights = previous

\* A mobile knows a desktop, or the refresh will yet tell it, or the desktop is being removed.
KnownInv ==
  \A m \in mobiles, i \in Entries :
    pc[desktops[i]] # "announce" =>
      \/ i \in told[m]
      \/ pc[m] = "refresh"
      \/ pc[m] = "tellAll" /\ i \in toTell
      \/ \E c \in Client : pc[c] = "erase" /\ index[c] = i

IInv ==
  TypeOK /\ PlaceInv /\ LockInv /\ IndexInv /\ EntryInv /\ MobileInv /\ LightsInv /\ KnownInv


-----------------------------------------------------------------------------
(* What a notification does to the mobile register. *)

\* The mobiles in lost are dropped from the list and from what is kept of them.
Dropped(lost) ==
  /\ mobiles' = mobiles \ lost
  /\ late' = late \ lost
  /\ cut' = cut \cup lost
  /\ missed' = missed \ lost

\* Whatever is told, mobiles are dropped, and those that stay forget desktop i at most.
LEMMA NotifyDrops ==
  ASSUME TypeOK, NEW i \in Index, TellConnected(i) \/ TellDisconnected(i) \/ TellOther
  PROVE  \E lost \in SUBSET mobiles :
           /\ Dropped(lost)
           /\ told' \in [Mobile -> SUBSET Index]
           /\ \A m \in mobiles \ lost : told[m] \ {i} \subseteq told'[m]
<1> USE DEF TypeOK, Dropped, Drop, Lost
<1>1. CASE TellConnected(i)
  BY <1>1 DEF TellConnected, Notify
<1>2. CASE TellDisconnected(i)
  <2>1. PICK lost \in Lost :
          /\ Drop(lost)
          /\ told' = [m \in Mobile |-> IF m \in mobiles \ lost THEN told[m] \ {i} ELSE {}]
          /\ missed' = missed \ lost
    BY <1>2 DEF TellDisconnected, Notify
  <2>2. told' \in [Mobile -> SUBSET Index]
    BY <2>1
  <2>3. \A m \in mobiles \ lost : told'[m] = told[m] \ {i}
    BY <2>1
  <2>4. Dropped(lost) /\ lost \in SUBSET mobiles
    BY <2>1
  <2>5. QED
    BY <2>2, <2>3, <2>4
<1>3. CASE TellOther
  BY <1>3 DEF TellOther, Notify
<1>4. QED
  BY <1>1, <1>2, <1>3

\* A desktop that is announced is known to every mobile that stays.
LEMMA ConnectedIsTold ==
  ASSUME TypeOK, NEW i \in Index, TellConnected(i)
  PROVE  \A m \in mobiles' : m \in mobiles /\ told'[m] = told[m] \cup {i}
  BY DEF TypeOK, TellConnected, Notify, Drop, Lost

\* A notification about no desktop leaves what those that stay know.
LEMMA OtherIsNotTold ==
  ASSUME TypeOK, TellOther
  PROVE  \A m \in mobiles' : m \in mobiles /\ told'[m] = told[m]
  BY DEF TypeOK, TellOther, Notify, Drop, Lost

\* The steps of the device's side that are not update_clients.
DeviceAlone ==
  \/ \E state \in Lights : ChangeLights(state)
  \/ Announced
  \/ \E other \in OtherWord : OtherChange(other)
  \/ WakeUp \/ CompareLights \/ FindNobody \/ FindMobiles \/ ReadLights \/ SaveLights \/ ResetEvent

\* They leave the clients and the registers alone, but for who has missed the lights.
LEMMA DeviceAloneLeaves ==
  ASSUME TypeOK, DeviceAlone
  PROVE  /\ UNCHANGED <<pc, index, mobiles, desktops, lock, toTell, late, asked, gone, cut, told,
                        view, up>>
         /\ missed \subseteq missed' /\ missed' \subseteq Mobile
         /\ lights' \in Lights /\ previous' \in Lights /\ word' \in Lights
         /\ updated' \in BOOLEAN /\ callback' \in BOOLEAN /\ carried' \in BOOLEAN
         /\ device' \in {"wait", "check", "changed", "read", "tell", "save", "reset"}
<1> USE DEF TypeOK, clientVars, heartbeatVars
<1>1. ASSUME NEW state \in Lights, ChangeLights(state)
      PROVE  carried' \in BOOLEAN
  BY <1>1 DEF ChangeLights, WillBeTold
<1>2. CASE \E state \in Lights : ChangeLights(state)
  BY <1>1, <1>2 DEF ChangeLights
<1>3. CASE Announced \/ (\E other \in OtherWord : OtherChange(other)) \/ WakeUp \/ CompareLights
  BY <1>3 DEF Announced, OtherChange, WakeUp, CompareLights
<1>4. CASE FindNobody \/ FindMobiles \/ ReadLights \/ SaveLights \/ ResetEvent
  BY <1>4 DEF FindNobody, FindMobiles, ReadLights, SaveLights, ResetEvent, BeforeAdd
<1> QED
  BY <1>2, <1>3, <1>4 DEF DeviceAlone

-----------------------------------------------------------------------------
(* Every step preserves the parts of IInv. *)

\* Type correctness: what is late is registered, what is cut is not.
LEMMA TypeStep == TypeOK /\ IndexInv /\ MobileInv /\ [Next]_vars => TypeOK'
<1> SUFFICES ASSUME TypeOK, IndexInv, MobileInv, [Next]_vars PROVE TypeOK'
  OBVIOUS
<1> USE DEF TypeOK, Client, Entries, GoTo, Forgotten, registerVars, heartbeatVars, lightVars
<1>1. ASSUME NEW m \in Mobile, MobileHandshake(m) PROVE TypeOK'
  BY <1>1 DEF MobileHandshake
<1>2. ASSUME NEW m \in Mobile, HandshakeFails(m) PROVE TypeOK'
  BY <1>2 DEF HandshakeFails
<1>3. ASSUME NEW m \in Mobile, AddClient(m) PROVE TypeOK'
  BY <1>3 DEF AddClient, MobileInv
<1>4. ASSUME NEW m \in Mobile, AskRefresh(m) \/ RefreshDesktops(m) \/ RefreshEnds(m) PROVE TypeOK'
  BY <1>4 DEF AskRefresh, RefreshDesktops, RefreshEnds
<1>5. ASSUME NEW i \in Index, TellConnected(i) \/ TellDisconnected(i) \/ TellOther,
             UNCHANGED <<index, desktops, lock, asked, gone, lightVars, view, up>>,
             pc' \in [Client -> {"out", "config", "refresh", "tellAll", "serve", "beat", "add",
                                "announce", "tellGone", "erase"}],
             toTell' \subseteq Index
      PROVE  TypeOK'
  <2>1. PICK lost \in SUBSET mobiles : Dropped(lost) /\ told' \in [Mobile -> SUBSET Index]
    BY <1>5, NotifyDrops
  <2>2. late' \subseteq mobiles' \cup {desktops'[j] : j \in Entries'}
    BY <1>5, <2>1 DEF Dropped
  <2>3. cut' \subseteq Mobile \ mobiles' /\ mobiles' \subseteq Mobile /\ missed' \subseteq Mobile
    BY <2>1 DEF Dropped
  <2>4. QED
    BY <1>5, <2>1, <2>2, <2>3
<1>6. ASSUME NEW m \in Mobile, TellEntry(m) PROVE TypeOK'
  BY <1>5, <1>6 DEF TellEntry
<1>7. ASSUME NEW m \in Mobile, NEW i \in Index, CommandFails(m, i) PROVE TypeOK'
  BY <1>7 DEF CommandFails
<1>8. ASSUME NEW m \in Mobile, FindMobile(m) PROVE TypeOK'
  BY <1>8 DEF FindMobile
<1>9. ASSUME NEW m \in Mobile, Beat(m) PROVE TypeOK'
  <2>1. late' \subseteq late /\ up' \in BOOLEAN
    BY <1>9 DEF Beat
  <2>2. pc' \in [Client -> {"out", "config", "refresh", "tellAll", "serve", "beat", "add",
                            "announce", "tellGone", "erase"}]
    BY <1>9 DEF Beat
  <2>3. UNCHANGED <<index, mobiles, desktops, lock, toTell, asked, gone, cut, told, view, missed>>
    BY <1>9 DEF Beat
  <2>4. UNCHANGED <<lights, previous, updated, callback, device, word, carried>>
    BY <1>9 DEF Beat
  <2>5. QED
    BY <2>1, <2>2, <2>3, <2>4
<1>10. ASSUME NEW m \in Mobile, RemoveClient(m) PROVE TypeOK'
  BY <1>10 DEF RemoveClient
<1>11. ASSUME NEW m \in Mobile, NotifyModes(m) PROVE TypeOK'
  BY <1>5, <1>11, IndexAssumption DEF NotifyModes
<1>12. ASSUME NEW d \in Desktop, NEW i \in Index, DesktopHandshake(d, i) PROVE TypeOK'
  BY <1>12 DEF DesktopHandshake
<1>13. ASSUME NEW d \in Desktop, AddDesktop(d) PROVE TypeOK'
  BY <1>13, ClientAssumption DEF AddDesktop, IndexInv
<1>14. ASSUME NEW d \in Desktop, Announce(d) PROVE TypeOK'
  BY <1>5, <1>14 DEF Announce, IndexInv
<1>15. ASSUME NEW d \in Desktop, PassOn(d) PROVE TypeOK'
  BY <1>5, <1>15, IndexAssumption DEF PassOn
<1>16. ASSUME NEW d \in Desktop, DesktopBeat(d) \/ FindDesktop(d) \/ FindNoDesktop(d) PROVE TypeOK'
  BY <1>16 DEF DesktopBeat, FindDesktop, FindNoDesktop
<1>17. ASSUME NEW c \in Client, TellGone(c) PROVE TypeOK'
  BY <1>5, <1>17 DEF TellGone, IndexInv
<1>18. ASSUME NEW c \in Client, pc[c] = "erase", Erased(c), UNCHANGED mobiles
       PROVE  /\ desktops' \in [Index -> Desktop \cup {NoDesktop}]
              /\ late' \subseteq mobiles' \cup {desktops'[i] : i \in Entries'}
  BY <1>18, ClientAssumption DEF Erased, IndexInv
<1>19. ASSUME NEW m \in Mobile, EraseForMobile(m) PROVE TypeOK'
  BY <1>18, <1>19 DEF EraseForMobile
<1>20. ASSUME NEW d \in Desktop, EraseForDesktop(d) PROVE TypeOK'
  BY <1>18, <1>20 DEF EraseForDesktop
<1>21. ASSUME NEW c \in Client, BecomeLate(c) \/ Vanish(c) PROVE TypeOK'
  BY <1>21 DEF BecomeLate, Vanish
<1>22. CASE CheckMobiles
  BY <1>22 DEF CheckMobiles, Drop
<1>23. CASE CheckDesktops
  BY <1>23, ClientAssumption DEF CheckDesktops
<1>25. CASE DeviceAlone
  BY <1>25, DeviceAloneLeaves
<1>26. CASE UpdateClients
  BY <1>26 DEF UpdateClients, Drop, Lost, BeforeAdd
<1>27. CASE UNCHANGED vars
  BY <1>27 DEF vars
<1>28. QED
  BY <1>1, <1>2, <1>3, <1>4, <1>6, <1>7, <1>8, <1>9, <1>10, <1>11, <1>12, <1>13, <1>14, <1>15,
     <1>16, <1>17, <1>19, <1>20, <1>21, <1>22, <1>23, <1>25, <1>26, <1>27
     DEF Next, MobileThread, Refresh, DesktopThread, Removal, DeviceThread, DeviceAlone

\* Each client stays in the code of its handler, and the lock with the thread that took it.
LEMMA PlaceStep == TypeOK /\ PlaceInv /\ LockInv /\ [Next]_vars => PlaceInv' /\ LockInv'
<1> SUFFICES ASSUME TypeOK, PlaceInv, LockInv, [Next]_vars PROVE PlaceInv' /\ LockInv'
  OBVIOUS
<1> USE ClientAssumption
    DEF TypeOK, PlaceInv, LockInv, Holding, Client, GoTo, registerVars, heartbeatVars, lightVars
<1>1. ASSUME UNCHANGED <<pc, lock>> PROVE PlaceInv' /\ LockInv'
  BY <1>1
<1>2. ASSUME NEW m \in Mobile,
             \/ MobileHandshake(m) \/ HandshakeFails(m) \/ AddClient(m) \/ AskRefresh(m)
             \/ FindMobile(m) \/ Beat(m) \/ RemoveClient(m)
      PROVE  PlaceInv' /\ LockInv'
  <2>1. lock' = lock /\ pc[m] \notin Holding
    BY <1>2 DEF MobileHandshake, HandshakeFails, AddClient, AskRefresh, FindMobile, Beat,
                RemoveClient
  <2>2. \E place \in {"out", "config", "refresh", "serve", "beat"} : pc' = [pc EXCEPT ![m] = place]
    BY <1>2 DEF MobileHandshake, HandshakeFails, AddClient, AskRefresh, FindMobile, Beat,
                RemoveClient
  <2>3. QED
    BY <2>1, <2>2
<1>3. ASSUME NEW m \in Mobile, RefreshDesktops(m) \/ RefreshEnds(m) PROVE PlaceInv' /\ LockInv'
  BY <1>3 DEF RefreshDesktops, RefreshEnds
<1>4. ASSUME NEW m \in Mobile, TellEntry(m) \/ NotifyModes(m) PROVE PlaceInv' /\ LockInv'
  BY <1>1, <1>4 DEF TellEntry, NotifyModes
<1>5. ASSUME NEW m \in Mobile, NEW i \in Index, CommandFails(m, i) PROVE PlaceInv' /\ LockInv'
  BY <1>5 DEF CommandFails
<1>6. ASSUME NEW d \in Desktop, NEW i \in Index, DesktopHandshake(d, i)
      PROVE  PlaceInv' /\ LockInv'
  BY <1>6 DEF DesktopHandshake
<1>7. ASSUME NEW d \in Desktop, AddDesktop(d) \/ Announce(d) \/ FindNoDesktop(d)
      PROVE  PlaceInv' /\ LockInv'
  <2>1. lock' = lock /\ pc[d] \notin Holding
    BY <1>7 DEF AddDesktop, Announce, FindNoDesktop
  <2>2. \E place \in {"out", "announce", "serve"} : pc' = [pc EXCEPT ![d] = place]
    BY <1>7 DEF AddDesktop, Announce, FindNoDesktop
  <2>3. QED
    BY <2>1, <2>2
<1>8. ASSUME NEW d \in Desktop, PassOn(d) \/ DesktopBeat(d) PROVE PlaceInv' /\ LockInv'
  BY <1>1, <1>8 DEF PassOn, DesktopBeat
<1>9. ASSUME NEW d \in Desktop, FindDesktop(d) PROVE PlaceInv' /\ LockInv'
  BY <1>9 DEF FindDesktop
<1>10. ASSUME NEW c \in Client, TellGone(c) PROVE PlaceInv' /\ LockInv'
  BY <1>10 DEF TellGone
<1>11. ASSUME NEW m \in Mobile, EraseForMobile(m) PROVE PlaceInv' /\ LockInv'
  BY <1>11 DEF EraseForMobile
<1>12. ASSUME NEW d \in Desktop, EraseForDesktop(d) PROVE PlaceInv' /\ LockInv'
  BY <1>12 DEF EraseForDesktop
<1>13. ASSUME NEW c \in Client, BecomeLate(c) \/ Vanish(c) PROVE PlaceInv' /\ LockInv'
  BY <1>1, <1>13 DEF BecomeLate, Vanish
<1>14. CASE CheckMobiles \/ CheckDesktops \/ DeviceAlone \/ UpdateClients
  BY <1>1, <1>14, DeviceAloneLeaves DEF CheckMobiles, CheckDesktops, UpdateClients
<1>15. CASE UNCHANGED vars
  BY <1>1, <1>15 DEF vars
<1>16. QED
  BY <1>2, <1>3, <1>4, <1>5, <1>6, <1>7, <1>8, <1>9, <1>10, <1>11, <1>12, <1>13, <1>14, <1>15
     DEF Next, MobileThread, Refresh, DesktopThread, Removal, DeviceThread, DeviceAlone

\* An index is set before the places that use it and reset after them.
LEMMA IndexStep == TypeOK /\ PlaceInv /\ IndexInv /\ [Next]_vars => IndexInv'
<1> SUFFICES ASSUME TypeOK, PlaceInv, IndexInv, [Next]_vars PROVE IndexInv'
  OBVIOUS
<1> USE ClientAssumption DEF TypeOK, IndexInv, Client, GoTo
<1>1. ASSUME UNCHANGED <<pc, index>> PROVE IndexInv'
  BY <1>1
<1>2. ASSUME NEW m \in Mobile,
             \/ MobileHandshake(m) \/ HandshakeFails(m) \/ AddClient(m) \/ AskRefresh(m)
             \/ RefreshDesktops(m) \/ RefreshEnds(m) \/ FindMobile(m) \/ Beat(m) \/ RemoveClient(m)
      PROVE  IndexInv'
  <2>1. index' = index
    BY <1>2 DEF MobileHandshake, HandshakeFails, AddClient, AskRefresh, RefreshDesktops,
                RefreshEnds, FindMobile, Beat, RemoveClient
  <2>2. \E place \in {"out", "config", "refresh", "tellAll", "serve", "beat"} :
          pc' = [pc EXCEPT ![m] = place]
    BY <1>2 DEF MobileHandshake, HandshakeFails, AddClient, AskRefresh, RefreshDesktops,
                RefreshEnds, FindMobile, Beat, RemoveClient
  <2>3. QED
    BY <2>1, <2>2
<1>3. ASSUME NEW m \in Mobile, TellEntry(m) \/ NotifyModes(m) PROVE IndexInv'
  BY <1>1, <1>3 DEF TellEntry, NotifyModes
<1>4. ASSUME NEW m \in Mobile, NEW i \in Index, CommandFails(m, i) PROVE IndexInv'
  BY <1>4 DEF CommandFails
<1>5. ASSUME NEW d \in Desktop, NEW i \in Index, DesktopHandshake(d, i) PROVE IndexInv'
  BY <1>5 DEF DesktopHandshake
<1>6. ASSUME NEW d \in Desktop, AddDesktop(d) \/ Announce(d) \/ FindDesktop(d) PROVE IndexInv'
  <2>1. index' = index /\ pc[d] \in {"add", "announce", "serve"}
    BY <1>6 DEF AddDesktop, Announce, FindDesktop
  <2>2. \E place \in {"announce", "serve", "tellGone"} : pc' = [pc EXCEPT ![d] = place]
    BY <1>6 DEF AddDesktop, Announce, FindDesktop
  <2>3. QED
    BY <2>1, <2>2
<1>7. ASSUME NEW d \in Desktop, PassOn(d) \/ DesktopBeat(d) PROVE IndexInv'
  BY <1>1, <1>7 DEF PassOn, DesktopBeat
<1>8. ASSUME NEW d \in Desktop, FindNoDesktop(d) \/ EraseForDesktop(d) PROVE IndexInv'
  <2>1. index' = [index EXCEPT ![d] = 0] /\ pc' = [pc EXCEPT ![d] = "out"]
    BY <1>8 DEF FindNoDesktop, EraseForDesktop
  <2>2. QED
    BY <2>1
<1>9. ASSUME NEW c \in Client, TellGone(c) PROVE IndexInv'
  BY <1>9 DEF TellGone
<1>10. ASSUME NEW m \in Mobile, EraseForMobile(m) PROVE IndexInv'
  BY <1>10 DEF EraseForMobile
<1>11. ASSUME NEW c \in Client, BecomeLate(c) \/ Vanish(c) PROVE IndexInv'
  BY <1>1, <1>11 DEF BecomeLate, Vanish
<1>12. CASE CheckMobiles \/ CheckDesktops \/ DeviceAlone \/ UpdateClients
  BY <1>1, <1>12, DeviceAloneLeaves DEF CheckMobiles, CheckDesktops, UpdateClients
<1>13. CASE UNCHANGED vars
  BY <1>1, <1>13 DEF vars
<1>14. QED
  BY <1>2, <1>3, <1>4, <1>5, <1>6, <1>7, <1>8, <1>9, <1>10, <1>11, <1>12, <1>13
     DEF Next, MobileThread, Refresh, DesktopThread, Removal, DeviceThread, DeviceAlone

\* A desktop that has left has no entry: it looks for one under the lock, and it has but one.
LEMMA EntryStep == TypeOK /\ PlaceInv /\ EntryInv /\ [Next]_vars => EntryInv'
<1> SUFFICES ASSUME TypeOK, PlaceInv, EntryInv, [Next]_vars PROVE EntryInv'
  OBVIOUS
<1> USE ClientAssumption DEF TypeOK, Client, GoTo, registerVars
<1>1. ASSUME \A i \in Index : desktops'[i] \in {desktops[i], NoDesktop},
             \A d \in Desktop : pc[d] \in {"announce", "serve", "tellGone", "erase"} =>
               index'[d] = index[d] /\ pc'[d] \in {"announce", "serve", "tellGone", "erase"}
      PROVE  EntryInv'
  BY <1>1 DEF EntryInv, Entries
<1>2. ASSUME NEW m \in Mobile,
             \/ MobileHandshake(m) \/ HandshakeFails(m) \/ AddClient(m) \/ AskRefresh(m)
             \/ RefreshDesktops(m) \/ RefreshEnds(m) \/ FindMobile(m) \/ Beat(m) \/ RemoveClient(m)
      PROVE  EntryInv'
  <2>1. UNCHANGED <<index, desktops>>
    BY <1>2 DEF MobileHandshake, HandshakeFails, AddClient, AskRefresh, RefreshDesktops,
                RefreshEnds, FindMobile, Beat, RemoveClient
  <2>2. \E place \in {"out", "config", "refresh", "tellAll", "serve", "beat"} :
          pc' = [pc EXCEPT ![m] = place]
    BY <1>2 DEF MobileHandshake, HandshakeFails, AddClient, AskRefresh, RefreshDesktops,
                RefreshEnds, FindMobile, Beat, RemoveClient
  <2>3. \A d \in Desktop : pc'[d] = pc[d]
    BY <2>2
  <2>4. QED
    BY <1>1, <2>1, <2>3
<1>3. ASSUME NEW m \in Mobile, TellEntry(m) \/ NotifyModes(m) PROVE EntryInv'
  BY <1>1, <1>3 DEF TellEntry, NotifyModes
<1>4. ASSUME NEW m \in Mobile, NEW i \in Index, CommandFails(m, i) PROVE EntryInv'
  BY <1>1, <1>4 DEF CommandFails
<1>5. ASSUME NEW d \in Desktop, NEW i \in Index, DesktopHandshake(d, i) PROVE EntryInv'
  BY <1>1, <1>5 DEF DesktopHandshake
<1>6. ASSUME NEW d \in Desktop, AddDesktop(d) PROVE EntryInv'
  <2>1. \A i \in Entries : desktops[i] # d
    BY <1>6 DEF AddDesktop, EntryInv, Entries
  <2>2. \A i \in Index : i # index[d] => desktops'[i] = desktops[i]
    BY <1>6 DEF AddDesktop
  <2>3. \A i \in Index : i = index[d] => desktops'[i] = d
    BY <1>6 DEF AddDesktop
  <2>4. pc'[d] = "announce" /\ index' = index /\ \A e \in Desktop \ {d} : pc'[e] = pc[e]
    BY <1>6 DEF AddDesktop
  <2>5. QED
    BY <2>1, <2>2, <2>3, <2>4 DEF EntryInv, Entries
<1>7. ASSUME NEW d \in Desktop, Announce(d) \/ FindDesktop(d) \/ PassOn(d) \/ DesktopBeat(d)
      PROVE  EntryInv'
  BY <1>1, <1>7 DEF Announce, FindDesktop, PassOn, DesktopBeat
<1>8. ASSUME NEW d \in Desktop, FindNoDesktop(d) PROVE EntryInv'
  <2>1. \A i \in Entries : desktops[i] # d
    BY <1>8 DEF FindNoDesktop, Entry, Entries
  <2>2. desktops' = desktops /\ \A e \in Desktop \ {d} : pc'[e] = pc[e] /\ index'[e] = index[e]
    BY <1>8 DEF FindNoDesktop
  <2>3. QED
    BY <2>1, <2>2 DEF EntryInv, Entries
<1>9. ASSUME NEW c \in Client, TellGone(c) PROVE EntryInv'
  BY <1>1, <1>9 DEF TellGone
<1>10. ASSUME NEW m \in Mobile, EraseForMobile(m) PROVE EntryInv'
  BY <1>1, <1>10 DEF EraseForMobile, Erased
<1>11. ASSUME NEW d \in Desktop, EraseForDesktop(d) PROVE EntryInv'
  <2>1. \A i \in Entries' : i \in Entries /\ i # index[d] /\ desktops'[i] = desktops[i]
    BY <1>11 DEF EraseForDesktop, Erased, Entries
  <2>2. \A i \in Entries' : desktops[i] # d
    BY <2>1 DEF EntryInv
  <2>3. \A e \in Desktop \ {d} : pc'[e] = pc[e] /\ index'[e] = index[e]
    BY <1>11 DEF EraseForDesktop
  <2>4. QED
    BY <2>1, <2>2, <2>3 DEF EntryInv, Entries
<1>12. ASSUME NEW c \in Client, BecomeLate(c) \/ Vanish(c) PROVE EntryInv'
  BY <1>1, <1>12 DEF BecomeLate, Vanish
<1>13. CASE CheckMobiles \/ DeviceAlone \/ UpdateClients
  BY <1>1, <1>13, DeviceAloneLeaves DEF CheckMobiles, UpdateClients
<1>14. CASE CheckDesktops
  BY <1>1, <1>14 DEF CheckDesktops
<1>15. CASE UNCHANGED vars
  BY <1>1, <1>15 DEF vars
<1>16. QED
  BY <1>2, <1>3, <1>4, <1>5, <1>6, <1>7, <1>8, <1>9, <1>10, <1>11, <1>12, <1>13, <1>14, <1>15
     DEF Next, MobileThread, Refresh, DesktopThread, Removal, DeviceThread, DeviceAlone

\* A mobile leaves its handler only through remove_client, or before add_client.
LEMMA MobileStep == TypeOK /\ PlaceInv /\ IndexInv /\ MobileInv /\ [Next]_vars => MobileInv'
<1> SUFFICES ASSUME TypeOK, PlaceInv, IndexInv, MobileInv, [Next]_vars PROVE MobileInv'
  OBVIOUS
<1> USE ClientAssumption DEF TypeOK, Client, GoTo, Forgotten, registerVars
<1>1. ASSUME mobiles' \subseteq mobiles, cut' \subseteq cut \cup mobiles,
             \A m \in Mobile : pc'[m] \in {"out", "config"} => pc[m] \in {"out", "config"}
      PROVE  MobileInv'
  BY <1>1 DEF MobileInv
<1>2. ASSUME NEW i \in Index, TellConnected(i) \/ TellDisconnected(i) \/ TellOther,
             \A m \in Mobile : pc'[m] \in {"out", "config"} => pc[m] \in {"out", "config"}
      PROVE  MobileInv'
  BY <1>1, <1>2, NotifyDrops DEF Dropped
<1>3. ASSUME NEW m \in Mobile,
             MobileHandshake(m) \/ HandshakeFails(m) \/ AskRefresh(m) \/ FindMobile(m) \/ Beat(m)
      PROVE  MobileInv'
  BY <1>1, <1>3 DEF MobileHandshake, HandshakeFails, AskRefresh, FindMobile, Beat
<1>4. ASSUME NEW m \in Mobile, RefreshDesktops(m) \/ RefreshEnds(m) PROVE MobileInv'
  BY <1>1, <1>4 DEF RefreshDesktops, RefreshEnds
<1>5. ASSUME NEW m \in Mobile, AddClient(m) PROVE MobileInv'
  BY <1>5 DEF AddClient, MobileInv
<1>6. ASSUME NEW m \in Mobile, RemoveClient(m) PROVE MobileInv'
  BY <1>6 DEF RemoveClient, MobileInv
<1>7. ASSUME NEW m \in Mobile, TellEntry(m) \/ NotifyModes(m) PROVE MobileInv'
  BY <1>2, <1>7, IndexAssumption DEF TellEntry, NotifyModes
<1>8. ASSUME NEW m \in Mobile, NEW i \in Index, CommandFails(m, i) PROVE MobileInv'
  BY <1>1, <1>8 DEF CommandFails
<1>9. ASSUME NEW d \in Desktop, NEW i \in Index, DesktopHandshake(d, i) PROVE MobileInv'
  BY <1>1, <1>9 DEF DesktopHandshake
<1>10. ASSUME NEW d \in Desktop, AddDesktop(d) \/ DesktopBeat(d) \/ FindDesktop(d) \/ FindNoDesktop(d)
       PROVE  MobileInv'
  BY <1>1, <1>10 DEF AddDesktop, DesktopBeat, FindDesktop, FindNoDesktop
<1>11. ASSUME NEW d \in Desktop, Announce(d) \/ PassOn(d) PROVE MobileInv'
  BY <1>2, <1>11, IndexAssumption DEF Announce, PassOn, IndexInv
<1>12. ASSUME NEW c \in Client, TellGone(c) PROVE MobileInv'
  BY <1>2, <1>12 DEF TellGone, IndexInv
<1>13. ASSUME NEW m \in Mobile, EraseForMobile(m) PROVE MobileInv'
  BY <1>1, <1>13 DEF EraseForMobile
<1>14. ASSUME NEW d \in Desktop, EraseForDesktop(d) PROVE MobileInv'
  BY <1>1, <1>14 DEF EraseForDesktop
<1>15. ASSUME NEW c \in Client, BecomeLate(c) \/ Vanish(c) PROVE MobileInv'
  BY <1>1, <1>15 DEF BecomeLate, Vanish
<1>16. CASE CheckMobiles \/ CheckDesktops
  BY <1>1, <1>16 DEF CheckMobiles, CheckDesktops, Drop
<1>17. CASE DeviceAlone
  BY <1>1, <1>17, DeviceAloneLeaves
<1>18. CASE UpdateClients
  BY <1>1, <1>18 DEF UpdateClients, Drop, Lost
<1>19. CASE UNCHANGED vars
  BY <1>1, <1>19 DEF vars
<1>20. QED
  BY <1>3, <1>4, <1>5, <1>6, <1>7, <1>8, <1>9, <1>10, <1>11, <1>12, <1>13, <1>14, <1>15, <1>16,
     <1>17, <1>18, <1>19
     DEF Next, MobileThread, Refresh, DesktopThread, Removal, DeviceThread, DeviceAlone

\* Who is between the handshake and add_client when the lights are told is in missed; who is
\* registered is told.
LEMMA LightsStep ==
  TypeOK /\ PlaceInv /\ IndexInv /\ MobileInv /\ LightsInv /\ [Next]_vars => LightsInv'
<1> SUFFICES ASSUME TypeOK, PlaceInv, IndexInv, MobileInv, LightsInv, [Next]_vars PROVE LightsInv'
  OBVIOUS
<1> USE ClientAssumption DEF TypeOK, Client, GoTo, registerVars, lightVars
<1>1. ASSUME UNCHANGED <<view, lightVars>>,
             \A m \in Mobile : m \in mobiles' \/ pc'[m] = "config" =>
               (m \in mobiles \/ pc[m] = "config") /\ (m \in missed => m \in missed')
      PROVE  LightsInv'
  <2>1. LightsKnown => LightsKnown'
    BY <1>1 DEF LightsKnown
  <2>2. QED
    BY <1>1, <2>1 DEF LightsInv
<1>2. ASSUME NEW i \in Index, TellConnected(i) \/ TellDisconnected(i) \/ TellOther,
             UNCHANGED <<view, lightVars>>,
             \A m \in Mobile : pc'[m] = "config" => pc[m] = "config"
      PROVE  LightsInv'
  <2>1. PICK lost \in SUBSET mobiles : Dropped(lost)
    BY <1>2, NotifyDrops
  <2>2. \A m \in lost : m \notin mobiles' /\ pc[m] # "config"
    BY <2>1 DEF Dropped, MobileInv
  <2>3. QED
    BY <1>1, <1>2, <2>1, <2>2 DEF Dropped
<1>3. ASSUME NEW m \in Mobile, MobileHandshake(m) PROVE LightsInv'
  BY <1>3 DEF MobileHandshake, LightsInv, LightsKnown
<1>4. ASSUME NEW m \in Mobile, HandshakeFails(m) PROVE LightsInv'
  BY <1>1, <1>4 DEF HandshakeFails, MobileInv
<1>5. ASSUME NEW m \in Mobile, AddClient(m) PROVE LightsInv'
  BY <1>1, <1>5 DEF AddClient
<1>6. ASSUME NEW m \in Mobile, AskRefresh(m) \/ FindMobile(m) \/ Beat(m) PROVE LightsInv'
  BY <1>1, <1>6 DEF AskRefresh, FindMobile, Beat
<1>7. ASSUME NEW m \in Mobile, RefreshDesktops(m) \/ RefreshEnds(m) PROVE LightsInv'
  BY <1>1, <1>7 DEF RefreshDesktops, RefreshEnds
<1>8. ASSUME NEW m \in Mobile, RemoveClient(m) PROVE LightsInv'
  BY <1>1, <1>8 DEF RemoveClient
<1>9. ASSUME NEW m \in Mobile, TellEntry(m) \/ NotifyModes(m) PROVE LightsInv'
  BY <1>2, <1>9, IndexAssumption DEF TellEntry, NotifyModes
<1>10. ASSUME NEW m \in Mobile, NEW i \in Index, CommandFails(m, i) PROVE LightsInv'
  BY <1>1, <1>10 DEF CommandFails
<1>11. ASSUME NEW d \in Desktop, NEW i \in Index, DesktopHandshake(d, i) PROVE LightsInv'
  BY <1>1, <1>11 DEF DesktopHandshake
<1>12. ASSUME NEW d \in Desktop, AddDesktop(d) \/ DesktopBeat(d) \/ FindDesktop(d) \/ FindNoDesktop(d)
       PROVE  LightsInv'
  BY <1>1, <1>12 DEF AddDesktop, DesktopBeat, FindDesktop, FindNoDesktop
<1>13. ASSUME NEW d \in Desktop, Announce(d) \/ PassOn(d) PROVE LightsInv'
  BY <1>2, <1>13, IndexAssumption DEF Announce, PassOn, IndexInv
<1>14. ASSUME NEW c \in Client, TellGone(c) PROVE LightsInv'
  BY <1>2, <1>14 DEF TellGone, IndexInv
<1>15. ASSUME NEW m \in Mobile, EraseForMobile(m) PROVE LightsInv'
  BY <1>1, <1>15 DEF EraseForMobile
<1>16. ASSUME NEW d \in Desktop, EraseForDesktop(d) PROVE LightsInv'
  BY <1>1, <1>16 DEF EraseForDesktop
<1>17. ASSUME NEW c \in Client, BecomeLate(c) \/ Vanish(c) PROVE LightsInv'
  BY <1>1, <1>17 DEF BecomeLate, Vanish
<1>18. CASE CheckMobiles
  <2>1. \A m \in Mobile : m \in late => m \in mobiles
    BY DEF Entries
  <2>2. mobiles' = mobiles \ late /\ missed' = missed \ late
    BY <1>18 DEF CheckMobiles, Drop
  <2>3. UNCHANGED <<pc, view, lightVars>>
    BY <1>18 DEF CheckMobiles
  <2>4. QED
    BY <1>1, <2>1, <2>2, <2>3 DEF MobileInv
<1>19. CASE CheckDesktops
  BY <1>1, <1>19 DEF CheckDesktops
<1>20. ASSUME NEW state \in Lights, ChangeLights(state) PROVE LightsInv'
  BY <1>20 DEF ChangeLights, WillBeTold, LightsInv
<1>21. CASE Announced \/ (\E other \in OtherWord : OtherChange(other)) \/ WakeUp
            \/ CompareLights \/ FindMobiles \/ ReadLights \/ SaveLights \/ ResetEvent
  <2>1. UNCHANGED <<pc, mobiles, missed, view, lights, carried>>
    BY <1>21 DEF clientVars, Announced, OtherChange, WakeUp, CompareLights, FindMobiles,
                 ReadLights, SaveLights, ResetEvent
  <2>2. LightsKnown' <=> LightsKnown
    BY <2>1 DEF LightsKnown
  <2>3. QED
    BY <1>21, <2>1, <2>2 DEF LightsInv, Announced, OtherChange, WakeUp, CompareLights,
       FindMobiles, ReadLights, SaveLights, ResetEvent
<1>25. CASE FindNobody
  <2>1. LightsKnown'
    BY <1>25 DEF FindNobody, BeforeAdd, LightsKnown, clientVars
  <2>2. device' = "save"
    BY <1>25 DEF FindNobody
  <2>3. QED
    BY <2>1, <2>2 DEF LightsInv
<1>22. CASE UpdateClients
  <2>1. PICK lost \in Lost :
          /\ mobiles' = mobiles \ lost
          /\ view' = [m \in Mobile |-> IF m \in mobiles \ lost THEN word ELSE view[m]]
          /\ missed' = (missed \cup BeforeAdd(word)) \ mobiles
    BY <1>22 DEF UpdateClients, Drop
  <2>2. UNCHANGED <<pc, lights, carried>> /\ device = "tell" /\ device' = "save"
    BY <1>22 DEF UpdateClients
  <2>3. ASSUME word = lights, NEW m \in Mobile \ missed', m \in mobiles' \/ pc'[m] = "config"
        PROVE  view'[m] = lights'
    <3>1. CASE m \in mobiles'
      BY <2>1, <2>2, <2>3, <3>1
    <3>2. CASE m \notin mobiles'
      <4>1. pc[m] = "config" /\ m \notin mobiles
        BY <2>2, <2>3, <3>2 DEF MobileInv
      <4>2. m \notin BeforeAdd(word)
        BY <2>1, <2>3, <4>1
      <4>3. QED
        BY <2>1, <2>2, <2>3, <4>1, <4>2 DEF BeforeAdd
    <3>3. QED
      BY <3>1, <3>2
  <2>4. QED
    BY <2>2, <2>3 DEF LightsInv, LightsKnown
<1>23. CASE UNCHANGED vars
  BY <1>1, <1>23 DEF vars
<1>24. QED
  BY <1>3, <1>4, <1>5, <1>6, <1>7, <1>8, <1>9, <1>10, <1>11, <1>12, <1>13, <1>14, <1>15, <1>16,
     <1>17, <1>18, <1>19, <1>20, <1>21, <1>22, <1>23, <1>25
     DEF Next, MobileThread, Refresh, DesktopThread, Removal, DeviceThread, DeviceAlone

\* The announcement tells all who are registered, the refresh tells the entries it found, and
\* nobody forgets a desktop but on its removal.
LEMMA KnownStep ==
  TypeOK /\ PlaceInv /\ LockInv /\ IndexInv /\ EntryInv /\ KnownInv /\ [Next]_vars => KnownInv'
<1> SUFFICES ASSUME TypeOK, PlaceInv, LockInv, IndexInv, EntryInv, KnownInv, [Next]_vars
             PROVE  KnownInv'
  OBVIOUS
<1> USE ClientAssumption DEF TypeOK, Client, GoTo, registerVars
<1>1. ASSUME \A i \in Index : desktops'[i] \in {desktops[i], NoDesktop},
             mobiles' \subseteq mobiles,
             \A m \in mobiles' :
               /\ told[m] \subseteq told'[m]
               /\ pc[m] = "refresh" => pc'[m] = "refresh"
               /\ pc[m] = "tellAll" => pc'[m] = "tellAll" /\ toTell \subseteq toTell',
             \A d \in Desktop : pc[d] = "announce" => pc'[d] = "announce",
             \A c \in Client : pc[c] = "erase" => pc'[c] = "erase" /\ index'[c] = index[c]
      PROVE  KnownInv'
  BY <1>1 DEF KnownInv, Entries
<1>2. ASSUME NEW m \in Mobile,
             MobileHandshake(m) \/ HandshakeFails(m) \/ AskRefresh(m) \/ FindMobile(m) \/ Beat(m)
      PROVE  KnownInv'
  <2>1. UNCHANGED <<index, desktops, mobiles, told, toTell>>
    BY <1>2 DEF MobileHandshake, HandshakeFails, AskRefresh, FindMobile, Beat
  <2>2. /\ pc[m] \in {"out", "config", "serve", "beat"}
        /\ \E place \in {"out", "config", "refresh", "serve", "beat"} : pc' = [pc EXCEPT ![m] = place]
    BY <1>2 DEF MobileHandshake, HandshakeFails, AskRefresh, FindMobile, Beat
  <2>3. QED
    BY <1>1, <2>1, <2>2
<1>3. ASSUME NEW m \in Mobile, AddClient(m) PROVE KnownInv'
  <2>1. mobiles' = mobiles \cup {m} /\ pc[m] = "config" /\ pc' = [pc EXCEPT ![m] = "refresh"]
    BY <1>3 DEF AddClient
  <2>2. UNCHANGED <<index, desktops, told, toTell>>
    BY <1>3 DEF AddClient
  <2>3. QED
    BY <2>1, <2>2 DEF KnownInv, Entries
<1>4. ASSUME NEW m \in Mobile, RefreshDesktops(m) PROVE KnownInv'
  <2>1. \A n \in Mobile : pc[n] # "tellAll"
    BY <1>4 DEF RefreshDesktops, LockInv, Holding
  <2>2. pc[m] = "refresh" /\ pc' = [pc EXCEPT ![m] = "tellAll"] /\ toTell' = Entries
    BY <1>4 DEF RefreshDesktops
  <2>3. UNCHANGED <<index, desktops, mobiles, told>>
    BY <1>4 DEF RefreshDesktops
  <2>4. QED
    BY <2>1, <2>2, <2>3 DEF KnownInv, Entries
<1>5. ASSUME NEW m \in Mobile, TellEntry(m) PROVE KnownInv'
  <2>1. PICK i \in toTell : TellConnected(i) /\ toTell' = toTell \ {i}
    BY <1>5 DEF TellEntry
  <2>2. \A n \in mobiles' : n \in mobiles /\ told'[n] = told[n] \cup {i}
    BY <2>1, ConnectedIsTold
  <2>3. UNCHANGED <<pc, index, desktops>>
    BY <1>5 DEF TellEntry
  <2>4. QED
    BY <2>1, <2>2, <2>3 DEF KnownInv, Entries
<1>6. ASSUME NEW m \in Mobile, RefreshEnds(m) PROVE KnownInv'
  <2>1. pc[m] = "tellAll" /\ toTell = {} /\ pc' = [pc EXCEPT ![m] = "serve"]
    BY <1>6 DEF RefreshEnds
  <2>2. UNCHANGED <<index, desktops, mobiles, told, toTell>>
    BY <1>6 DEF RefreshEnds
  <2>3. QED
    BY <2>1, <2>2 DEF KnownInv, Entries
<1>7. ASSUME NEW m \in Mobile, NotifyModes(m) PROVE KnownInv'
  BY <1>1, <1>7, OtherIsNotTold DEF NotifyModes
<1>8. ASSUME NEW m \in Mobile, NEW i \in Index, CommandFails(m, i) PROVE KnownInv'
  BY <1>1, <1>8 DEF CommandFails
<1>9. ASSUME NEW m \in Mobile, RemoveClient(m) PROVE KnownInv'
  <2>1. mobiles' = mobiles \ {m} /\ pc[m] = "serve" /\ pc' = [pc EXCEPT ![m] = "out"]
    BY <1>9 DEF RemoveClient
  <2>2. UNCHANGED <<index, desktops, toTell>> /\ told' = [told EXCEPT ![m] = {}]
    BY <1>9 DEF RemoveClient
  <2>3. QED
    BY <1>1, <2>1, <2>2
<1>10. ASSUME NEW d \in Desktop, NEW i \in Index, DesktopHandshake(d, i) PROVE KnownInv'
  BY <1>1, <1>10 DEF DesktopHandshake
<1>11. ASSUME NEW d \in Desktop, AddDesktop(d) PROVE KnownInv'
  <2>1. \A i \in Index : i # index[d] => desktops'[i] = desktops[i]
    BY <1>11 DEF AddDesktop
  <2>2. \A i \in Index : i = index[d] => desktops'[i] = d
    BY <1>11 DEF AddDesktop
  <2>3. pc[d] = "add" /\ pc' = [pc EXCEPT ![d] = "announce"]
    BY <1>11 DEF AddDesktop
  <2>4. UNCHANGED <<index, mobiles, told, toTell>>
    BY <1>11 DEF AddDesktop
  <2>5. ASSUME NEW m \in mobiles', NEW i \in Entries', pc'[desktops'[i]] # "announce"
        PROVE  i \in Entries /\ desktops[i] = desktops'[i] /\ pc[desktops[i]] = pc'[desktops'[i]]
    BY <2>1, <2>2, <2>3, <2>5 DEF Entries
  <2>6. QED
    BY <2>3, <2>4, <2>5 DEF KnownInv
<1>12. ASSUME NEW d \in Desktop, Announce(d) PROVE KnownInv'
  <2>1. TellConnected(index[d]) /\ index[d] \in Index /\ pc[d] = "announce"
    BY <1>12 DEF Announce, IndexInv
  <2>2. \A m \in mobiles' : m \in mobiles /\ told'[m] = told[m] \cup {index[d]}
    BY <2>1, ConnectedIsTold
  <2>3. pc' = [pc EXCEPT ![d] = "serve"] /\ UNCHANGED <<index, desktops, toTell>>
    BY <1>12 DEF Announce
  <2>4. \A i \in Entries : desktops[i] = d => i = index[d]
    BY DEF EntryInv
  <2>5. QED
    BY <2>1, <2>2, <2>3, <2>4 DEF KnownInv, Entries
<1>13. ASSUME NEW d \in Desktop, PassOn(d) PROVE KnownInv'
  BY <1>1, <1>13, OtherIsNotTold DEF PassOn
<1>14. ASSUME NEW d \in Desktop, DesktopBeat(d) \/ FindDesktop(d) \/ FindNoDesktop(d) PROVE KnownInv'
  BY <1>1, <1>14 DEF DesktopBeat, FindDesktop, FindNoDesktop
<1>15. ASSUME NEW c \in Client, TellGone(c) PROVE KnownInv'
  <2>1. pc[c] = "tellGone" /\ index[c] \in Index /\ TellDisconnected(index[c])
    BY <1>15 DEF TellGone, IndexInv
  <2>2. \A m \in mobiles' : m \in mobiles /\ told[m] \ {index[c]} \subseteq told'[m]
    BY <2>1, NotifyDrops DEF Dropped
  <2>3. pc' = [pc EXCEPT ![c] = "erase"] /\ UNCHANGED <<index, desktops, toTell>>
    BY <1>15 DEF TellGone
  <2>4. QED
    BY <2>1, <2>2, <2>3 DEF KnownInv, Entries
<1>16. ASSUME NEW c \in Client, pc[c] = "erase", index[c] \in Index, Erased(c),
              UNCHANGED <<mobiles, told, toTell>>, index' = [index EXCEPT ![c] = 0],
              NEW place \in {"serve", "out"}, pc' = [pc EXCEPT ![c] = place]
       PROVE  KnownInv'
  <2>1. ASSUME NEW i \in Entries'
        PROVE  i \in Entries /\ i # index[c] /\ desktops'[i] = desktops[i]
    BY <1>16, <2>1 DEF Erased, Entries
  <2>2. \A e \in Client \ {c} : pc'[e] = pc[e] /\ index'[e] = index[e]
    BY <1>16
  <2>3. QED
    BY <1>16, <2>1, <2>2 DEF KnownInv, Entries
<1>17. ASSUME NEW m \in Mobile, EraseForMobile(m) PROVE KnownInv'
  BY <1>16, <1>17 DEF EraseForMobile, IndexInv
<1>18. ASSUME NEW d \in Desktop, EraseForDesktop(d) PROVE KnownInv'
  BY <1>16, <1>18 DEF EraseForDesktop, IndexInv
<1>19. ASSUME NEW c \in Client, BecomeLate(c) \/ Vanish(c) PROVE KnownInv'
  BY <1>1, <1>19 DEF BecomeLate, Vanish
<1>20. CASE CheckMobiles
  BY <1>1, <1>20 DEF CheckMobiles, Drop
<1>21. CASE CheckDesktops
  BY <1>1, <1>21 DEF CheckDesktops
<1>22. CASE DeviceAlone
  BY <1>1, <1>22, DeviceAloneLeaves
<1>23. CASE UpdateClients
  BY <1>1, <1>23 DEF UpdateClients, Drop
<1>24. CASE UNCHANGED vars
  BY <1>1, <1>24 DEF vars
<1>25. QED
  BY <1>2, <1>3, <1>4, <1>5, <1>6, <1>7, <1>8, <1>9, <1>10, <1>11, <1>12, <1>13, <1>14, <1>15,
     <1>17, <1>18, <1>19, <1>20, <1>21, <1>22, <1>23, <1>24
     DEF Next, MobileThread, Refresh, DesktopThread, Removal, DeviceThread, DeviceAlone

\* The registers start empty ...
LEMMA InitIInv == Init => IInv
<1> SUFFICES ASSUME Init PROVE IInv
  OBVIOUS
<1> USE DEF Init, Client, Entries
<1>1. TypeOK
  <2>1. /\ pc \in [Client -> {"out", "config", "refresh", "tellAll", "serve", "beat", "add",
                              "announce", "tellGone", "erase"}]
        /\ index \in [Client -> Index \cup {0}]
        /\ desktops \in [Index -> Desktop \cup {NoDesktop}]
    OBVIOUS
  <2>2. told \in [Mobile -> SUBSET Index] /\ view \in [Mobile -> Lights]
    OBVIOUS
  <2>3. QED
    BY <2>1, <2>2 DEF TypeOK
<1>2. PlaceInv /\ LockInv /\ IndexInv
  BY ClientAssumption DEF PlaceInv, LockInv, IndexInv, Holding
<1>3. EntryInv /\ MobileInv /\ LightsInv /\ KnownInv
  BY DEF EntryInv, MobileInv, LightsInv, LightsKnown, KnownInv
<1>4. QED
  BY <1>1, <1>2, <1>3 DEF IInv

\* ... and every step keeps them in order.
LEMMA NextIInv == IInv /\ [Next]_vars => IInv'
  BY TypeStep, PlaceStep, IndexStep, EntryStep, MobileStep, LightsStep, KnownStep DEF IInv

-----------------------------------------------------------------------------
(* The theorems. *)

\* IInv holds whatever the clients, the heartbeats and the device's thread do.
THEOREM InductiveInvariant == Spec => []IInv
  BY InitIInv, NextIInv, PTL DEF Spec

\* The registers keep their types: only what is registered is late, nothing registered is cut.
THEOREM TypeCorrect == Spec => []TypeOK
<1>1. IInv => TypeOK
  BY DEF IInv
<1>2. QED
  BY <1>1, InductiveInvariant, PTL

\* No register keeps a socket whose client thread has turned to another client.
THEOREM RegisteredAreServed == Spec => []RegisteredClientsAreServed
<1>1. IInv => RegisteredClientsAreServed
  BY DEF IInv, MobileInv, EntryInv, RegisteredClientsAreServed
<1>2. QED
  BY <1>1, InductiveInvariant, PTL

\* device_t::do_run, on_light_changed of the register, update_clients and the handshake response
\* leave no registered mobile with old lights when all is at rest, but for a change that the
\* device thread swallows or never compares, and for a mobile that was not yet registered.
THEOREM MobilesHaveTheLights == Spec => []MobilesSeeTheLights
<1>1. IInv => MobilesSeeTheLights
  BY DEF IInv, TypeOK, LightsInv, LightsKnown, MobilesSeeTheLights
<1>2. QED
  BY <1>1, InductiveInvariant, PTL

\* refresh_desktops_info, on_desktop_connected and on_desktop_disconnected leave no connected
\* desktop unknown to a mobile.
THEOREM DesktopsAreKnown == Spec => []ConnectedDesktopsAreKnown
<1>1. ASSUME IInv PROVE ConnectedDesktopsAreKnown
  <2> SUFFICES ASSUME lock = NoClient, NEW m \in mobiles, NEW i \in Entries,
                      pc[m] # "refresh", pc[desktops[i]] # "announce"
               PROVE  i \in told[m]
    BY DEF ConnectedDesktopsAreKnown
  <2>1. \A c \in Client : pc[c] \notin Holding
    BY <1>1, ClientAssumption DEF IInv, LockInv, Client
  <2>2. m \in Client
    BY <1>1 DEF IInv, TypeOK, Client
  <2>3. QED
    BY <1>1, <2>1, <2>2 DEF IInv, KnownInv, Holding
<1>2. QED
  BY <1>1, InductiveInvariant, PTL
=============================================================================
