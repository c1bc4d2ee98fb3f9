---------------------------- MODULE MobileAppProofs ----------------------------
(***************************************************************************)
(* Proofs of the safety invariants of MobileApp, for any number of clicks, *)
(* mode commands and broken connections and any length of the queues.      *)
(***************************************************************************)
EXTENDS MobileApp, SequenceTheorems, TLAPS

\* The server serves a client on an open connection only, and the application opens one when the
\* last is closed.  The check boxes that are gone have nothing posted to them.
LinkInv ==
  /\ link = "open" <=> handler # "none"
  /\ link # "open" => toServer = <<>>
  /\ registered <=> handler \in {"serve", "update"}
  /\ thread = "connect" => link # "open"
  /\ screen = "none" => posted = <<>> /\ target # "shown"
  /\ ui # "idle" => Foreground

Requests == {makeUpdateModesRequest(x) : x \in 0 .. 7}

\* What each thread of the application has yet to write: the rest of one packet.
OutInv ==
  /\ thread = "handshake" =>
       out["thread"] \in {makeHandshakeRequest, Tail(makeHandshakeRequest), <<>>}
  /\ thread = "config" =>
       out["thread"] \in {makeConfigUpdateRequest, Tail(makeConfigUpdateRequest), <<>>}
  /\ thread = "answer" =>
       out["thread"] \in {makeMobileHeartbeatResponse, Tail(makeMobileHeartbeatResponse), <<>>}
  /\ thread \notin {"handshake", "config", "answer"} => out["thread"] = <<>>
  /\ \/ out["main"] = <<>>
     \/ ui = "send" /\ \E request \in Requests :
          out["main"] \in {request, Tail(request), Tail(Tail(request))}

\* The password and the request for the configuration have begun to be written, in this connection.
PasswordWritten == thread # "connect" /\ (thread = "handshake" => out["thread"] = <<>>)
ConfigWritten ==
  thread \notin {"connect", "handshake"} /\ out["thread"] # makeConfigUpdateRequest

Absent(word) == \A i \in DOMAIN toServer : toServer[i] # word
Once(word) == \A i, j \in DOMAIN toServer : toServer[i] = word /\ toServer[j] = word => i = j

\* After the first word of a request of modes two others come before the next such word.
RequestsApart ==
  \A i \in DOMAIN toServer : toServer[i] = UPDATE_MODES_REQUEST =>
    /\ \A k \in DOMAIN toServer : k \in {i + 1, i + 2} => toServer[k] # UPDATE_MODES_REQUEST
    /\ Len(out["main"]) \in {0, 3} => i + 2 \in DOMAIN toServer
    /\ Len(out["main"]) = 1 => i + 1 \in DOMAIN toServer

\* Which words the server may find where, whatever was torn: the password and the first word of
\* the request for the configuration come once in a connection.
WordsInv ==
  /\ Once(PASSWORD) /\ (~PasswordWritten => Absent(PASSWORD))
  /\ Once(CONFIG_UPDATE_REQUEST) /\ (~ConfigWritten => Absent(CONFIG_UPDATE_REQUEST))
  /\ handler \notin {"none", "handshake"} => PasswordWritten /\ Absent(PASSWORD)
  /\ handler \in {"add", "serve", "update"} => ConfigWritten /\ Absent(CONFIG_UPDATE_REQUEST)
  /\ RequestsApart

-----------------------------------------------------------------------------
\* The packet that starts at i, and which thread writes such packets.
Size(i) == IF toServer[i] = UPDATE_MODES_REQUEST THEN 3 ELSE 2
Writer(i) == IF toServer[i] = UPDATE_MODES_REQUEST THEN "main" ELSE "thread"

\* Where the packets to the server start, as long as none is torn: one ends where the next starts,
\* and what the last one lacks is what its thread has yet to write.
Framed(starts) ==
  /\ starts \subseteq DOMAIN toServer
  /\ toServer # <<>> => 1 \in starts
  /\ \A i \in starts :
       /\ \A k \in starts : k > i => k >= i + Size(i)
       /\ i + Size(i) \in DOMAIN toServer => i + Size(i) \in starts
       /\ i + Size(i) > Len(toServer) + 1 => Len(out[Writer(i)]) = i + Size(i) - (Len(toServer) + 1)
  /\ \A t \in DOMAIN out :
       Midway(t) => \E i \in starts : Writer(i) = t /\ i + Size(i) > Len(toServer) + 1

\* A click assigned m_eventModes and has yet to send them.
Asking == {"read", "post", "request"}

\* The last request on its way asks for the modes the application has, or will be made of them.
Carried(starts) ==
  \/ ui \in Asking
  \/ out["main"] # <<>> /\ out["main"][Len(out["main"])] = m_eventModes
  \/ /\ out["main"] = <<>>
     /\ \E i \in starts :
          /\ toServer[i] = UPDATE_MODES_REQUEST
          /\ toServer[i + 2] = m_eventModes
          /\ \A j \in starts : toServer[j] = UPDATE_MODES_REQUEST => j <= i

Tells(packet) == packet.kind \in {"handshake", "modes"}
Untold == \A i \in DOMAIN toApp : ~Tells(toApp[i])

\* The client had its handshake, no announcement is under way, and nothing has gone wrong.
Settled ==
  /\ handler \in {"config", "add", "serve", "update"}
  /\ ~raced /\ place = "right"
  /\ \A t \in DOMAIN announcing : announcing[t] = Nothing

\* The last packet that tells modes tells the server's.
LastTells ==
  \A i \in DOMAIN toApp :
    Tells(toApp[i]) /\ (\A j \in DOMAIN toApp : j > i => ~Tells(toApp[j])) => toApp[i].modes = modes

\* With none on its way the application has these modes, or a request for those it has is on its way.
ThreadKnows == thread = "set" => value = modes
ApplicationKnows(starts) == thread # "set" => m_eventModes = modes \/ Carried(starts)

Known(starts) ==
  /\ LastTells
  /\ Untold => ThreadKnows /\ ApplicationKnows(starts)

Stream == \E starts \in SUBSET DOMAIN toServer : Framed(starts) /\ (Settled => Known(starts))

StreamInv == link = "open" /\ ~torn => Stream

Shown(bitset) == bitset % 2 ^ ModeCount

\* What the check boxes show when the runnables are done.
ToShow == IF posted = <<>> THEN boxes ELSE Shown(posted[Len(posted)])

\* A thread has assigned m_eventModes, or the user has clicked, and a post to the check boxes that
\* are there follows.
ThreadPosts == thread \in {"check", "load"} \/ (thread \in {"read", "post"} /\ target = "shown")
MainPosts == ui \in {"write", "read", "post"}

\* What a thread is about to post, and what the check boxes will show, are the modes the application
\* has, if the other thread has not overwritten those that were read.
BoxesInv ==
  /\ thread = "post" /\ "thread" \notin crossed => value = m_eventModes
  /\ ui = "post" /\ "main" \notin crossed => clicked = m_eventModes
  /\ screen # "none" /\ ~ThreadPosts /\ ~MainPosts /\ ~behind /\ "boxes" \notin crossed =>
       ToShow = Shown(m_eventModes)

IInv ==
  /\ TypeOK
  /\ LinkInv
  /\ OutInv
  /\ WordsInv
  /\ StreamInv
  /\ BoxesInv

-----------------------------------------------------------------------------
\* The powers of two that number the modes.
LEMMA Powers == 2 ^ 0 = 1 /\ 2 ^ 1 = 2 /\ 2 ^ 2 = 4
OBVIOUS

\* Flipping the bit of a mode leaves a bitset.
LEMMA FlipType ==
  ASSUME NEW n \in 0 .. 7, NEW idx \in 0 .. 1
  PROVE  Flip(n, idx) \in 0 .. 7
<1>1. CASE idx = 0
  BY <1>1, Powers DEF Flip
<1>2. CASE idx = 1
  BY <1>2, Powers DEF Flip
<1> QED
  BY <1>1, <1>2

\* Flipping a check box leaves check boxes.
LEMMA FlipBoxes ==
  ASSUME NEW n \in 0 .. 2 ^ ModeCount - 1, NEW idx \in 0 .. ModeCount - 1
  PROVE  Flip(n, idx) \in 0 .. 2 ^ ModeCount - 1
<1>1. CASE ModeCount = 1
  <2>1. idx = 0 /\ n \in 0 .. 1
    BY <1>1, Powers
  <2> QED
    BY <1>1, <2>1, Powers DEF Flip
<1>2. CASE ModeCount = 2 /\ idx = 0
  BY <1>2, Powers DEF Flip
<1>3. CASE ModeCount = 2 /\ idx = 1
  BY <1>3, Powers DEF Flip
<1> QED
  BY <1>1, <1>2, <1>3, BoundAssumption

\* There is a check box for each mode.
LEMMA ShownType ==
  ASSUME NEW n \in 0 .. 7
  PROVE  n % 2 ^ ModeCount \in 0 .. 2 ^ ModeCount - 1
<1>1. CASE ModeCount = 1
  BY <1>1, Powers
<1>2. CASE ModeCount = 2
  BY <1>2, Powers
<1> QED
  BY <1>1, <1>2, BoundAssumption

\* What is left of a sequence when its first elements were taken.
LEMMA Rest ==
  ASSUME NEW S, NEW s \in Seq(S), NEW n \in Nat, n <= Len(s)
  PROVE  LET rest == SubSeq(s, n + 1, Len(s))
         IN  /\ rest \in Seq(S)
             /\ Len(rest) = Len(s) - n
             /\ \A i \in 1 .. Len(s) - n : rest[i] = s[i + n]
OBVIOUS

\* Without its first element a sequence ends as before.
LEMMA LastStays ==
  ASSUME NEW S, NEW s \in Seq(S), s # <<>>, Len(s) # 1
  PROVE  Tail(s) # <<>> /\ Tail(s)[Len(Tail(s))] = s[Len(s)]
<1>1. Len(s) \in Nat /\ Len(s) # 0 /\ Len(s) # 1
  BY EmptySeq
<1>2. Len(s) > 1
  <2>1. \A n \in Nat : n # 0 /\ n # 1 => n > 1
    OBVIOUS
  <2> QED
    BY <1>1, <2>1
<1>3. Len(Tail(s)) = Len(s) - 1 /\ Tail(s)[Len(s) - 1] = s[Len(s)]
  BY <1>1, <1>2
<1>4. Tail(s) # <<>>
  <2>1. Len(Tail(s)) # 0
    BY <1>1, <1>2, <1>3
  <2> QED
    BY <2>1, EmptySeq
<1> QED
  BY <1>3, <1>4

\* The packets are packets, the words words.
LEMMA Made ==
  /\ \A state \in 0 .. 7 : HandshakeResponse(state) \in Packet /\ ModesNotification(state) \in Packet
  /\ \A kind \in {"config", "light", "heartbeat"} : Plain(kind) \in Packet
  /\ makeHandshakeRequest \in Seq(Word)
  /\ makeConfigUpdateRequest \in Seq(Word)
  /\ makeMobileHeartbeatResponse \in Seq(Word)
  /\ \A state \in 0 .. 7 : makeUpdateModesRequest(state) \in Seq(Word)
BY DEF HandshakeResponse, ModesNotification, Plain, Packet, makeHandshakeRequest,
  makeConfigUpdateRequest, makeMobileHeartbeatResponse, makeUpdateModesRequest, Word,
  HANDSHAKE_REQUEST, HEARTBEAT_RESPONSE, CONFIG_UPDATE_REQUEST, UPDATE_MODES_REQUEST, PASSWORD

\* The word after the first two of a request of modes is a bitset.
LEMMA ThirdWord ==
  ASSUME TypeOK, WordsInv, handler = "serve", Len(toServer) >= 3,
         Head(toServer) = UPDATE_MODES_REQUEST
  PROVE  toServer[3] \in 0 .. 7
<1>1. toServer[1] = UPDATE_MODES_REQUEST /\ {1, 3} \subseteq DOMAIN toServer
  BY DEF TypeOK
<1>2. toServer[3] \in Word /\ toServer[3] # UPDATE_MODES_REQUEST
  BY <1>1 DEF TypeOK, WordsInv, RequestsApart
<1>3. toServer[3] # PASSWORD /\ toServer[3] # CONFIG_UPDATE_REQUEST
  BY <1>1 DEF WordsInv, Absent
<1> QED
  BY <1>2, <1>3 DEF Word, HANDSHAKE_REQUEST, HEARTBEAT_RESPONSE, CONFIG_UPDATE_REQUEST,
    UPDATE_MODES_REQUEST, PASSWORD

\* TypeOK in parts.
ServerOK ==
  /\ modes \in 0 .. 7
  /\ handler \in {"none", "handshake", "config", "add", "serve", "update"}
  /\ registered \in BOOLEAN
  /\ unanswered \in BOOLEAN
  /\ loaded \in 0 .. 7 \cup {Nothing}
  /\ announcing \in [{"client", "events"} -> 0 .. 7 \cup {Nothing, ToRead}]
LinkOK ==
  /\ link \in {"none", "open", "closed"}
  /\ toApp \in Seq(Packet) /\ Len(toApp) <= QueueLen
  /\ toServer \in Seq(Word)
ThreadOK ==
  /\ thread \in {"connect", "handshake", "config", "receive", "answer", "set", "check", "load",
                 "read", "post", "ended"}
  /\ value \in 0 .. 7
  /\ target \in {"none", "shown", "left"}
  /\ place \in {"right", "wrong", "skipped"}
  /\ out \in [{"thread", "main"} -> Seq(Word)]
  /\ m_connected \in BOOLEAN
  /\ m_eventModes \in 0 .. 7
  /\ config \in BOOLEAN
ScreenOK ==
  /\ screen \in {"none", "hidden", "foreground"}
  /\ ui \in {"idle", "write", "read", "post", "request", "send"}
  /\ clicked \in 0 .. 7
  /\ boxes \in 0 .. 2 ^ ModeCount - 1
  /\ posted \in Seq(0 .. 7)
HistoryOK ==
  /\ died \in BOOLEAN
  /\ clicks \in 0 .. MaxClicks
  /\ sets \in 0 .. MaxSets
  /\ raced \in BOOLEAN
  /\ torn \in BOOLEAN
  /\ crossed \subseteq {"thread", "main", "boxes"}
  /\ behind \in BOOLEAN

\* TypeOK is its parts, in this state and in the next.
LEMMA TypeParts ==
  /\ TypeOK <=> ServerOK /\ LinkOK /\ ThreadOK /\ ScreenOK /\ HistoryOK
  /\ TypeOK' <=> ServerOK' /\ LinkOK' /\ ThreadOK' /\ ScreenOK' /\ HistoryOK'
BY DEF TypeOK, ServerOK, LinkOK, ThreadOK, ScreenOK, HistoryOK

Application == ConnectionThread \/ MainThread \/ User
Server == ClientHandler \/ LoadModes \/ EventThread \/ NotifyLight \/ AskAlive \/ DropClient \/ Break

\* The application changes nothing of the server.
LEMMA ApplicationLeavesServer ==
  ASSUME Application
  PROVE  UNCHANGED <<serverVars, link, sets, raced>>
<1> USE DEF linkVars, boundVars, raceVars
<1>1. CASE ConnectionThread
  BY <1>1 DEF ConnectionThread, Sent, Write, WriteFails, ReadFails, Receive, ReceiveGarbled,
    SetEventModes, CheckForeground, LoadForeground, ReadModes, PostModes
<1>2. CASE MainThread
  BY <1>2 DEF MainThread, ShowModes, WriteClick, ReadClick, PostClick, RequestModesUpdate, Write,
    WriteFails, ClickEnds
<1>3. CASE User
  BY <1>3 DEF User, OpenModes, Resume, Pause, Leave, Click
<1> QED
  BY <1>1, <1>2, <1>3 DEF Application

\* The server changes nothing of the application.
LEMMA ServerLeavesApplication ==
  ASSUME Server
  PROVE  UNCHANGED <<threadVars, out, m_eventModes, screenVars, died, clicks, torn, crossed, behind>>
<1> USE DEF boundVars, raceVars
<1>1. CASE ClientHandler
  BY <1>1 DEF ClientHandler, Handshake, UpdateMobileConfig, AddClient, HeartbeatResponse,
    UpdateModes, ReceiveError, GetModes, NotifyModesUpdate
<1>2. CASE EventThread
  BY <1>2 DEF EventThread, SetModeBit, GetModes, NotifyModesUpdate
<1>3. CASE LoadModes \/ NotifyLight \/ AskAlive \/ DropClient \/ Break
  BY <1>3 DEF LoadModes, NotifyLight, AskAlive, DropClient, Break
<1> QED
  BY <1>1, <1>2, <1>3 DEF Server

\* A step is one of the application, of the server, or a new connection.
LEMMA Steps ==
  ASSUME [Next]_vars
  PROVE  \/ \E works \in BOOLEAN : Connect(works)
         \/ Application
         \/ Server
         \/ UNCHANGED vars
BY DEF Next, Application, Server

\* The thread of the connection keeps the types.
LEMMA ConnectionTypeStep ==
  ASSUME TypeOK, ConnectionThread
  PROVE  LinkOK' /\ ThreadOK' /\ ScreenOK' /\ HistoryOK'
<1> USE DEF serverVars, linkVars, threadVars, screenVars, boundVars, raceVars
<1>1. CASE Sent
  <2>1. out' \in [{"thread", "main"} -> Seq(Word)]
    BY <1>1, Made, TypeParts DEF Sent, ThreadOK
  <2>2. m_connected' \in BOOLEAN
    BY <1>1, TypeParts DEF Sent, ThreadOK
  <2>3. ThreadOK'
    BY <1>1, <2>1, <2>2, TypeParts DEF Sent, ThreadOK
  <2> QED
    BY <1>1, <2>3, TypeParts DEF Sent, LinkOK, ScreenOK, HistoryOK
<1>2. CASE Write("thread")
  <2>1. out' \in [{"thread", "main"} -> Seq(Word)] /\ Head(out["thread"]) \in Word
    BY <1>2, TypeParts DEF Write, ThreadOK
  <2>2. LinkOK'
    BY <1>2, <2>1, TypeParts DEF Write, LinkOK
  <2>3. HistoryOK'
    BY <1>2, TypeParts DEF Write, HistoryOK
  <2>4. ThreadOK'
    BY <1>2, <2>1, TypeParts DEF Write, ThreadOK
  <2> QED
    BY <1>2, <2>2, <2>3, <2>4, TypeParts DEF Write, ScreenOK
<1>3. CASE WriteFails("thread")
  <2>1. out' \in [{"thread", "main"} -> Seq(Word)]
    BY <1>3, TypeParts DEF WriteFails, ThreadOK
  <2>2. ThreadOK'
    BY <1>3, <2>1, TypeParts DEF WriteFails, ThreadOK
  <2> QED
    BY <1>3, <2>2, TypeParts DEF WriteFails, LinkOK, ScreenOK, HistoryOK
<1>4. CASE ReadFails
  <2>1. ThreadOK'
    BY <1>4, TypeParts DEF ReadFails, ThreadOK
  <2> QED
    BY <1>4, <2>1, TypeParts DEF ReadFails, LinkOK, ScreenOK, HistoryOK
<1>5. CASE Receive
  <2>1. Head(toApp) \in Packet /\ Tail(toApp) \in Seq(Packet) /\ Len(Tail(toApp)) <= QueueLen
    BY <1>5, TypeParts, BoundAssumption DEF Receive, LinkOK
  <2>2. value' \in 0 .. 7
    BY <1>5, <2>1, TypeParts DEF Receive, ThreadOK, Packet
  <2>3. out' \in [{"thread", "main"} -> Seq(Word)]
    BY <1>5, Made, TypeParts DEF Receive, ThreadOK
  <2>4. thread' \in {"set", "answer", thread} /\ place' \in {"wrong", place}
    BY <1>5 DEF Receive
  <2>5. config' \in BOOLEAN /\ UNCHANGED <<target, m_connected, m_eventModes>>
    BY <1>5, TypeParts DEF Receive, ThreadOK
  <2>6. ThreadOK'
    BY <2>2, <2>3, <2>4, <2>5, TypeParts DEF ThreadOK
  <2>7. LinkOK'
    BY <1>5, <2>1, TypeParts DEF Receive, LinkOK
  <2> QED
    BY <1>5, <2>6, <2>7, TypeParts DEF Receive, ScreenOK, HistoryOK
<1>6. CASE ReceiveGarbled
  <2>1. toApp' \in Seq(Packet) /\ Len(toApp') <= QueueLen
    <3>1. CASE toApp' = Tail(toApp)
      <4>1. toApp # <<>> /\ toApp \in Seq(Packet) /\ Len(toApp) <= QueueLen
        BY <1>6, TypeParts DEF ReceiveGarbled, LinkOK
      <4> QED
        BY <3>1, <4>1, BoundAssumption
    <3>2. CASE \E n \in 1 .. Len(toApp) : toApp' = SubSeq(toApp, n + 1, Len(toApp))
      <4>1. PICK n \in 1 .. Len(toApp) : toApp' = SubSeq(toApp, n + 1, Len(toApp))
        BY <3>2
      <4> QED
        BY <4>1, Rest, TypeParts, BoundAssumption DEF LinkOK
    <3>3. CASE UNCHANGED toApp
      BY <3>3, TypeParts DEF LinkOK
    <3> QED
      BY <1>6, <3>1, <3>2, <3>3 DEF ReceiveGarbled
  <2>2. place' \in {"wrong", "skipped"} /\ died' \in BOOLEAN
    BY <1>6, TypeParts DEF ReceiveGarbled, ThreadOK, HistoryOK
  <2>3. UNCHANGED <<link, toServer, thread, value, target, m_connected, config, out, m_eventModes,
                    screenVars, boundVars, raceVars, behind>>
    BY <1>6 DEF ReceiveGarbled
  <2> QED
    BY <2>1, <2>2, <2>3, TypeParts DEF LinkOK, ThreadOK, ScreenOK, HistoryOK
<1>7. CASE SetEventModes
  <2>1. ThreadOK'
    BY <1>7, TypeParts DEF SetEventModes, ThreadOK
  <2>2. crossed' \subseteq crossed \cup {"main"} /\ behind' \in BOOLEAN
    BY <1>7, TypeParts DEF SetEventModes, HistoryOK
  <2>3. HistoryOK'
    BY <1>7, <2>2, TypeParts DEF SetEventModes, HistoryOK
  <2> QED
    BY <1>7, <2>1, <2>3, TypeParts DEF SetEventModes, LinkOK, ScreenOK
<1>8. CASE CheckForeground
  <2>1. ThreadOK'
    BY <1>8, TypeParts DEF CheckForeground, ThreadOK
  <2>2. HistoryOK'
    BY <1>8, TypeParts DEF CheckForeground, HistoryOK
  <2> QED
    BY <1>8, <2>1, <2>2, TypeParts DEF CheckForeground, LinkOK, ScreenOK
<1>9. CASE LoadForeground
  <2>1. ThreadOK'
    BY <1>9, TypeParts DEF LoadForeground, ThreadOK
  <2>2. HistoryOK'
    BY <1>9, TypeParts DEF LoadForeground, HistoryOK
  <2> QED
    BY <1>9, <2>1, <2>2, TypeParts DEF LoadForeground, LinkOK, ScreenOK
<1>10. CASE ReadModes
  <2>1. ThreadOK'
    BY <1>10, TypeParts DEF ReadModes, ThreadOK
  <2> QED
    BY <1>10, <2>1, TypeParts DEF ReadModes, LinkOK, ScreenOK, HistoryOK
<1>11. CASE PostModes
  <2>1. posted' \in Seq(0 .. 7)
    <3>1. posted' = Append(posted, value) \/ posted' = posted
      BY <1>11 DEF PostModes
    <3>2. posted \in Seq(0 .. 7) /\ value \in 0 .. 7
      BY <1>11, TypeParts DEF PostModes, ThreadOK, ScreenOK
    <3>3. Append(posted, value) \in Seq(0 .. 7)
      BY <3>2
    <3> QED
      BY <3>1, <3>2, <3>3
  <2>2. ThreadOK'
    BY <1>11, TypeParts DEF PostModes, ThreadOK
  <2>3. crossed' \subseteq crossed \cup {"boxes"} /\ behind' \in {behind, FALSE}
    BY <1>11 DEF PostModes, Posted
  <2>4. HistoryOK'
    BY <1>11, <2>3, TypeParts DEF PostModes, HistoryOK
  <2>5. ScreenOK'
    BY <1>11, <2>1, TypeParts DEF PostModes, ScreenOK
  <2> QED
    BY <1>11, <2>2, <2>4, <2>5, TypeParts DEF PostModes, LinkOK
<1> QED
  BY <1>1, <1>2, <1>3, <1>4, <1>5, <1>6, <1>7, <1>8, <1>9, <1>10, <1>11
    DEF ConnectionThread

\* The main thread and the user keep the types.
LEMMA MainTypeStep ==
  ASSUME TypeOK, MainThread \/ User
  PROVE  LinkOK' /\ ThreadOK' /\ ScreenOK' /\ HistoryOK'
<1> USE DEF serverVars, linkVars, threadVars, screenVars, boundVars, raceVars
<1>1. CASE ShowModes
  <2>1. Head(posted) \in 0 .. 7 /\ Tail(posted) \in Seq(0 .. 7)
    BY <1>1, TypeParts, BoundAssumption DEF ShowModes, ScreenOK
  <2>2. boxes' \in 0 .. 2 ^ ModeCount - 1
    BY <1>1, <2>1, ShownType DEF ShowModes
  <2>3. ScreenOK'
    BY <1>1, <2>1, <2>2, TypeParts DEF ShowModes, ScreenOK
  <2> QED
    BY <1>1, <2>3, TypeParts DEF ShowModes, LinkOK, ThreadOK, HistoryOK
<1>2. CASE WriteClick
  <2>1. ScreenOK'
    BY <1>2, TypeParts DEF WriteClick, ScreenOK
  <2>2. ThreadOK'
    BY <1>2, TypeParts DEF WriteClick, ThreadOK, ScreenOK
  <2>3. crossed' \subseteq crossed \cup {"thread"}
    BY <1>2 DEF WriteClick
  <2>4. HistoryOK'
    BY <1>2, <2>3, TypeParts DEF WriteClick, HistoryOK
  <2> QED
    BY <1>2, <2>1, <2>2, <2>4, TypeParts DEF WriteClick, LinkOK
<1>11. CASE ReadClick
  <2>1. ScreenOK'
    BY <1>11, TypeParts DEF ReadClick, ScreenOK, ThreadOK
  <2> QED
    BY <1>11, <2>1, TypeParts DEF ReadClick, LinkOK, ThreadOK, HistoryOK
<1>12. CASE PostClick
  <2>1. posted' \in Seq(0 .. 7)
    BY <1>12, TypeParts, BoundAssumption DEF PostClick, ScreenOK
  <2>2. ScreenOK'
    BY <1>12, <2>1, TypeParts DEF PostClick, ScreenOK
  <2>3. crossed' \subseteq crossed \cup {"boxes"}
    BY <1>12 DEF PostClick, Posted
  <2>4. HistoryOK'
    BY <1>12, <2>3, TypeParts DEF PostClick, HistoryOK
  <2> QED
    BY <1>12, <2>2, <2>4, TypeParts DEF PostClick, LinkOK, ThreadOK
<1>3. CASE RequestModesUpdate
  <2>1. out' \in [{"thread", "main"} -> Seq(Word)]
    BY <1>3, Made, TypeParts DEF RequestModesUpdate, ThreadOK
  <2>2. ThreadOK'
    BY <1>3, <2>1, TypeParts DEF RequestModesUpdate, ThreadOK
  <2>3. ScreenOK'
    BY <1>3, TypeParts DEF RequestModesUpdate, ScreenOK
  <2> QED
    BY <1>3, <2>2, <2>3, TypeParts DEF RequestModesUpdate, LinkOK, HistoryOK
<1>4. CASE Write("main")
  <2>1. out' \in [{"thread", "main"} -> Seq(Word)] /\ Head(out["main"]) \in Word
    BY <1>4, TypeParts DEF Write, ThreadOK
  <2>2. LinkOK'
    BY <1>4, <2>1, TypeParts DEF Write, LinkOK
  <2>3. HistoryOK'
    BY <1>4, TypeParts DEF Write, HistoryOK
  <2>4. ThreadOK'
    BY <1>4, <2>1, TypeParts DEF Write, ThreadOK
  <2> QED
    BY <1>4, <2>2, <2>3, <2>4, TypeParts DEF Write, ScreenOK
<1>5. CASE WriteFails("main")
  <2>1. out' \in [{"thread", "main"} -> Seq(Word)]
    BY <1>5, TypeParts DEF WriteFails, ThreadOK
  <2>2. ThreadOK'
    BY <1>5, <2>1, TypeParts DEF WriteFails, ThreadOK
  <2> QED
    BY <1>5, <2>2, TypeParts DEF WriteFails, LinkOK, ScreenOK, HistoryOK
<1>6. CASE ClickEnds
  <2>1. ScreenOK'
    BY <1>6, TypeParts DEF ClickEnds, ScreenOK
  <2> QED
    BY <1>6, <2>1, TypeParts DEF ClickEnds, LinkOK, ThreadOK, HistoryOK
<1>7. CASE OpenModes
  <2>1. boxes' \in 0 .. 2 ^ ModeCount - 1
    BY <1>7, ShownType, TypeParts DEF OpenModes, ThreadOK, ScreenOK
  <2>2. ScreenOK'
    BY <1>7, <2>1, TypeParts DEF OpenModes, ScreenOK
  <2>3. HistoryOK'
    BY <1>7, TypeParts DEF OpenModes, HistoryOK
  <2> QED
    BY <1>7, <2>2, <2>3, TypeParts DEF OpenModes, LinkOK, ThreadOK
<1>8. CASE Resume \/ Pause
  <2>1. ScreenOK'
    BY <1>8, TypeParts DEF Resume, Pause, ScreenOK
  <2> QED
    BY <1>8, <2>1, TypeParts DEF Resume, Pause, LinkOK, ThreadOK, HistoryOK
<1>9. CASE Leave
  <2>1. boxes' \in 0 .. 2 ^ ModeCount - 1
    <3>1. CASE ModeCount = 1
      BY <1>9, <3>1, Powers DEF Leave
    <3>2. CASE ModeCount = 2
      BY <1>9, <3>2, Powers DEF Leave
    <3> QED
      BY <3>1, <3>2, BoundAssumption
  <2>2. posted' \in Seq(0 .. 7)
    BY <1>9, BoundAssumption DEF Leave
  <2>3. ScreenOK'
    BY <1>9, <2>1, <2>2, TypeParts DEF Leave, ScreenOK
  <2>4. HistoryOK'
    BY <1>9, TypeParts DEF Leave, HistoryOK
  <2>5. ThreadOK'
    BY <1>9, TypeParts DEF Leave, ThreadOK
  <2> QED
    BY <1>9, <2>3, <2>4, <2>5, TypeParts DEF Leave, LinkOK
<1>10. ASSUME NEW idx \in 0 .. ModeCount - 1, Click(idx)
       PROVE  LinkOK' /\ ThreadOK' /\ ScreenOK' /\ HistoryOK'
  <2>1. boxes' \in 0 .. 2 ^ ModeCount - 1
    BY <1>10, FlipBoxes, TypeParts DEF Click, ScreenOK
  <2>2. clicked' \in 0 .. 7
    BY <1>10, FlipType, TypeParts, BoundAssumption DEF Click, ThreadOK
  <2>3. clicks' \in 0 .. MaxClicks
    BY <1>10, TypeParts, BoundAssumption DEF Click, HistoryOK
  <2>4. ScreenOK'
    BY <1>10, <2>1, <2>2, TypeParts DEF Click, ScreenOK
  <2>5. HistoryOK'
    BY <1>10, <2>3, TypeParts DEF Click, HistoryOK
  <2> QED
    BY <1>10, <2>4, <2>5, TypeParts DEF Click, LinkOK, ThreadOK
<1> QED
  BY <1>1, <1>2, <1>3, <1>4, <1>5, <1>6, <1>7, <1>8, <1>9, <1>10, <1>11, <1>12
    DEF MainThread, User

\* A closed connection leaves the server's variables what they are.
LEMMA CloseType ==
  ASSUME TypeOK, Close, UNCHANGED <<modes, loaded, toApp>>
  PROVE  ServerOK' /\ LinkOK'
<1>1. announcing' \in [{"client", "events"} -> 0 .. 7 \cup {Nothing, ToRead}]
  BY TypeParts DEF Close, ServerOK
<1>2. toServer' \in Seq(Word)
  BY DEF Close
<1> QED
  BY <1>1, <1>2, TypeParts DEF Close, ServerOK, LinkOK

\* The server keeps the types.
LEMMA ServerTypeStep ==
  ASSUME TypeOK, WordsInv, Server
  PROVE  TypeOK'
<1> USE DEF boundVars, raceVars
<1>1. ThreadOK' /\ ScreenOK'
  BY ServerLeavesApplication, TypeParts DEF threadVars, screenVars, ThreadOK, ScreenOK
<1>2. /\ Len(toServer) >= 2 => SubSeq(toServer, 3, Len(toServer)) \in Seq(Word)
      /\ Len(toServer) >= 3 => SubSeq(toServer, 4, Len(toServer)) \in Seq(Word)
  BY TypeParts DEF LinkOK
<1>3. ASSUME NEW packet \in Packet, Room, toApp' = Append(toApp, packet)
      PROVE  toApp' \in Seq(Packet) /\ Len(toApp') <= QueueLen
  BY <1>3, TypeParts, BoundAssumption DEF Room, LinkOK
<1>4. CASE Handshake
  <2>1. CASE SubSeq(toServer, 1, 2) = makeHandshakeRequest
    <3>1. HandshakeResponse(modes) \in Packet
      BY Made, TypeParts DEF ServerOK
    <3>2. toApp' \in Seq(Packet) /\ Len(toApp') <= QueueLen
      <4>1. Room /\ toApp' = Append(toApp, HandshakeResponse(modes))
        BY <1>4, <2>1 DEF Handshake
      <4> QED
        BY <1>3, <3>1, <4>1
    <3>3. toServer' \in Seq(Word)
      BY <1>2, <1>4, <2>1, TypeParts DEF Handshake, LinkOK
    <3>4. LinkOK'
      BY <1>4, <2>1, <3>2, <3>3, TypeParts DEF Handshake, LinkOK
    <3>5. ServerOK'
      BY <1>4, <2>1, TypeParts DEF Handshake, ServerOK
    <3>6. HistoryOK'
      BY <1>4, <2>1, TypeParts DEF Handshake, HistoryOK
    <3> QED
      BY <1>1, <3>4, <3>5, <3>6, TypeParts
  <2>2. CASE SubSeq(toServer, 1, 2) # makeHandshakeRequest
    <3>1. ServerOK' /\ LinkOK'
      BY <1>4, <2>2, CloseType DEF Handshake
    <3>2. HistoryOK'
      BY <1>4, <2>2, TypeParts DEF Handshake, HistoryOK
    <3> QED
      BY <1>1, <3>1, <3>2, TypeParts
  <2> QED
    BY <2>1, <2>2
<1>5. CASE UpdateMobileConfig
  <2>1. HistoryOK'
    BY <1>5, TypeParts DEF UpdateMobileConfig, HistoryOK
  <2>2. CASE Head(toServer) = CONFIG_UPDATE_REQUEST
    <3>1. toApp' \in Seq(Packet) /\ Len(toApp') <= QueueLen
      <4>1. Room /\ toApp' = Append(toApp, Plain("config"))
        BY <1>5, <2>2 DEF UpdateMobileConfig
      <4> QED
        BY <1>3, <4>1, Made
    <3>2. toServer' \in Seq(Word)
      BY <1>2, <1>5, <2>2, TypeParts DEF UpdateMobileConfig, LinkOK
    <3>3. LinkOK'
      BY <1>5, <2>2, <3>1, <3>2, TypeParts DEF UpdateMobileConfig, LinkOK
    <3>4. ServerOK'
      BY <1>5, <2>2, TypeParts DEF UpdateMobileConfig, ServerOK
    <3> QED
      BY <1>1, <2>1, <3>3, <3>4, TypeParts
  <2>3. CASE Head(toServer) # CONFIG_UPDATE_REQUEST
    <3>1. ServerOK' /\ LinkOK'
      BY <1>5, <2>3, CloseType DEF UpdateMobileConfig
    <3> QED
      BY <1>1, <2>1, <3>1, TypeParts
  <2> QED
    BY <2>2, <2>3
<1>6. CASE AddClient
  <2>1. ServerOK'
    BY <1>6, TypeParts DEF AddClient, ServerOK
  <2> QED
    BY <1>1, <1>6, <2>1, TypeParts DEF AddClient, linkVars, LinkOK, HistoryOK
<1>7. CASE HeartbeatResponse
  <2>1. toServer' \in Seq(Word)
    BY <1>2, <1>7, TypeParts DEF HeartbeatResponse, LinkOK
  <2>2. ServerOK'
    BY <1>7, TypeParts DEF HeartbeatResponse, ServerOK
  <2> QED
    BY <1>1, <1>7, <2>1, <2>2, TypeParts DEF HeartbeatResponse, LinkOK, HistoryOK
<1>8. CASE UpdateModes
  <2>1. toServer' \in Seq(Word)
    BY <1>2, <1>8, TypeParts DEF UpdateModes, LinkOK
  <2>2. modes' \in 0 .. 7
    BY <1>8, ThirdWord DEF UpdateModes
  <2>3. announcing' \in [{"client", "events"} -> 0 .. 7 \cup {Nothing, ToRead}]
    BY <1>8, TypeParts DEF UpdateModes, ServerOK
  <2>4. ServerOK'
    BY <1>8, <2>2, <2>3, TypeParts DEF UpdateModes, ServerOK
  <2> QED
    BY <1>1, <1>8, <2>1, <2>4, TypeParts DEF UpdateModes, LinkOK, HistoryOK
<1>9. CASE ReceiveError
  <2>1. ServerOK' /\ LinkOK'
    BY <1>9, CloseType DEF ReceiveError
  <2> QED
    BY <1>1, <1>9, <2>1, TypeParts DEF ReceiveError, HistoryOK
<1>10. ASSUME NEW t \in {"client", "events"}, GetModes(t)
       PROVE  TypeOK'
  <2>1. announcing' \in [{"client", "events"} -> 0 .. 7 \cup {Nothing, ToRead}]
    BY <1>10, TypeParts DEF GetModes, ServerOK
  <2>2. ServerOK'
    BY <1>10, <2>1, TypeParts DEF GetModes, ServerOK
  <2> QED
    BY <1>1, <1>10, <2>2, TypeParts DEF GetModes, linkVars, LinkOK, HistoryOK
<1>11. ASSUME NEW t \in {"client", "events"}, NotifyModesUpdate(t)
       PROVE  TypeOK'
  <2>1. announcing' \in [{"client", "events"} -> 0 .. 7 \cup {Nothing, ToRead}]
    BY <1>11, TypeParts DEF NotifyModesUpdate, ServerOK
  <2>2. ServerOK'
    BY <1>11, <2>1, TypeParts DEF NotifyModesUpdate, ServerOK
  <2>3. toApp' \in Seq(Packet) /\ Len(toApp') <= QueueLen
    <3>1. CASE registered /\ link = "open"
      <4>1. announcing[t] \in 0 .. 7
        BY <1>11, TypeParts DEF NotifyModesUpdate, ServerOK
      <4> QED
        BY <1>3, <1>11, <3>1, <4>1, Made DEF NotifyModesUpdate
    <3>2. CASE ~(registered /\ link = "open")
      BY <1>11, <3>2, TypeParts DEF NotifyModesUpdate, LinkOK
    <3> QED
      BY <3>1, <3>2
  <2>4. raced' \in BOOLEAN
    BY <1>11, TypeParts DEF NotifyModesUpdate, HistoryOK
  <2>5. LinkOK' /\ HistoryOK'
    BY <1>11, <2>3, <2>4, TypeParts DEF NotifyModesUpdate, LinkOK, HistoryOK
  <2> QED
    BY <1>1, <2>2, <2>5, TypeParts
<1>12. CASE LoadModes
  <2>1. ServerOK'
    BY <1>12, TypeParts DEF LoadModes, ServerOK
  <2>2. sets' \in 0 .. MaxSets
    BY <1>12, TypeParts, BoundAssumption DEF LoadModes, HistoryOK
  <2> QED
    BY <1>1, <1>12, <2>1, <2>2, TypeParts DEF LoadModes, linkVars, LinkOK, HistoryOK
<1>13. ASSUME NEW bit \in 1 .. ModeCount, NEW onOff \in BOOLEAN, SetModeBit(bit, onOff)
       PROVE  TypeOK'
  <2>1. loaded \in 0 .. 7 /\ bit - 1 \in 0 .. 1
    BY <1>13, TypeParts, BoundAssumption DEF SetModeBit, ServerOK
  <2>2. modes' \in 0 .. 7
    BY <1>13, <2>1, FlipType DEF SetModeBit
  <2>3. announcing' \in [{"client", "events"} -> 0 .. 7 \cup {Nothing, ToRead}]
    BY <1>13, TypeParts DEF SetModeBit, ServerOK
  <2>4. ServerOK'
    BY <1>13, <2>2, <2>3, TypeParts DEF SetModeBit, ServerOK
  <2>5. raced' \in BOOLEAN
    BY <1>13, TypeParts DEF SetModeBit, HistoryOK
  <2> QED
    BY <1>1, <1>13, <2>4, <2>5, TypeParts DEF SetModeBit, linkVars, LinkOK, HistoryOK
<1>14. CASE NotifyLight
  <2>1. toApp' \in Seq(Packet) /\ Len(toApp') <= QueueLen
    BY <1>3, <1>14, Made DEF NotifyLight
  <2> QED
    BY <1>1, <1>14, <2>1, TypeParts DEF NotifyLight, serverVars, ServerOK, LinkOK, HistoryOK
<1>15. CASE AskAlive
  <2>1. toApp' \in Seq(Packet) /\ Len(toApp') <= QueueLen
    BY <1>3, <1>15, Made DEF AskAlive
  <2>2. ServerOK'
    BY <1>15, TypeParts DEF AskAlive, ServerOK
  <2> QED
    BY <1>1, <1>15, <2>1, <2>2, TypeParts DEF AskAlive, LinkOK, HistoryOK
<1>16. CASE DropClient
  <2>1. ServerOK' /\ LinkOK'
    BY <1>16, CloseType DEF DropClient
  <2> QED
    BY <1>1, <1>16, <2>1, TypeParts DEF DropClient, HistoryOK
<1>17. CASE Break
  <2>1. ServerOK' /\ LinkOK'
    BY <1>17, CloseType DEF Break
  <2> QED
    BY <1>1, <1>17, <2>1, TypeParts DEF Break, HistoryOK
<1> QED
  BY <1>4, <1>5, <1>6, <1>7, <1>8, <1>9, <1>10, <1>11, <1>12, <1>13, <1>14, <1>15, <1>16, <1>17
  DEF Server, ClientHandler, EventThread

\* Every step keeps the types.
LEMMA TypeStep ==
  ASSUME TypeOK, WordsInv, [Next]_vars
  PROVE  TypeOK'
<1>1. ASSUME NEW works \in BOOLEAN, Connect(works)
      PROVE  TypeOK'
  <2> USE DEF boundVars, raceVars, screenVars
  <2>1. out' \in [{"thread", "main"} -> Seq(Word)]
    <3>1. out' = out \/ out' = [out EXCEPT !["thread"] = makeHandshakeRequest, !["main"] = <<>>]
      BY <1>1 DEF Connect
    <3>2. /\ out \in [{"thread", "main"} -> Seq(Word)]
          /\ makeHandshakeRequest \in Seq(Word) /\ <<>> \in Seq(Word)
      BY Made, TypeParts DEF ThreadOK
    <3> HIDE DEF makeHandshakeRequest
    <3>3. [out EXCEPT !["thread"] = makeHandshakeRequest, !["main"] = <<>>]
            \in [{"thread", "main"} -> Seq(Word)]
      BY <3>2
    <3> QED
      BY <3>1, <3>2, <3>3
  <2>2. toApp' \in Seq(Packet) /\ Len(toApp') <= QueueLen
    <3>1. CASE works
      BY <1>1, <3>1, BoundAssumption DEF Connect
    <3>2. CASE ~works
      BY <1>1, <3>2, TypeParts DEF Connect, LinkOK
    <3> QED
      BY <3>1, <3>2
  <2>3. LinkOK'
    BY <1>1, <2>2, TypeParts DEF Connect, LinkOK
  <2>4. ThreadOK'
    BY <1>1, <2>1, TypeParts DEF Connect, ThreadOK
  <2>5. ServerOK'
    BY <1>1, TypeParts DEF Connect, ServerOK
  <2>6. HistoryOK'
    BY <1>1, TypeParts DEF Connect, HistoryOK
  <2> QED
    BY <1>1, <2>3, <2>4, <2>5, <2>6, TypeParts DEF Connect, ScreenOK
<1>2. CASE Application
  <2>1. LinkOK' /\ ThreadOK' /\ ScreenOK' /\ HistoryOK'
    BY <1>2, ConnectionTypeStep, MainTypeStep DEF Application
  <2>2. ServerOK'
    BY <1>2, ApplicationLeavesServer, TypeParts DEF serverVars, ServerOK
  <2> QED
    BY <2>1, <2>2, TypeParts
<1>3. CASE Server
  BY <1>3, ServerTypeStep
<1>4. CASE UNCHANGED vars
  BY <1>4 DEF vars, serverVars, linkVars, threadVars, screenVars, boundVars, raceVars, TypeOK
<1> QED
  BY <1>1, <1>2, <1>3, <1>4, Steps

-----------------------------------------------------------------------------
\* A connection is served from its opening until it is closed.
LEMMA LinkStep ==
  ASSUME TypeOK, LinkInv, [Next]_vars
  PROVE  LinkInv'
<1> USE DEF Foreground
<1>1. ASSUME NEW works \in BOOLEAN, Connect(works)
      PROVE  LinkInv'
  <2>1. registered = FALSE
    BY <1>1, TypeParts DEF Connect, LinkInv, ServerOK
  <2> QED
    BY <1>1, <2>1 DEF Connect, LinkInv, screenVars
<1>2. CASE Application
  <2> USE DEF serverVars, linkVars, threadVars, screenVars
  <2>1. UNCHANGED <<handler, registered, link>>
    BY <1>2, ApplicationLeavesServer
  <2>2. link # "open" => UNCHANGED toServer
    <3>1. CASE ConnectionThread
      BY <3>1 DEF ConnectionThread, Sent, Write, WriteFails, ReadFails, Receive, ReceiveGarbled,
        SetEventModes, CheckForeground, LoadForeground, ReadModes, PostModes
    <3>2. CASE MainThread
      BY <3>2 DEF MainThread, ShowModes, WriteClick, ReadClick, PostClick, RequestModesUpdate, Write,
        WriteFails, ClickEnds
    <3>3. CASE User
      BY <3>3 DEF User, OpenModes, Resume, Pause, Leave, Click
    <3> QED
      BY <1>2, <3>1, <3>2, <3>3 DEF Application
  <2>3. thread' = "connect" => link # "open" \/ thread = "connect"
    <3>1. CASE ConnectionThread
      BY <3>1 DEF ConnectionThread, Sent, Write, WriteFails, ReadFails, Receive, ReceiveGarbled,
        SetEventModes, CheckForeground, LoadForeground, ReadModes, PostModes
    <3>2. CASE MainThread
      BY <3>2 DEF MainThread, ShowModes, WriteClick, ReadClick, PostClick, RequestModesUpdate, Write,
        WriteFails, ClickEnds
    <3>3. CASE User
      BY <3>3 DEF User, OpenModes, Resume, Pause, Leave, Click
    <3> QED
      BY <1>2, <3>1, <3>2, <3>3 DEF Application
  <2>4. /\ screen' = "none" => posted' = <<>> /\ target' # "shown"
        /\ ui' # "idle" => Foreground'
    <3>1. CASE LoadForeground \/ PostModes
      BY <3>1 DEF LoadForeground, PostModes, LinkInv
    <3>2. CASE ShowModes \/ WriteClick \/ ReadClick \/ PostClick \/ RequestModesUpdate \/ ClickEnds
      BY <3>2 DEF ShowModes, WriteClick, ReadClick, PostClick, RequestModesUpdate, ClickEnds, LinkInv
    <3>3. CASE User
      BY <3>3 DEF User, OpenModes, Resume, Pause, Leave, Click, LinkInv
    <3>4. CASE UNCHANGED <<screenVars, target>>
      BY <3>4 DEF LinkInv
    <3> QED
      BY <1>2, <3>1, <3>2, <3>3, <3>4 DEF Application, ConnectionThread, MainThread, Sent, Write,
        WriteFails, ReadFails, Receive, ReceiveGarbled, SetEventModes, CheckForeground, ReadModes
  <2> QED
    BY <2>1, <2>2, <2>3, <2>4 DEF LinkInv
<1>3. CASE Server
  <2>1. UNCHANGED <<thread, target, screen, posted, ui>>
    BY <1>3, ServerLeavesApplication DEF threadVars, screenVars
  <2>2. CASE Close
    BY <2>1, <2>2 DEF Close, LinkInv
  <2>3. ASSUME UNCHANGED <<link, handler, registered>>, link = "open" \/ UNCHANGED toServer
        PROVE  LinkInv'
    BY <2>1, <2>3 DEF LinkInv
  <2>4. CASE Handshake \/ UpdateMobileConfig
    BY <2>1, <2>2, <2>4 DEF Handshake, UpdateMobileConfig, LinkInv
  <2>5. CASE AddClient
    BY <2>1, <2>5 DEF AddClient, linkVars, LinkInv
  <2>6. CASE HeartbeatResponse
    BY <2>3, <2>6 DEF HeartbeatResponse, LinkInv
  <2>7. CASE UpdateModes
    BY <2>1, <2>7 DEF UpdateModes, LinkInv
  <2>8. ASSUME NEW t \in {"client", "events"}, NotifyModesUpdate(t)
        PROVE  LinkInv'
    BY <2>1, <2>8 DEF NotifyModesUpdate, LinkInv
  <2>9. ASSUME NEW t \in {"client", "events"}, GetModes(t)
        PROVE  LinkInv'
    BY <2>3, <2>9 DEF GetModes, linkVars
  <2>10. ASSUME NEW bit \in 1 .. ModeCount, NEW onOff \in BOOLEAN, SetModeBit(bit, onOff)
         PROVE  LinkInv'
    BY <2>3, <2>10 DEF SetModeBit, linkVars
  <2>11. CASE LoadModes \/ NotifyLight \/ AskAlive
    BY <2>3, <2>11 DEF LoadModes, NotifyLight, AskAlive, linkVars, serverVars
  <2>12. CASE ReceiveError \/ DropClient \/ Break
    BY <2>2, <2>12 DEF ReceiveError, DropClient, Break
  <2> QED
    BY <1>3, <2>4, <2>5, <2>6, <2>7, <2>8, <2>9, <2>10, <2>11, <2>12
    DEF Server, ClientHandler, EventThread
<1>4. CASE UNCHANGED vars
  BY <1>4 DEF vars, serverVars, linkVars, threadVars, screenVars, LinkInv
<1> QED
  BY <1>1, <1>2, <1>3, <1>4, Steps

\* The words of the packets that the application writes.
LEMMA PacketWords ==
  /\ Tail(makeHandshakeRequest) = <<PASSWORD>>
  /\ Tail(makeConfigUpdateRequest) = <<0>>
  /\ Tail(makeMobileHeartbeatResponse) = <<0>>
  /\ \A request \in Requests : \E x \in 0 .. 7 :
       /\ request = <<UPDATE_MODES_REQUEST, 4, x>>
       /\ Tail(request) = <<4, x>>
       /\ Tail(Tail(request)) = <<x>>
<1>1. /\ Tail(makeHandshakeRequest) = <<PASSWORD>>
      /\ Tail(makeConfigUpdateRequest) = <<0>>
      /\ Tail(makeMobileHeartbeatResponse) = <<0>>
  BY DEF makeHandshakeRequest, makeConfigUpdateRequest, makeMobileHeartbeatResponse
<1>2. ASSUME NEW x
      PROVE  /\ Tail(<<UPDATE_MODES_REQUEST, 4, x>>) = <<4, x>>
             /\ Tail(<<4, x>>) = <<x>>
  OBVIOUS
<1> QED
  BY <1>1, <1>2 DEF Requests, makeUpdateModesRequest

\* A thread of the application writes one packet at a time.
LEMMA OutStep ==
  ASSUME TypeOK, OutInv, [Next]_vars
  PROVE  OutInv'
<1> USE DEF serverVars, linkVars, threadVars, screenVars
<1>1. out \in [{"thread", "main"} -> Seq(Word)] /\ m_eventModes \in 0 .. 7
  BY TypeParts DEF ThreadOK
<1>2. ASSUME UNCHANGED <<out, thread, ui>>
      PROVE  OutInv'
  BY <1>2 DEF OutInv
<1>3. ASSUME NEW works \in BOOLEAN, Connect(works)
      PROVE  OutInv'
  <2>1. CASE works
    BY <1>1, <1>3, <2>1 DEF Connect, OutInv
  <2>2. CASE ~works
    BY <1>2, <1>3, <2>2 DEF Connect
  <2> QED
    BY <2>1, <2>2
<1>4. CASE Sent
  <2>1. CASE thread = "handshake"
    BY <1>1, <1>4, <2>1 DEF Sent, OutInv
  <2>2. CASE thread # "handshake"
    BY <1>1, <1>4, <2>2 DEF Sent, OutInv
  <2> QED
    BY <2>1, <2>2
<1>5. CASE Write("thread")
  <2>1. out'["thread"] = Tail(out["thread"]) /\ out'["main"] = out["main"] /\ out["thread"] # <<>>
    BY <1>1, <1>5 DEF Write
  <2>2. UNCHANGED <<thread, ui>>
    BY <1>5 DEF Write
  <2>3. /\ Tail(Tail(makeHandshakeRequest)) = <<>>
        /\ Tail(Tail(makeConfigUpdateRequest)) = <<>>
        /\ Tail(Tail(makeMobileHeartbeatResponse)) = <<>>
    BY DEF makeHandshakeRequest, makeConfigUpdateRequest, makeMobileHeartbeatResponse
  <2> QED
    BY <2>1, <2>2, <2>3 DEF OutInv
<1>6. CASE Write("main")
  <2>1. out'["main"] = Tail(out["main"]) /\ out'["thread"] = out["thread"] /\ out["main"] # <<>>
    BY <1>1, <1>6 DEF Write
  <2>2. UNCHANGED <<thread, ui>>
    BY <1>6 DEF Write
  <2>3. \A request \in Requests : Tail(Tail(Tail(request))) = <<>>
    <3>1. \A x : Tail(<<x>>) = <<>>
      OBVIOUS
    <3> QED
      BY <3>1, PacketWords
  <2> QED
    BY <2>1, <2>2, <2>3 DEF OutInv
<1>7. CASE WriteFails("thread")
  BY <1>1, <1>7 DEF WriteFails, OutInv
<1>8. CASE WriteFails("main")
  BY <1>1, <1>8 DEF WriteFails, OutInv
<1>9. CASE \/ ReadFails \/ ReceiveGarbled \/ SetEventModes \/ CheckForeground \/ LoadForeground
          \/ ReadModes \/ PostModes
  BY <1>9
  DEF ReadFails, ReceiveGarbled, SetEventModes, CheckForeground, LoadForeground, ReadModes, PostModes,
    OutInv
<1>10. CASE Receive
  BY <1>1, <1>10 DEF Receive, OutInv
<1>11. CASE ShowModes \/ User
  BY <1>2, <1>11 DEF ShowModes, User, OpenModes, Resume, Pause, Leave, Click, OutInv
<1>12. CASE WriteClick \/ ReadClick \/ PostClick \/ ClickEnds
  BY <1>12 DEF WriteClick, ReadClick, PostClick, ClickEnds, OutInv
<1>13. CASE RequestModesUpdate
  <2>1. out'["main"] = makeUpdateModesRequest(m_eventModes) /\ out'["thread"] = out["thread"]
    BY <1>1, <1>13 DEF RequestModesUpdate
  <2>2. out'["main"] \in Requests
    BY <1>1, <2>1 DEF Requests
  <2>3. ui' = "send" /\ thread' = thread
    BY <1>13 DEF RequestModesUpdate
  <2> QED
    BY <2>1, <2>2, <2>3 DEF OutInv
<1>14. CASE Server
  BY <1>2, <1>14, ServerLeavesApplication
<1>15. CASE UNCHANGED vars
  BY <1>2, <1>15 DEF vars
<1> QED
  BY <1>3, <1>4, <1>5, <1>6, <1>7, <1>8, <1>9, <1>10, <1>11, <1>12, <1>13, <1>14, <1>15, Steps
  DEF Application, ConnectionThread, MainThread

\* What the threads of the application may have to write.
LEMMA OutForms ==
  ASSUME OutInv
  PROVE  /\ thread = "handshake" =>
              out["thread"] \in {<<HANDSHAKE_REQUEST, PASSWORD>>, <<PASSWORD>>, <<>>}
         /\ thread = "config" => out["thread"] \in {<<CONFIG_UPDATE_REQUEST, 0>>, <<0>>, <<>>}
         /\ thread = "answer" => out["thread"] \in {<<HEARTBEAT_RESPONSE, 0>>, <<0>>, <<>>}
         /\ thread \notin {"handshake", "config", "answer"} => out["thread"] = <<>>
         /\ out["main"] # <<>> => \E x \in 0 .. 7 :
              out["main"] \in {<<UPDATE_MODES_REQUEST, 4, x>>, <<4, x>>, <<x>>}
<1>1. ASSUME out["main"] # <<>>
      PROVE  \E x \in 0 .. 7 : out["main"] \in {<<UPDATE_MODES_REQUEST, 4, x>>, <<4, x>>, <<x>>}
  <2>1. PICK request \in Requests : out["main"] \in {request, Tail(request), Tail(Tail(request))}
    BY <1>1 DEF OutInv
  <2> QED
    BY <2>1, PacketWords
<1> QED
  BY <1>1, PacketWords DEF OutInv, makeHandshakeRequest, makeConfigUpdateRequest,
    makeMobileHeartbeatResponse

\* The words that tell where a packet starts are all different.
LEMMA WordsDiffer ==
  /\ HANDSHAKE_REQUEST = 0 /\ HEARTBEAT_RESPONSE = 4
  /\ CONFIG_UPDATE_REQUEST = 9 /\ UPDATE_MODES_REQUEST = 17 /\ PASSWORD = 99
BY DEF HANDSHAKE_REQUEST, HEARTBEAT_RESPONSE, CONFIG_UPDATE_REQUEST, UPDATE_MODES_REQUEST, PASSWORD

\* When the server takes the first packet the words behind it keep what is known of them.
LEMMA TakenWords ==
  ASSUME TypeOK, WordsInv, NEW n \in {2, 3}, Len(toServer) >= n,
         toServer' = SubSeq(toServer, n + 1, Len(toServer)), UNCHANGED <<thread, out>>
  PROVE  /\ Once(PASSWORD)' /\ (~PasswordWritten => Absent(PASSWORD)')
         /\ Once(CONFIG_UPDATE_REQUEST)' /\ (~ConfigWritten => Absent(CONFIG_UPDATE_REQUEST)')
         /\ Absent(PASSWORD) => Absent(PASSWORD)'
         /\ Absent(CONFIG_UPDATE_REQUEST) => Absent(CONFIG_UPDATE_REQUEST)'
         /\ PasswordWritten' <=> PasswordWritten
         /\ ConfigWritten' <=> ConfigWritten
         /\ RequestsApart'
<1>1. /\ DOMAIN toServer = 1 .. Len(toServer) /\ Len(toServer) \in Nat
      /\ DOMAIN toServer' = 1 .. Len(toServer) - n
      /\ \A i \in DOMAIN toServer' : toServer'[i] = toServer[i + n] /\ i + n \in DOMAIN toServer
  BY TypeParts DEF LinkOK
<1>2. \A word : Absent(word) => Absent(word)'
  BY <1>1 DEF Absent
<1>3. \A word : Once(word) => Once(word)'
  BY <1>1 DEF Once
<1>4. RequestsApart'
  <2> SUFFICES ASSUME NEW i \in DOMAIN toServer', toServer'[i] = UPDATE_MODES_REQUEST
               PROVE  /\ \A k \in DOMAIN toServer' : k \in {i + 1, i + 2} =>
                           toServer'[k] # UPDATE_MODES_REQUEST
                      /\ Len(out["main"]) \in {0, 3} => i + 2 \in DOMAIN toServer'
                      /\ Len(out["main"]) = 1 => i + 1 \in DOMAIN toServer'
    BY DEF RequestsApart
  <2>1. toServer[i + n] = UPDATE_MODES_REQUEST /\ i + n \in DOMAIN toServer
    BY <1>1
  <2>2. \A k \in DOMAIN toServer' : k \in {i + 1, i + 2} =>
          k + n \in {(i + n) + 1, (i + n) + 2} /\ k + n \in DOMAIN toServer
    BY <1>1
  <2>3. \A k \in DOMAIN toServer' : k \in {i + 1, i + 2} => toServer'[k] # UPDATE_MODES_REQUEST
    BY <1>1, <2>1, <2>2 DEF WordsInv, RequestsApart
  <2>4. /\ Len(out["main"]) \in {0, 3} => (i + n) + 2 \in DOMAIN toServer
        /\ Len(out["main"]) = 1 => (i + n) + 1 \in DOMAIN toServer
    BY <2>1 DEF WordsInv, RequestsApart
  <2> QED
    <3>1. \A m \in {1, 2} : (i + n) + m \in DOMAIN toServer => i + m \in DOMAIN toServer'
      BY <1>1
    <3> QED
      BY <2>3, <2>4, <3>1
<1> QED
  BY <1>2, <1>3, <1>4 DEF WordsInv, PasswordWritten, ConfigWritten

\* Whatever is torn, the server finds the words where they may be.
LEMMA WordsStep ==
  ASSUME TypeOK, LinkInv, LinkInv', OutInv, WordsInv, [Next]_vars
  PROVE  WordsInv'
<1> USE DEF serverVars, linkVars, threadVars, screenVars
<1>1. ASSUME toServer' = <<>>, handler' \in {"none", "handshake"}
      PROVE  WordsInv'
  BY <1>1 DEF WordsInv, Once, Absent, RequestsApart
<1>2. CASE link' # "open"
  BY <1>1, <1>2 DEF LinkInv
<1>3. ASSUME UNCHANGED <<toServer, handler>>, out'["main"] = out["main"],
             PasswordWritten => PasswordWritten', ConfigWritten => ConfigWritten'
      PROVE  WordsInv'
  BY <1>3 DEF WordsInv, Once, Absent, RequestsApart
<1>4. ASSUME UNCHANGED <<toServer, handler, out, thread>>
      PROVE  WordsInv'
  BY <1>3, <1>4 DEF PasswordWritten, ConfigWritten
<1>5. out \in [{"thread", "main"} -> Seq(Word)]
  BY TypeParts DEF ThreadOK
<1>6. ASSUME NEW works \in BOOLEAN, Connect(works)
      PROVE  WordsInv'
  <2>1. CASE works
    <3>1. toServer' = <<>> /\ handler' = "handshake"
      BY <1>6, <2>1 DEF Connect, LinkInv
    <3> QED
      BY <1>1, <3>1
  <2>2. CASE ~works
    BY <1>4, <1>6, <2>2 DEF Connect
  <2> QED
    BY <2>1, <2>2
<1>7. CASE Sent
  <2>1. UNCHANGED <<toServer, handler>> /\ out'["main"] = out["main"] /\ out["thread"] = <<>>
    BY <1>5, <1>7 DEF Sent
  <2>2. thread' \in {"config", "receive"} /\ thread \in {"handshake", "config", "answer"}
    BY <1>7 DEF Sent
  <2>3. thread # "handshake" => out'["thread"] = <<>>
    BY <1>7 DEF Sent
  <2>4. <<>> # makeConfigUpdateRequest
    BY DEF makeConfigUpdateRequest
  <2> QED
    BY <1>3, <2>1, <2>2, <2>3, <2>4 DEF PasswordWritten, ConfigWritten
<1>8. CASE ReadFails \/ WriteFails("thread") \/ WriteFails("main")
  BY <1>2, <1>8 DEF ReadFails, WriteFails
<1>9. CASE Receive
  <2>1. UNCHANGED <<toServer, handler>> /\ out'["main"] = out["main"]
    BY <1>5, <1>9 DEF Receive
  <2>2. thread' \in {"receive", "set", "answer"}
    BY <1>9 DEF Receive
  <2>3. out'["thread"] \in {<<>>, makeMobileHeartbeatResponse}
    BY <1>5, <1>9 DEF Receive, OutInv
  <2>4. <<>> # makeConfigUpdateRequest /\ makeMobileHeartbeatResponse # makeConfigUpdateRequest
    BY WordsDiffer DEF makeConfigUpdateRequest, makeMobileHeartbeatResponse
  <2> QED
    BY <1>3, <2>1, <2>2, <2>3, <2>4 DEF PasswordWritten, ConfigWritten
<1>10. CASE \/ ReceiveGarbled \/ SetEventModes \/ CheckForeground \/ LoadForeground \/ ReadModes
           \/ PostModes
  <2>1. UNCHANGED <<toServer, handler, out>>
    BY <1>10 DEF ReceiveGarbled, SetEventModes, CheckForeground, LoadForeground, ReadModes, PostModes
  <2>2. thread' \notin {"connect", "handshake"} /\ thread \notin {"connect", "handshake"}
    BY <1>10 DEF ReceiveGarbled, SetEventModes, CheckForeground, LoadForeground, ReadModes, PostModes
  <2> QED
    BY <1>3, <2>1, <2>2 DEF PasswordWritten, ConfigWritten
<1>11. CASE ShowModes \/ WriteClick \/ ReadClick \/ PostClick \/ ClickEnds \/ User
  BY <1>4, <1>11 DEF ShowModes, WriteClick, ReadClick, PostClick, ClickEnds, User, OpenModes, Resume, Pause, Leave, Click
<1>12. CASE RequestModesUpdate
  <2>1. out["main"] = <<>>
    BY <1>12 DEF RequestModesUpdate, OutInv
  <2>2. UNCHANGED <<toServer, handler, thread>> /\ out'["thread"] = out["thread"]
    BY <1>5, <1>12 DEF RequestModesUpdate
  <2>3. Len(out["main"]) = 0
    BY <2>1
  <2>4. RequestsApart'
    BY <2>2, <2>3 DEF WordsInv, RequestsApart
  <2> QED
    BY <2>2, <2>4 DEF WordsInv, Once, Absent, PasswordWritten, ConfigWritten
<1>13. CASE UNCHANGED vars
  BY <1>4, <1>13 DEF vars
<1>14. ASSUME NEW t \in {"thread", "main"}, Write(t), link = "open"
       PROVE  /\ DOMAIN toServer' = 1 .. Len(toServer) + 1 /\ DOMAIN toServer = 1 .. Len(toServer)
              /\ Len(toServer) \in Nat
              /\ \A i \in DOMAIN toServer : toServer'[i] = toServer[i]
              /\ toServer'[Len(toServer) + 1] = Head(out[t])
  <2>1. toServer' = Append(toServer, Head(out[t])) /\ toServer \in Seq(Word) /\ Head(out[t]) \in Word
    BY <1>5, <1>14, TypeParts DEF Write, LinkOK
  <2> QED
    BY <2>1
<1>15. CASE Write("thread")
  <2> DEFINE word == Head(out["thread"])
  <2>1. CASE link = "open"
    <3>1. /\ out'["thread"] = Tail(out["thread"]) /\ out'["main"] = out["main"]
          /\ out["thread"] # <<>> /\ UNCHANGED <<thread, handler>>
      BY <1>5, <1>15 DEF Write
    <3>2. /\ thread = "handshake" /\ out["thread"] = <<HANDSHAKE_REQUEST, PASSWORD>>
             => word = HANDSHAKE_REQUEST /\ out'["thread"] = <<PASSWORD>>
          /\ thread = "handshake" /\ out["thread"] = <<PASSWORD>>
             => word = PASSWORD /\ out'["thread"] = <<>>
          /\ thread = "config" /\ out["thread"] = <<CONFIG_UPDATE_REQUEST, 0>>
             => word = CONFIG_UPDATE_REQUEST /\ out'["thread"] = <<0>>
          /\ thread = "config" /\ out["thread"] = <<0>> => word = 0 /\ out'["thread"] = <<>>
          /\ thread = "answer" /\ out["thread"] = <<HEARTBEAT_RESPONSE, 0>>
             => word = HEARTBEAT_RESPONSE /\ out'["thread"] = <<0>>
          /\ thread = "answer" /\ out["thread"] = <<0>> => word = 0 /\ out'["thread"] = <<>>
      <4>1. \A a, b : Head(<<a, b>>) = a /\ Tail(<<a, b>>) = <<b>> /\ Head(<<a>>) = a /\ Tail(<<a>>) = <<>>
        OBVIOUS
      <4> QED
        BY <3>1, <4>1
    <3>3. thread \in {"handshake", "config", "answer"}
      BY <3>1, OutForms
    <3>4. /\ word # UPDATE_MODES_REQUEST
          /\ word = PASSWORD => ~PasswordWritten /\ PasswordWritten'
          /\ word = CONFIG_UPDATE_REQUEST => ~ConfigWritten /\ ConfigWritten'
          /\ PasswordWritten => PasswordWritten'
          /\ ConfigWritten => ConfigWritten'
      <4>1. makeConfigUpdateRequest = <<CONFIG_UPDATE_REQUEST, 0>>
        BY DEF makeConfigUpdateRequest
      <4>2. CASE thread = "handshake"
        BY <3>1, <3>2, <4>2, OutForms, WordsDiffer DEF PasswordWritten, ConfigWritten
      <4>3. CASE thread = "config"
        <5>1. out["thread"] \in {<<CONFIG_UPDATE_REQUEST, 0>>, <<0>>}
          BY <3>1, <4>3, OutForms
        <5>2. <<0>> # <<CONFIG_UPDATE_REQUEST, 0>> /\ <<>> # <<CONFIG_UPDATE_REQUEST, 0>>
          OBVIOUS
        <5>3. CASE out["thread"] = <<CONFIG_UPDATE_REQUEST, 0>>
          <6>1. word = CONFIG_UPDATE_REQUEST /\ out'["thread"] = <<0>>
            BY <3>1, <5>3
          <6> QED
            BY <3>1, <4>1, <4>3, <5>2, <5>3, <6>1, WordsDiffer DEF PasswordWritten, ConfigWritten
        <5>4. CASE out["thread"] = <<0>>
          <6>1. word = 0 /\ out'["thread"] = <<>>
            BY <3>1, <5>4
          <6> QED
            BY <3>1, <4>1, <4>3, <5>2, <5>4, <6>1, WordsDiffer DEF PasswordWritten, ConfigWritten
        <5> QED
          BY <5>1, <5>3, <5>4
      <4>4. CASE thread = "answer"
        <5>1. out["thread"] \in {<<HEARTBEAT_RESPONSE, 0>>, <<0>>}
          BY <3>1, <4>4, OutForms
        <5>2. <<0>> # <<CONFIG_UPDATE_REQUEST, 0>> /\ <<>> # <<CONFIG_UPDATE_REQUEST, 0>>
          OBVIOUS
        <5> QED
          BY <3>1, <3>2, <4>1, <4>4, <5>1, <5>2, WordsDiffer DEF PasswordWritten, ConfigWritten
      <4> QED
        BY <3>3, <4>2, <4>3, <4>4
    <3>5. RequestsApart'
      BY <1>14, <1>15, <2>1, <3>1, <3>4 DEF WordsInv, RequestsApart
    <3>6. /\ Once(PASSWORD)' /\ (~PasswordWritten' => Absent(PASSWORD)')
          /\ PasswordWritten /\ Absent(PASSWORD) => Absent(PASSWORD)'
      BY <1>14, <1>15, <2>1, <3>4 DEF WordsInv, Once, Absent
    <3>7. /\ Once(CONFIG_UPDATE_REQUEST)'
          /\ (~ConfigWritten' => Absent(CONFIG_UPDATE_REQUEST)')
          /\ ConfigWritten /\ Absent(CONFIG_UPDATE_REQUEST) => Absent(CONFIG_UPDATE_REQUEST)'
      BY <1>14, <1>15, <2>1, <3>4 DEF WordsInv, Once, Absent
    <3> QED
      BY <3>1, <3>4, <3>5, <3>6, <3>7 DEF WordsInv
  <2>2. CASE link # "open"
    BY <1>2, <1>15, <2>2 DEF Write
  <2> QED
    BY <2>1, <2>2
<1>16. CASE Write("main")
  <2>1. CASE link = "open"
    <3>1. /\ out'["main"] = Tail(out["main"]) /\ out'["thread"] = out["thread"]
          /\ out["main"] # <<>> /\ UNCHANGED <<thread, handler>>
      BY <1>5, <1>16 DEF Write
    <3>2. /\ Head(out["main"]) \notin {PASSWORD, CONFIG_UPDATE_REQUEST}
          /\ \/ /\ Len(out["main"]) = 3 /\ Len(out'["main"]) = 2
                /\ Head(out["main"]) = UPDATE_MODES_REQUEST
             \/ /\ Len(out["main"]) = 2 /\ Len(out'["main"]) = 1
                /\ Head(out["main"]) # UPDATE_MODES_REQUEST
             \/ /\ Len(out["main"]) = 1 /\ Len(out'["main"]) = 0
                /\ Head(out["main"]) # UPDATE_MODES_REQUEST
      <4>1. PICK x \in 0 .. 7 :
              out["main"] \in {<<UPDATE_MODES_REQUEST, 4, x>>, <<4, x>>, <<x>>}
        BY <3>1, OutForms
      <4>2. CASE out["main"] = <<UPDATE_MODES_REQUEST, 4, x>>
        BY <3>1, <4>2, WordsDiffer
      <4>3. CASE out["main"] = <<4, x>>
        BY <3>1, <4>3, WordsDiffer
      <4>4. CASE out["main"] = <<x>>
        BY <3>1, <4>4, WordsDiffer
      <4> QED
        BY <4>1, <4>2, <4>3, <4>4
    <3>3. RequestsApart'
      <4> DEFINE last == Len(toServer) + 1
      <4> SUFFICES ASSUME NEW i \in DOMAIN toServer', toServer'[i] = UPDATE_MODES_REQUEST
                   PROVE  /\ \A k \in DOMAIN toServer' : k \in {i + 1, i + 2} =>
                               toServer'[k] # UPDATE_MODES_REQUEST
                          /\ Len(out'["main"]) \in {0, 3} => i + 2 \in DOMAIN toServer'
                          /\ Len(out'["main"]) = 1 => i + 1 \in DOMAIN toServer'
        BY DEF RequestsApart
      <4>1. CASE i = last
        <5>1. Len(out["main"]) = 3 /\ Len(out'["main"]) = 2
          BY <1>14, <1>16, <2>1, <3>2, <4>1
        <5> QED
          BY <1>14, <1>16, <2>1, <4>1, <5>1
      <4>2. CASE i \in DOMAIN toServer
        <5>1. toServer[i] = UPDATE_MODES_REQUEST
          BY <1>14, <1>16, <2>1, <4>2
        <5>2. /\ \A k \in DOMAIN toServer : k \in {i + 1, i + 2} => toServer[k] # UPDATE_MODES_REQUEST
              /\ Len(out["main"]) \in {0, 3} => i + 2 \in DOMAIN toServer
              /\ Len(out["main"]) = 1 => i + 1 \in DOMAIN toServer
          BY <4>2, <5>1 DEF WordsInv, RequestsApart
        <5>3. CASE Len(out["main"]) = 3
          BY <1>14, <1>16, <2>1, <3>2, <4>2, <5>2, <5>3
        <5>4. CASE Len(out["main"]) = 2
          <6>1. Len(out'["main"]) = 1 /\ Head(out["main"]) # UPDATE_MODES_REQUEST
            BY <3>2, <5>4
          <6>2. i + 1 \in DOMAIN toServer'
            BY <1>14, <1>16, <2>1, <4>2
          <6>3. \A k \in DOMAIN toServer' : k \in {i + 1, i + 2} => toServer'[k] # UPDATE_MODES_REQUEST
            BY <1>14, <1>16, <2>1, <4>2, <5>2, <6>1
          <6> QED
            BY <6>1, <6>2, <6>3
        <5>5. CASE Len(out["main"]) = 1
          BY <1>14, <1>16, <2>1, <3>2, <4>2, <5>2, <5>5
        <5> QED
          BY <3>2, <5>3, <5>4, <5>5
      <4> QED
        BY <1>14, <1>16, <2>1, <4>1, <4>2
    <3>4. /\ PasswordWritten' <=> PasswordWritten
          /\ ConfigWritten' <=> ConfigWritten
      BY <3>1 DEF PasswordWritten, ConfigWritten
    <3>5. \A word \in {PASSWORD, CONFIG_UPDATE_REQUEST} :
            (Once(word) => Once(word)') /\ (Absent(word) => Absent(word)')
      BY <1>14, <1>16, <2>1, <3>2 DEF Once, Absent
    <3> QED
      BY <3>1, <3>3, <3>4, <3>5 DEF WordsInv
  <2>2. CASE link # "open"
    BY <1>2, <1>16, <2>2 DEF Write
  <2> QED
    BY <2>1, <2>2
<1>17. ASSUME UNCHANGED <<thread, out>>, PasswordWritten, ConfigWritten,
              Absent(PASSWORD)', Absent(CONFIG_UPDATE_REQUEST)', RequestsApart'
       PROVE  WordsInv'
  BY <1>17 DEF WordsInv, Once, Absent, PasswordWritten, ConfigWritten
<1>18. Server => UNCHANGED <<thread, out>>
  BY ServerLeavesApplication
<1>19. Len(toServer) >= 2 => 1 \in DOMAIN toServer /\ 2 \in DOMAIN toServer /\ Head(toServer) = toServer[1]
  BY TypeParts DEF LinkOK
<1>20. CASE Handshake
  <2>1. CASE SubSeq(toServer, 1, 2) = makeHandshakeRequest
    <3>1. toServer[2] = PASSWORD /\ Len(toServer) >= 2 /\ handler' = "config"
      <4>1. SubSeq(toServer, 1, 2)[2] = makeHandshakeRequest[2]
        BY <2>1
      <4>2. makeHandshakeRequest[2] = PASSWORD
        BY DEF makeHandshakeRequest
      <4>3. Len(toServer) >= 2 /\ handler' = "config"
        BY <1>20, <2>1 DEF Handshake
      <4>4. SubSeq(toServer, 1, 2)[2] = toServer[2]
        BY <4>3, TypeParts DEF LinkOK
      <4> QED
        BY <4>1, <4>2, <4>3, <4>4
    <3>2. PasswordWritten
      BY <1>19, <3>1 DEF WordsInv, Absent
    <3>3. toServer' = SubSeq(toServer, 3, Len(toServer)) /\ UNCHANGED <<thread, out>>
      BY <1>18, <1>20, <2>1 DEF Handshake, Server, ClientHandler
    <3>4. Absent(PASSWORD)'
      <4>1. \A i \in DOMAIN toServer' : toServer'[i] = toServer[i + 2] /\ i + 2 \in DOMAIN toServer
                                         /\ i \in Nat /\ i > 0
        BY <3>1, <3>3, TypeParts DEF LinkOK
      <4> QED
        BY <1>19, <3>1, <4>1 DEF WordsInv, Once, Absent
    <3> QED
      BY <3>1, <3>2, <3>3, <3>4, TakenWords DEF WordsInv
  <2>2. CASE SubSeq(toServer, 1, 2) # makeHandshakeRequest
    BY <1>2, <1>20, <2>2 DEF Handshake, Close
  <2> QED
    BY <2>1, <2>2
<1>21. CASE UpdateMobileConfig
  <2>1. CASE Head(toServer) = CONFIG_UPDATE_REQUEST
    <3>1. toServer[1] = CONFIG_UPDATE_REQUEST /\ Len(toServer) >= 2 /\ handler' = "add"
          /\ handler = "config"
      BY <1>19, <1>21, <2>1 DEF UpdateMobileConfig
    <3>2. ConfigWritten /\ PasswordWritten /\ Absent(PASSWORD)
      BY <1>19, <3>1 DEF WordsInv, Absent
    <3>3. toServer' = SubSeq(toServer, 3, Len(toServer)) /\ UNCHANGED <<thread, out>>
      BY <1>18, <1>21, <2>1 DEF UpdateMobileConfig, Server, ClientHandler
    <3>4. Absent(CONFIG_UPDATE_REQUEST)'
      <4>1. \A i \in DOMAIN toServer' : toServer'[i] = toServer[i + 2] /\ i + 2 \in DOMAIN toServer
                                         /\ i \in Nat /\ i > 0
        BY <3>1, <3>3, TypeParts DEF LinkOK
      <4> QED
        BY <1>19, <3>1, <4>1 DEF WordsInv, Once, Absent
    <3> QED
      BY <1>17, <3>1, <3>2, <3>3, <3>4, TakenWords DEF WordsInv
  <2>2. CASE Head(toServer) # CONFIG_UPDATE_REQUEST
    BY <1>2, <1>21, <2>2 DEF UpdateMobileConfig, Close
  <2> QED
    BY <2>1, <2>2
<1>22. CASE HeartbeatResponse \/ UpdateModes
  <2>1. handler = "serve" /\ UNCHANGED <<thread, out>>
    BY <1>18, <1>22 DEF HeartbeatResponse, UpdateModes, Server, ClientHandler
  <2>2. \E n \in {2, 3} : Len(toServer) >= n /\ toServer' = SubSeq(toServer, n + 1, Len(toServer))
    BY <1>22 DEF HeartbeatResponse, UpdateModes
  <2> QED
    BY <1>17, <2>1, <2>2, TakenWords DEF WordsInv
<1>23. CASE AddClient
  <2>1. handler = "add" /\ handler' = "serve" /\ UNCHANGED <<toServer, thread, out>>
    BY <1>23 DEF AddClient
  <2> QED
    BY <2>1 DEF WordsInv, Once, Absent, RequestsApart, PasswordWritten, ConfigWritten
<1>24. ASSUME NEW t \in {"client", "events"}, NotifyModesUpdate(t)
       PROVE  WordsInv'
  <2>1. UNCHANGED <<toServer, thread, out>> /\ (UNCHANGED handler \/ (handler = "update" /\ handler' = "serve"))
    BY <1>24 DEF NotifyModesUpdate
  <2> QED
    BY <1>4, <2>1 DEF WordsInv, Once, Absent, RequestsApart, PasswordWritten, ConfigWritten
<1>25. ASSUME NEW t \in {"client", "events"}, GetModes(t)
       PROVE  WordsInv'
  BY <1>4, <1>25 DEF GetModes
<1>26. ASSUME NEW bit \in 1 .. ModeCount, NEW onOff \in BOOLEAN, SetModeBit(bit, onOff)
       PROVE  WordsInv'
  BY <1>4, <1>26 DEF SetModeBit
<1>27. CASE LoadModes \/ NotifyLight \/ AskAlive
  BY <1>4, <1>27 DEF LoadModes, NotifyLight, AskAlive
<1>28. CASE ReceiveError \/ DropClient \/ Break
  BY <1>2, <1>28 DEF ReceiveError, DropClient, Break, Close
<1>29. CASE Application
  BY <1>7, <1>8, <1>9, <1>10, <1>11, <1>12, <1>15, <1>16, <1>29
  DEF Application, ConnectionThread, MainThread
<1>30. CASE Server
  BY <1>20, <1>21, <1>22, <1>23, <1>24, <1>25, <1>26, <1>27, <1>28, <1>30
  DEF Server, ClientHandler, EventThread
<1> QED
  BY <1>6, <1>13, <1>29, <1>30, Steps

-----------------------------------------------------------------------------
\* Where no word moves the packets stay where they are.
LEMMA FramesKept ==
  ASSUME NEW starts, Framed(starts), UNCHANGED <<toServer, out>>
  PROVE  Framed(starts)'
BY DEF Framed, Size, Writer, Midway

\* A thread that has nothing to write and starts a packet moves no packet.
LEMMA FramesStarted ==
  ASSUME TypeOK, NEW starts, Framed(starts), UNCHANGED toServer, NEW t \in {"thread", "main"}, NEW packet,
         out[t] = <<>>, out' = [out EXCEPT ![t] = packet], Len(packet) = (IF t = "thread" THEN 2 ELSE 3)
  PROVE  Framed(starts)'
<1>1. out \in [{"thread", "main"} -> Seq(Word)] /\ DOMAIN out' = DOMAIN out /\ DOMAIN out = {"thread", "main"}
  BY TypeParts DEF ThreadOK
<1>2. out'[t] = packet /\ \A o \in {"thread", "main"} \ {t} : out'[o] = out[o]
  BY <1>1
<1>3. Len(out[t]) = 0 /\ Len(toServer) \in Nat /\ starts \subseteq 1 .. Len(toServer)
  BY TypeParts DEF LinkOK, Framed
<1>4. \A i : Size(i)' = Size(i) /\ Writer(i)' = Writer(i) /\ Size(i) \in {2, 3} /\ Writer(i) \in {"thread", "main"}
  BY DEF Size, Writer
<1>5. \A i \in starts : i + Size(i) > Len(toServer) + 1 => Writer(i) # t
  BY <1>3, <1>4 DEF Framed
<1>6. \A i \in starts : i + Size(i) > Len(toServer') + 1 =>
        Len(out'[Writer(i)']) = i + Size(i)' - (Len(toServer') + 1)
  BY <1>2, <1>4, <1>5 DEF Framed
<1>7. \A o \in DOMAIN out : Midway(o)' => o # t /\ Midway(o)
  <2>1. ~Midway(t)'
    <3>1. CASE t = "thread"
      BY <1>2, <3>1 DEF Midway
    <3>2. CASE t = "main"
      BY <1>2, <3>2 DEF Midway
    <3> QED
      BY <3>1, <3>2
  <2>2. \A o \in {"thread", "main"} \ {t} : Midway(o)' => Midway(o)
    BY <1>2 DEF Midway
  <2> QED
    BY <1>1, <2>1, <2>2
<1> QED
  BY <1>1, <1>4, <1>6, <1>7 DEF Framed

\* What is known stays known while nothing of it changes and a request on its way stays on its way.
LEMMA KnownKept ==
  ASSUME NEW starts, NEW next, Known(starts),
         UNCHANGED <<modes, toApp, thread, value, m_eventModes>>,
         Carried(starts) => Carried(next)' \/ m_eventModes = modes
  PROVE  Known(next)'
<1>1. LastTells' /\ (Untold' <=> Untold) /\ (ThreadKnows' <=> ThreadKnows)
  BY DEF Known, LastTells, Untold, Tells, ThreadKnows
<1>2. ApplicationKnows(starts) => ApplicationKnows(next)'
  BY DEF ApplicationKnows
<1> QED
  BY <1>1, <1>2 DEF Known

\* What another packet on its way to the application tells.
LEMMA Told ==
  ASSUME TypeOK, NEW packet \in Packet, toApp' = Append(toApp, packet), UNCHANGED modes
  PROVE  /\ ~Tells(packet) => (LastTells => LastTells') /\ (Untold' <=> Untold)
         /\ Tells(packet) /\ packet.modes = modes => LastTells' /\ ~Untold'
<1> DEFINE last == Len(toApp) + 1
<1>1. /\ DOMAIN toApp = 1 .. Len(toApp) /\ DOMAIN toApp' = 1 .. last /\ Len(toApp) \in Nat
      /\ \A i \in DOMAIN toApp : toApp'[i] = toApp[i]
      /\ toApp'[last] = packet
  BY TypeParts DEF LinkOK
<1>2. ASSUME ~Tells(packet)
      PROVE  (LastTells => LastTells') /\ (Untold' <=> Untold)
  <2>1. Untold' <=> Untold
    BY <1>1, <1>2 DEF Untold, Tells
  <2>2. ASSUME LastTells, NEW i \in DOMAIN toApp', Tells(toApp'[i]),
               \A j \in DOMAIN toApp' : j > i => ~Tells(toApp'[j])
        PROVE  toApp'[i].modes = modes
    <3>1. i \in DOMAIN toApp
      BY <1>1, <1>2, <2>2
    <3>2. Tells(toApp[i]) /\ \A j \in DOMAIN toApp : j > i => ~Tells(toApp[j])
      BY <1>1, <2>2, <3>1
    <3> QED
      BY <1>1, <2>2, <3>1, <3>2 DEF LastTells
  <2> QED
    BY <2>1, <2>2 DEF LastTells, Tells
<1>3. ASSUME Tells(packet), packet.modes = modes
      PROVE  LastTells' /\ ~Untold'
  <2>1. ~Untold'
    BY <1>1, <1>3 DEF Untold, Tells
  <2>2. ASSUME NEW i \in DOMAIN toApp', \A j \in DOMAIN toApp' : j > i => ~Tells(toApp'[j])
        PROVE  toApp'[i].modes = modes
    BY <1>1, <1>3, <2>2
  <2> QED
    BY <2>1, <2>2 DEF LastTells, Tells
<1> QED
  BY <1>2, <1>3

\* What the packets behind the first tell.
LEMMA Heard ==
  ASSUME TypeOK, LastTells, toApp # <<>>, toApp' = Tail(toApp), UNCHANGED modes
  PROVE  /\ LastTells'
         /\ ~Tells(Head(toApp)) => (Untold' <=> Untold)
         /\ Tells(Head(toApp)) /\ Untold' => Head(toApp).modes = modes
<1>1. /\ DOMAIN toApp = 1 .. Len(toApp) /\ DOMAIN toApp' = 1 .. Len(toApp) - 1
      /\ Len(toApp) \in Nat \ {0}
      /\ \A i \in DOMAIN toApp' : toApp'[i] = toApp[i + 1]
      /\ Head(toApp) = toApp[1]
  BY TypeParts DEF LinkOK
<1>2. \A i \in DOMAIN toApp : i = 1 \/ (i - 1 \in DOMAIN toApp' /\ toApp[i] = toApp'[i - 1])
  BY <1>1
<1>3. ~Tells(Head(toApp)) => (Untold' <=> Untold)
  <2>1. Untold' <=> \A i \in DOMAIN toApp' : ~Tells(toApp'[i])
    BY DEF Untold, Tells
  <2>2. ~Tells(Head(toApp)) /\ Untold' => Untold
    BY <1>1, <1>2, <2>1 DEF Untold
  <2>3. Untold => Untold'
    <3>1. \A i \in DOMAIN toApp' : i + 1 \in DOMAIN toApp
      BY <1>1
    <3> QED
      BY <1>1, <2>1, <3>1 DEF Untold
  <2> QED
    BY <2>2, <2>3
<1>4. ASSUME Tells(Head(toApp)), Untold'
      PROVE  Head(toApp).modes = modes
  <2>1. \A i \in DOMAIN toApp' : ~Tells(toApp'[i])
    BY <1>4 DEF Untold, Tells
  <2>2. ASSUME NEW j \in DOMAIN toApp, j > 1
        PROVE  ~Tells(toApp[j])
    <3>1. j - 1 \in DOMAIN toApp' /\ toApp[j] = toApp'[j - 1]
      BY <1>1, <2>2
    <3> QED
      BY <2>1, <3>1
  <2> QED
    BY <1>1, <1>4, <2>2 DEF LastTells
<1>5. ASSUME NEW i \in DOMAIN toApp', Tells(toApp'[i]),
             \A j \in DOMAIN toApp' : j > i => ~Tells(toApp'[j])
      PROVE  toApp'[i].modes = modes
  <2>1. i + 1 \in DOMAIN toApp /\ toApp[i + 1] = toApp'[i]
    BY <1>1
  <2>2. \A j \in DOMAIN toApp : j > i + 1 => ~Tells(toApp[j])
    <3> SUFFICES ASSUME NEW j \in DOMAIN toApp, j > i + 1
                 PROVE  ~Tells(toApp[j])
      OBVIOUS
    <3>1. j - 1 \in DOMAIN toApp' /\ toApp[j] = toApp'[j - 1] /\ j - 1 > i
      BY <1>1
    <3> QED
      BY <1>5, <3>1
  <2> QED
    BY <1>5, <2>1, <2>2 DEF LastTells
<1>6. LastTells'
  BY <1>5 DEF LastTells, Tells
<1> QED
  BY <1>3, <1>4, <1>6

\* A thread writes a word: into its packet or, when none is half written, as the first of another.
LEMMA FramesWritten ==
  ASSUME TypeOK, OutInv, NEW starts \in SUBSET DOMAIN toServer, Framed(starts),
         NEW t \in {"thread", "main"}, Write(t), link = "open", ~torn'
  PROVE  \E next \in SUBSET DOMAIN toServer' :
           /\ Framed(next)'
           /\ Carried(starts) => Carried(next)'
<1>0. PICK last : last = Len(toServer) + 1
  OBVIOUS
<1> DEFINE word == Head(out[t])
<1>1. out \in [{"thread", "main"} -> Seq(Word)] /\ DOMAIN out' = {"thread", "main"} /\ DOMAIN out = {"thread", "main"}
  BY TypeParts DEF ThreadOK, Write
<1>2. /\ DOMAIN toServer' = 1 .. last /\ DOMAIN toServer = 1 .. Len(toServer)
      /\ Len(toServer) \in Nat /\ last = Len(toServer) + 1 /\ Len(toServer') = last
      /\ \A i \in DOMAIN toServer : toServer'[i] = toServer[i]
      /\ toServer'[last] = word
  <2>1. toServer' = Append(toServer, word) /\ toServer \in Seq(Word) /\ word \in Word
    BY <1>1, TypeParts DEF Write, LinkOK
  <2> QED
    BY <1>0, <2>1
<1>3. /\ out'[t] = Tail(out[t]) /\ \A o \in {"thread", "main"} \ {t} : out'[o] = out[o] /\ ~Midway(o)
      /\ UNCHANGED <<ui, m_eventModes>>
  BY <1>1 DEF Write, screenVars
<1>4. \/ /\ t = "thread" /\ Len(out[t]) \in {1, 2} /\ word # UPDATE_MODES_REQUEST
      \/ /\ t = "main" /\ Len(out[t]) \in {1, 2, 3}
         /\ Len(out[t]) = 3 => word = UPDATE_MODES_REQUEST
  <2>1. out[t] # <<>>
    BY DEF Write
  <2>2. CASE t = "thread"
    <3>1. out["thread"] \in {<<HANDSHAKE_REQUEST, PASSWORD>>, <<PASSWORD>>, <<CONFIG_UPDATE_REQUEST, 0>>, <<0>>,
                             <<HEARTBEAT_RESPONSE, 0>>}
      BY <2>1, <2>2, OutForms
    <3>2. ASSUME NEW a, a # UPDATE_MODES_REQUEST, NEW b,
                 out["thread"] = <<a, b>> \/ out["thread"] = <<a>>
          PROVE  Len(out["thread"]) \in {1, 2} /\ Head(out["thread"]) # UPDATE_MODES_REQUEST
      BY <3>2
    <3> QED
      BY <2>2, <3>1, <3>2, WordsDiffer
  <2>3. CASE t = "main"
    <3>1. PICK x \in 0 .. 7 :
            out["main"] \in {<<UPDATE_MODES_REQUEST, 4, x>>, <<4, x>>, <<x>>}
      BY <2>1, <2>3, OutForms
    <3>2. CASE out["main"] = <<UPDATE_MODES_REQUEST, 4, x>>
      BY <2>3, <3>2
    <3>3. CASE out["main"] = <<4, x>>
      BY <2>3, <3>3
    <3>4. CASE out["main"] = <<x>>
      BY <2>3, <3>4
    <3> QED
      BY <3>1, <3>2, <3>3, <3>4
  <2> QED
    BY <2>2, <2>3
<1>5. Len(out'[t]) = Len(out[t]) - 1
  BY <1>1, <1>3 DEF Write
<1>6. /\ \A i \in DOMAIN toServer : Size(i)' = Size(i) /\ Writer(i)' = Writer(i)
      /\ \A i : \/ Size(i) = 2 /\ Writer(i) = "thread" /\ toServer[i] # UPDATE_MODES_REQUEST
                \/ Size(i) = 3 /\ Writer(i) = "main" /\ toServer[i] = UPDATE_MODES_REQUEST
  BY <1>2 DEF Size, Writer
<1>7. /\ toServer # <<>> => 1 \in starts
      /\ \A i \in starts : i \in 1 .. Len(toServer) /\ i \in DOMAIN toServer
      /\ \A i, k \in starts : k > i => k >= i + Size(i)
      /\ \A i \in starts : i + Size(i) \in 1 .. Len(toServer) => i + Size(i) \in starts
      /\ \A i \in starts : i + Size(i) > last => Len(out[Writer(i)]) = i + Size(i) - last
      /\ \A o \in {"thread", "main"} :
           Midway(o) => \E i \in starts : Writer(i) = o /\ i + Size(i) > last
  BY <1>0, <1>1, <1>2 DEF Framed
<1>8. t = "main" /\ Len(out["main"]) > 1 => out'["main"] # <<>>
                                         /\ out'["main"][Len(out'["main"])] = out["main"][Len(out["main"])]
  BY <1>1, <1>3 DEF Write
<1>9. Carried(starts) /\ out["main"] = <<>> =>
        \/ ui \in Asking
        \/ \E i \in starts : /\ toServer[i] = UPDATE_MODES_REQUEST
                            /\ i + 2 \in DOMAIN toServer /\ toServer[i + 2] = m_eventModes
                            /\ \A j \in starts : toServer[j] = UPDATE_MODES_REQUEST => j <= i
  <2> SUFFICES ASSUME Carried(starts), out["main"] = <<>>, ui \notin Asking
               PROVE  \E i \in starts : /\ toServer[i] = UPDATE_MODES_REQUEST
                            /\ i + 2 \in DOMAIN toServer /\ toServer[i + 2] = m_eventModes
                            /\ \A j \in starts : toServer[j] = UPDATE_MODES_REQUEST => j <= i
    OBVIOUS
  <2>1. PICK i \in starts : /\ toServer[i] = UPDATE_MODES_REQUEST /\ toServer[i + 2] = m_eventModes
                           /\ \A j \in starts : toServer[j] = UPDATE_MODES_REQUEST => j <= i
    BY DEF Carried
  <2>2. Len(out["main"]) = 0 /\ Size(i) = 3 /\ Writer(i) = "main"
    BY <1>6, <2>1
  <2>3. i + 2 \in DOMAIN toServer
    BY <1>2, <1>7, <2>2
  <2> QED
    BY <2>1, <2>3
<1>10. CASE Midway(t)
  <2>1. PICK i \in starts : Writer(i) = t /\ i + Size(i) > last
    BY <1>7, <1>10
  <2>2. Len(out[t]) = i + Size(i) - last
    BY <1>7, <2>1
  <2>3. \A j \in starts : j = i \/ (j < i /\ j + Size(j) <= Len(toServer))
    <3> SUFFICES ASSUME NEW j \in starts, j # i
                 PROVE  j < i /\ j + Size(j) <= Len(toServer)
      OBVIOUS
    <3>1. i \in 1 .. Len(toServer) /\ j \in 1 .. Len(toServer) /\ Size(j) \in {2, 3} /\ Size(i) \in {2, 3}
      BY <1>6, <1>7
    <3>2. ~(j > i)
      BY <1>2, <1>7, <2>1, <3>1
    <3>3. i >= j + Size(j)
      BY <1>2, <1>7, <3>1, <3>2
    <3> QED
      BY <1>2, <3>1, <3>2, <3>3
  <2>4. starts \in SUBSET DOMAIN toServer' /\ 1 \in starts
    BY <1>2, <1>7
  <2>5. \A j \in starts : /\ \A k \in starts : k > j => k >= j + Size(j)'
                          /\ j + Size(j)' \in DOMAIN toServer' => j + Size(j)' \in starts
    BY <1>2, <1>6, <1>7, <2>1, <2>3
  <2>6. \A j \in starts : j + Size(j)' > Len(toServer') + 1 =>
                            Len(out'[Writer(j)']) = j + Size(j)' - (Len(toServer') + 1)
    <3> SUFFICES ASSUME NEW j \in starts, j + Size(j)' > Len(toServer') + 1
                 PROVE  Len(out'[Writer(j)']) = j + Size(j)' - (Len(toServer') + 1)
      OBVIOUS
    <3>1. j = i
      BY <1>2, <1>6, <1>7, <2>3
    <3> QED
      BY <1>2, <1>5, <1>6, <1>7, <2>1, <2>2, <3>1
  <2>7. \A o \in DOMAIN out' : Midway(o)' =>
          \E j \in starts : Writer(j)' = o /\ j + Size(j)' > Len(toServer') + 1
    <3>1. \A o \in DOMAIN out' : Midway(o)' => o = t
      BY <1>1, <1>3 DEF Midway
    <3>2. Midway(t)' => Len(out[t]) >= 2
      BY <1>4, <1>5 DEF Midway
    <3>3. Len(out[t]) >= 2 => Writer(i)' = t /\ i + Size(i)' > Len(toServer') + 1
      BY <1>2, <1>6, <1>7, <2>1, <2>2
    <3> QED
      BY <3>1, <3>2, <3>3
  <2>8. Framed(starts)'
    BY <2>4, <2>5, <2>6, <2>7 DEF Framed
  <2>9. ASSUME Carried(starts)
        PROVE  Carried(starts)'
    <3>1. CASE ui \in Asking
      BY <1>3, <3>1 DEF Carried
    <3>2. CASE out["main"] = <<>> /\ ui \notin Asking
      <4>1. t = "thread"
        BY <3>2 DEF Write
      <4>2. out'["main"] = <<>>
        BY <1>3, <3>2, <4>1
      <4>3. \A j \in starts : toServer'[j] = toServer[j]
        BY <1>2, <1>7
      <4> QED
        BY <1>2, <1>3, <1>9, <2>9, <3>2, <4>2, <4>3 DEF Carried
    <3>3. CASE out["main"] # <<>> /\ ui \notin Asking
      <4>1. out["main"][Len(out["main"])] = m_eventModes
        BY <2>9, <3>3 DEF Carried
      <4>2. CASE t = "thread"
        BY <1>3, <3>3, <4>1, <4>2 DEF Carried
      <4>3. CASE t = "main" /\ Len(out["main"]) > 1
        BY <1>3, <1>8, <4>1, <4>3 DEF Carried
      <4>4. CASE t = "main" /\ Len(out["main"]) = 1
        <5>1. out'["main"] = <<>> /\ word = m_eventModes
          BY <1>1, <1>3, <4>1, <4>4
        <5>2. toServer[i] = UPDATE_MODES_REQUEST /\ i + 2 = last
          <6>1. Size(i) = 3 /\ toServer[i] = UPDATE_MODES_REQUEST
            BY <1>6, <2>1, <4>4
          <6>2. Len(out[t]) = i + 3 - last
            BY <2>2, <6>1
          <6>3. Len(out[t]) = 1
            BY <4>4
          <6>4. i \in Nat /\ last \in Nat
            BY <1>2, <1>7
          <6>5. 1 = i + 3 - last
            BY <6>2, <6>3
          <6>6. i + 2 = last
            BY <6>4, <6>5
          <6> QED
            BY <6>1, <6>6
        <5>3. toServer'[i] = UPDATE_MODES_REQUEST /\ toServer'[i + 2] = m_eventModes
          BY <1>2, <1>7, <5>1, <5>2
        <5>4. \A j \in starts : j <= i
          BY <1>7, <2>3
        <5> QED
          BY <1>3, <5>1, <5>3, <5>4 DEF Carried
      <4> QED
        BY <1>4, <4>2, <4>3, <4>4
    <3> QED
      BY <3>1, <3>2, <3>3
  <2> QED
    BY <2>4, <2>8, <2>9
<1>11. CASE ~Midway(t)
  <2> DEFINE next == starts \cup {last}
  <2>1. \A o \in {"thread", "main"} : ~Midway(o)
    BY <1>3, <1>11
  <2>2. \A i \in starts : i + Size(i) <= last
    <3> SUFFICES ASSUME NEW i \in starts, i + Size(i) > last
                 PROVE  FALSE
      BY <1>2, <1>6, <1>7
    <3>1. CASE Size(i) = 2 /\ Writer(i) = "thread"
      <4>1. Len(out["thread"]) = 1
        <5>1. Len(out["thread"]) = i + 2 - last
          BY <1>7, <3>1
        <5> QED
          BY <1>2, <1>7, <3>1, <5>1
      <4> QED
        BY <2>1, <4>1 DEF Midway
    <3>2. CASE Size(i) = 3 /\ Writer(i) = "main"
      <4>1. Len(out["main"]) \in 1 .. 2
        <5>1. Len(out["main"]) = i + 3 - last
          BY <1>7, <3>2
        <5> QED
          BY <1>2, <1>7, <3>2, <5>1
      <4> QED
        BY <2>1, <4>1 DEF Midway
    <3> QED
      BY <1>6, <3>1, <3>2
  <2>3. /\ t = "thread" => Len(out[t]) = 2 /\ Size(last)' = 2
        /\ t = "main" => Len(out[t]) = 3 /\ Size(last)' = 3
        /\ Writer(last)' = t
    <3>1. CASE t = "thread"
      <4>1. Len(out[t]) = 2
        BY <1>4, <1>11, <3>1 DEF Midway
      <4> QED
        BY <1>2, <1>4, <3>1, <4>1 DEF Size, Writer
    <3>2. CASE t = "main"
      <4>1. Len(out[t]) = 3
        BY <1>4, <1>11, <3>2 DEF Midway
      <4> QED
        BY <1>2, <1>4, <3>2, <4>1 DEF Size, Writer
    <3> QED
      BY <3>1, <3>2
  <2>4. next \in SUBSET DOMAIN toServer' /\ 1 \in next
    <3>1. toServer = <<>> => last = 1
      BY <1>0
    <3> QED
      BY <1>2, <1>7, <3>1
  <2>5. ASSUME NEW j \in next
        PROVE  /\ \A k \in next : k > j => k >= j + Size(j)'
               /\ j + Size(j)' \in DOMAIN toServer' => j + Size(j)' \in next
               /\ j + Size(j)' > Len(toServer') + 1 =>
                    Len(out'[Writer(j)']) = j + Size(j)' - (Len(toServer') + 1)
    <3>1. CASE j = last
      <4>1. Size(last)' \in {2, 3} /\ Len(out'[t]) = Size(last)' - 1
        BY <1>5, <2>3
      <4> QED
        BY <1>2, <1>7, <2>3, <3>1, <4>1
    <3>2. CASE j \in starts
      <4>1. Size(j)' = Size(j) /\ j + Size(j) <= last /\ j \in Nat /\ Size(j) \in {2, 3}
        BY <1>6, <1>7, <2>2, <3>2
      <4>2. \A k \in next : k > j => k >= j + Size(j)'
        BY <1>2, <1>7, <3>2, <4>1
      <4>3. j + Size(j)' \in DOMAIN toServer' => j + Size(j)' \in next
        BY <1>2, <1>7, <3>2, <4>1
      <4> QED
        BY <1>2, <4>1, <4>2, <4>3
    <3> QED
      BY <3>1, <3>2
  <2>6. \A o \in DOMAIN out' : Midway(o)' =>
          \E j \in next : Writer(j)' = o /\ j + Size(j)' > Len(toServer') + 1
    <3>1. \A o \in DOMAIN out' : Midway(o)' => o = t
      BY <1>1, <1>3 DEF Midway
    <3>2. last + Size(last)' > Len(toServer') + 1
      BY <1>2, <2>3
    <3> QED
      BY <2>3, <3>1, <3>2
  <2>7. Framed(next)'
    BY <2>4, <2>5, <2>6 DEF Framed
  <2>8. ASSUME Carried(starts)
        PROVE  Carried(next)'
    <3>1. CASE ui \in Asking
      BY <1>3, <3>1 DEF Carried
    <3>2. CASE out["main"] = <<>> /\ ui \notin Asking
      <4>1. t = "thread"
        BY <3>2 DEF Write
      <4>2. out'["main"] = <<>> /\ toServer'[last] # UPDATE_MODES_REQUEST
        BY <1>2, <1>3, <1>4, <3>2, <4>1
      <4>3. \A j \in starts : toServer'[j] = toServer[j]
        BY <1>2, <1>7
      <4> QED
        BY <1>2, <1>3, <1>9, <2>8, <3>2, <4>2, <4>3 DEF Carried
    <3>3. CASE out["main"] # <<>> /\ ui \notin Asking
      <4>1. out["main"][Len(out["main"])] = m_eventModes
        BY <2>8, <3>3 DEF Carried
      <4>2. CASE t = "thread"
        BY <1>3, <3>3, <4>1, <4>2 DEF Carried
      <4>3. CASE t = "main"
        <5>1. Len(out["main"]) = 3
          BY <2>3, <4>3
        <5> QED
          BY <1>3, <1>8, <4>1, <4>3, <5>1 DEF Carried
      <4> QED
        BY <4>2, <4>3
    <3> QED
      BY <3>1, <3>2, <3>3
  <2> QED
    BY <2>4, <2>7, <2>8
<1> QED
  BY <1>10, <1>11

\* The server takes the first packet; the last request stays on its way, unless it is this one.
LEMMA FramesTaken ==
  ASSUME TypeOK, NEW starts \in SUBSET DOMAIN toServer, Framed(starts),
         NEW n \in {2, 3}, Size(1) = n, Len(toServer) >= n,
         toServer' = SubSeq(toServer, n + 1, Len(toServer)), UNCHANGED <<out, ui, m_eventModes>>
  PROVE  \E next \in SUBSET DOMAIN toServer' :
           /\ Framed(next)'
           /\ Carried(starts) =>
                \/ Carried(next)'
                \/ toServer[1] = UPDATE_MODES_REQUEST /\ toServer[3] = m_eventModes
<1>0. PICK len : len = Len(toServer)
  OBVIOUS
<1>1. /\ DOMAIN toServer = 1 .. len /\ len \in Nat /\ len >= n
      /\ DOMAIN toServer' = 1 .. len - n /\ Len(toServer') = len - n
      /\ \A i \in DOMAIN toServer' : toServer'[i] = toServer[i + n]
      /\ toServer # <<>>
  BY <1>0, TypeParts DEF LinkOK
<1>2. \A i : Size(i) \in {2, 3}
  BY DEF Size
<1>3. /\ 1 \in starts
      /\ \A i \in starts : i \in 1 .. len
      /\ \A i, k \in starts : k > i => k >= i + Size(i)
      /\ \A i \in starts : i + Size(i) \in 1 .. len => i + Size(i) \in starts
      /\ \A i \in starts : i + Size(i) > len + 1 => Len(out[Writer(i)]) = i + Size(i) - (len + 1)
      /\ \A o \in DOMAIN out :
           Midway(o) => \E i \in starts : Writer(i) = o /\ i + Size(i) > len + 1
  BY <1>0, <1>1 DEF Framed
<1>4. PICK next : next = {k \in 1 .. len - n : k + n \in starts}
  OBVIOUS
<1>5. \A k \in next : k \in 1 .. len - n /\ k + n \in starts /\ Size(k)' = Size(k + n) /\ Writer(k)' = Writer(k + n)
  BY <1>1, <1>4 DEF Size, Writer
<1>6. \A i \in starts : i = 1 \/ i - n \in next
  <2> SUFFICES ASSUME NEW i \in starts, i # 1
               PROVE  i - n \in next
    OBVIOUS
  <2>1. i \in 1 .. len /\ i > 1
    BY <1>1, <1>3
  <2>2. i >= 1 + n
    BY <1>3, <2>1
  <2>3. i - n \in 1 .. len - n /\ (i - n) + n = i
    BY <1>1, <2>1, <2>2
  <2> QED
    BY <1>4, <2>3
<1>7. next \in SUBSET DOMAIN toServer'
  BY <1>1, <1>5
<1>8. toServer' # <<>> => 1 \in next
  <2> SUFFICES ASSUME toServer' # <<>>
               PROVE  1 \in next
    OBVIOUS
  <2>1. len - n # 0
    <3>1. toServer' \in Seq(Word)
      BY TypeParts, Rest DEF LinkOK
    <3> QED
      BY <1>1, <3>1
  <2>2. 1 + n \in 1 .. len
    BY <1>1, <2>1
  <2>3. 1 + n \in starts
    BY <1>3, <2>2
  <2> QED
    BY <1>1, <1>4, <2>2, <2>3
<1>9. ASSUME NEW k \in next
      PROVE  /\ \A j \in next : j > k => j >= k + Size(k)'
             /\ k + Size(k)' \in DOMAIN toServer' => k + Size(k)' \in next
             /\ k + Size(k)' > Len(toServer') + 1 =>
                  Len(out'[Writer(k)']) = k + Size(k)' - (Len(toServer') + 1)
  <2>1. k \in 1 .. len - n /\ k + n \in starts /\ Size(k)' = Size(k + n) /\ Writer(k)' = Writer(k + n)
        /\ Size(k + n) \in {2, 3}
    BY <1>2, <1>5
  <2>2. ASSUME NEW j \in next, j > k
        PROVE  j >= k + Size(k)'
    <3>1. j \in 1 .. len - n /\ j + n \in starts
      BY <1>5
    <3>2. j + n > k + n
      BY <1>1, <2>1, <2>2, <3>1
    <3>3. j + n >= (k + n) + Size(k + n)
      BY <1>3, <2>1, <3>1, <3>2
    <3> QED
      BY <1>1, <2>1, <3>1, <3>3
  <2>3. ASSUME k + Size(k)' \in DOMAIN toServer'
        PROVE  k + Size(k)' \in next
    <3>1. (k + n) + Size(k + n) \in 1 .. len
      BY <1>1, <2>1, <2>3
    <3>2. (k + n) + Size(k + n) \in starts
      BY <1>3, <2>1, <3>1
    <3>3. (k + n) + Size(k + n) = (k + Size(k)') + n
      BY <1>1, <2>1
    <3> QED
      BY <1>1, <1>4, <2>3, <3>2, <3>3
  <2>4. ASSUME k + Size(k)' > Len(toServer') + 1
        PROVE  Len(out'[Writer(k)']) = k + Size(k)' - (Len(toServer') + 1)
    <3>1. (k + n) + Size(k + n) > len + 1
      BY <1>1, <2>1, <2>4
    <3>2. Len(out[Writer(k + n)]) = (k + n) + Size(k + n) - (len + 1)
      BY <1>3, <2>1, <3>1
    <3>3. (k + n) + Size(k + n) - (len + 1) = k + Size(k)' - (Len(toServer') + 1)
      BY <1>1, <2>1
    <3> QED
      BY <2>1, <3>2, <3>3
  <2> QED
    BY <2>2, <2>3, <2>4
<1>10. ASSUME NEW o \in DOMAIN out', Midway(o)'
       PROVE  \E k \in next : Writer(k)' = o /\ k + Size(k)' > Len(toServer') + 1
  <2>1. Midway(o) /\ o \in DOMAIN out
    BY <1>10 DEF Midway
  <2>2. PICK i \in starts : Writer(i) = o /\ i + Size(i) > len + 1
    BY <1>3, <2>1
  <2>3. i # 1
    BY <1>1, <2>2
  <2>4. i - n \in next /\ i \in 1 .. len
    BY <1>3, <1>6, <2>3
  <2>5. (i - n) + n = i
    BY <1>1, <2>4
  <2>6. Size(i - n)' = Size(i) /\ Writer(i - n)' = Writer(i)
    BY <1>5, <2>4, <2>5
  <2>7. (i - n) + Size(i - n)' > Len(toServer') + 1
    BY <1>1, <1>2, <2>2, <2>4, <2>6
  <2> QED
    BY <2>2, <2>4, <2>6, <2>7
<1>11. Framed(next)'
  BY <1>7, <1>8, <1>9, <1>10 DEF Framed
<1>12. ASSUME Carried(starts)
       PROVE  \/ Carried(next)'
              \/ toServer[1] = UPDATE_MODES_REQUEST /\ toServer[3] = m_eventModes
  <2>1. CASE ui \in Asking \/ out["main"] # <<>>
    BY <1>12, <2>1 DEF Carried
  <2>2. CASE ui \notin Asking /\ out["main"] = <<>>
    <3>1. PICK i \in starts : /\ toServer[i] = UPDATE_MODES_REQUEST /\ toServer[i + 2] = m_eventModes
                             /\ \A j \in starts : toServer[j] = UPDATE_MODES_REQUEST => j <= i
      BY <1>12, <2>2 DEF Carried
    <3>2. CASE i = 1
      BY <3>1, <3>2
    <3>3. CASE i # 1
      <4>1. i - n \in next /\ i \in 1 .. len /\ (i - n) + n = i
        BY <1>1, <1>3, <1>6, <3>3
      <4>2. Size(i) = 3 /\ Writer(i) = "main"
        BY <3>1 DEF Size, Writer
      <4>3. i + 2 \in 1 .. len
        <5>1. Len(out["main"]) = 0
          BY <2>2
        <5>2. i + 3 > len + 1 => Len(out["main"]) = i + 3 - (len + 1)
          BY <1>3, <4>2
        <5> QED
          BY <1>1, <4>1, <5>1, <5>2
      <4>4. (i - n) + 2 \in DOMAIN toServer' /\ ((i - n) + 2) + n = i + 2 /\ i - n \in DOMAIN toServer'
        BY <1>1, <1>5, <4>1, <4>3
      <4>5. toServer'[i - n] = UPDATE_MODES_REQUEST /\ toServer'[(i - n) + 2] = m_eventModes
        BY <1>1, <3>1, <4>1, <4>4
      <4>6. ASSUME NEW j \in next, toServer'[j] = UPDATE_MODES_REQUEST
            PROVE  j <= i - n
        <5>1. j \in 1 .. len - n /\ j + n \in starts /\ toServer[j + n] = UPDATE_MODES_REQUEST
          BY <1>1, <1>5, <4>6
        <5>2. j + n <= i
          BY <3>1, <5>1
        <5> QED
          BY <1>1, <4>1, <5>1, <5>2
      <4>7. out'["main"] = <<>> /\ m_eventModes' = m_eventModes
        BY <2>2
      <4> QED
        BY <4>1, <4>5, <4>6, <4>7 DEF Carried
    <3> QED
      BY <3>2, <3>3
  <2> QED
    BY <2>1, <2>2
<1> QED
  BY <1>7, <1>11, <1>12

\* The thread of the connection brings the application the modes that the server told.
LEMMA ConnectionStream ==
  ASSUME TypeOK, LinkInv, OutInv, StreamInv, ConnectionThread, link' = "open", ~torn'
  PROVE  Stream'
<1> USE DEF linkVars, threadVars, screenVars, raceVars
<1>1. /\ out \in [{"thread", "main"} -> Seq(Word)]
      /\ UNCHANGED <<serverVars, link, raced>>
      /\ link = "open" /\ ~torn
  <2>1. UNCHANGED <<serverVars, link, raced>>
    BY ApplicationLeavesServer DEF Application
  <2>2. torn => torn'
    BY DEF ConnectionThread, Sent, Write, WriteFails, ReadFails, Receive, ReceiveGarbled,
      SetEventModes, CheckForeground, LoadForeground, ReadModes, PostModes
  <2> QED
    BY <2>1, <2>2, TypeParts DEF ThreadOK
<1>2. PICK starts \in SUBSET DOMAIN toServer : Framed(starts) /\ (Settled => Known(starts))
  BY <1>1 DEF StreamInv, Stream
<1>3. place = "right" \/ place' # "right" => (Settled' => Settled)
  BY <1>1 DEF Settled, serverVars
<1>4. ASSUME UNCHANGED toServer, Framed(starts)', Settled' => Known(starts)'
      PROVE  Stream'
  BY <1>4 DEF Stream
<1>5. CASE Sent
  <2>1. /\ UNCHANGED <<toServer, modes, toApp, value, m_eventModes, ui, place>>
        /\ out["thread"] = <<>> /\ out'["main"] = out["main"]
        /\ thread # "set" /\ thread' # "set"
    BY <1>1, <1>5 DEF Sent, serverVars
  <2>2. Framed(starts)'
    <3>1. CASE thread = "handshake"
      <4>1. Len(makeConfigUpdateRequest) = 2 /\ out' = [out EXCEPT !["thread"] = makeConfigUpdateRequest]
        BY <1>5, <3>1 DEF Sent, makeConfigUpdateRequest
      <4> QED
        BY <1>2, <2>1, <4>1, FramesStarted
    <3>2. CASE thread # "handshake"
      BY <1>2, <1>5, <2>1, <3>2, FramesKept DEF Sent
    <3> QED
      BY <3>1, <3>2
  <2>3. Carried(starts)' <=> Carried(starts)
    BY <2>1 DEF Carried
  <2>4. Known(starts) => Known(starts)'
    BY <2>1, <2>3 DEF Known, LastTells, Untold, Tells, ThreadKnows, ApplicationKnows
  <2> QED
    BY <1>2, <1>3, <1>4, <2>1, <2>2, <2>4 DEF Settled
<1>6. CASE Write("thread")
  <2>1. PICK next \in SUBSET DOMAIN toServer' : Framed(next)' /\ (Carried(starts) => Carried(next)')
    BY <1>1, <1>2, <1>6, FramesWritten
  <2>2. UNCHANGED <<modes, toApp, thread, value, m_eventModes, place>>
    BY <1>6 DEF Write, serverVars
  <2>3. Settled' => Known(next)'
    BY <1>2, <1>3, <2>1, <2>2, KnownKept DEF Settled
  <2> QED
    BY <2>1, <2>3 DEF Stream
<1>7. CASE WriteFails("thread") \/ ReadFails
  BY <1>1, <1>7 DEF WriteFails, ReadFails
<1>8. CASE Receive
  <2>1. /\ UNCHANGED <<toServer, modes, m_eventModes, ui>>
        /\ out'["main"] = out["main"] /\ out["thread"] = <<>> /\ thread = "receive"
        /\ toApp # <<>> /\ toApp' = Tail(toApp)
    BY <1>1, <1>8 DEF Receive, serverVars, OutInv
  <2>2. Framed(starts)'
    <3>1. CASE Head(toApp).kind = "heartbeat"
      <4>1. Len(makeMobileHeartbeatResponse) = 2 /\ out' = [out EXCEPT !["thread"] = makeMobileHeartbeatResponse]
        BY <1>8, <3>1 DEF Receive, makeMobileHeartbeatResponse
      <4> QED
        BY <1>2, <2>1, <4>1, FramesStarted
    <3>2. CASE Head(toApp).kind # "heartbeat"
      BY <1>2, <1>8, <2>1, <3>2, FramesKept DEF Receive
    <3> QED
      BY <3>1, <3>2
  <2>3. Carried(starts)' <=> Carried(starts)
    BY <2>1 DEF Carried
  <2>4. ASSUME Settled'
        PROVE  Known(starts)'
    <3>1. Known(starts)
      <4>1. place' = "right" => place = "right"
        BY <1>8 DEF Receive
      <4> QED
        BY <1>2, <1>3, <2>4, <4>1 DEF Settled
    <3>2. CASE Tells(Head(toApp))
      <4>1. thread' = "set" /\ value' = Head(toApp).modes
        BY <1>8, <3>2 DEF Receive, Tells
      <4>2. LastTells' /\ (Untold' => Head(toApp).modes = modes)
        BY <2>1, <3>1, <3>2, Heard DEF Known
      <4>3. Untold' => ThreadKnows'
        BY <2>1, <4>1, <4>2 DEF ThreadKnows
      <4>4. ApplicationKnows(starts)'
        BY <4>1 DEF ApplicationKnows
      <4> QED
        BY <4>2, <4>3, <4>4 DEF Known
    <3>3. CASE ~Tells(Head(toApp))
      <4>1. thread' \in {"receive", "answer"}
        BY <1>8, <2>1, <3>3 DEF Receive, Tells
      <4>2. LastTells' /\ (Untold' <=> Untold)
        BY <2>1, <3>1, <3>3, Heard DEF Known
      <4>3. ThreadKnows'
        BY <4>1 DEF ThreadKnows
      <4>4. ApplicationKnows(starts) => ApplicationKnows(starts)'
        BY <2>1, <2>3, <4>1 DEF ApplicationKnows
      <4> QED
        BY <2>1, <3>1, <4>2, <4>3, <4>4 DEF Known
    <3> QED
      BY <3>2, <3>3
  <2> QED
    BY <1>4, <2>1, <2>2, <2>4
<1>9. CASE ReceiveGarbled
  <2>1. UNCHANGED <<toServer, out>> /\ place' # "right"
    BY <1>9 DEF ReceiveGarbled
  <2> QED
    BY <1>2, <1>4, <2>1, FramesKept DEF Settled
<1>10. CASE SetEventModes
  <2>1. /\ UNCHANGED <<toServer, out, modes, toApp, place>>
        /\ thread = "set" /\ thread' = "check" /\ m_eventModes' = value
    BY <1>10 DEF SetEventModes, serverVars
  <2>2. LastTells => LastTells'
    BY <2>1 DEF LastTells, Tells
  <2>3. Untold' => Untold
    BY <2>1 DEF Untold, Tells
  <2>4. ThreadKnows => ThreadKnows' /\ ApplicationKnows(starts)'
    BY <2>1 DEF ThreadKnows, ApplicationKnows
  <2>5. Known(starts) => Known(starts)'
    BY <2>2, <2>3, <2>4 DEF Known
  <2> QED
    BY <1>2, <1>3, <1>4, <2>1, <2>5, FramesKept DEF Settled
<1>11. CASE CheckForeground \/ LoadForeground \/ ReadModes \/ PostModes
  <2>1. /\ UNCHANGED <<toServer, out, modes, toApp, m_eventModes, ui, place>>
        /\ thread # "set" /\ thread' # "set"
    BY <1>11 DEF CheckForeground, LoadForeground, ReadModes, PostModes, serverVars
  <2>2. (LastTells => LastTells') /\ (Untold' => Untold) /\ (Carried(starts)' <=> Carried(starts))
    BY <2>1 DEF LastTells, Untold, Tells, Carried
  <2>3. ThreadKnows' /\ (ApplicationKnows(starts) => ApplicationKnows(starts)')
    BY <2>1, <2>2 DEF ThreadKnows, ApplicationKnows
  <2>4. Known(starts) => Known(starts)'
    BY <2>1, <2>2, <2>3 DEF Known
  <2> QED
    BY <1>2, <1>3, <1>4, <2>1, <2>4, FramesKept DEF Settled
<1> QED
  BY <1>5, <1>6, <1>7, <1>8, <1>9, <1>10, <1>11 DEF ConnectionThread

\* The main thread sends what was clicked and shows what the application has.
LEMMA MainStream ==
  ASSUME TypeOK, LinkInv, OutInv, StreamInv, MainThread \/ User, link' = "open", ~torn'
  PROVE  Stream'
<1> USE DEF linkVars, threadVars, screenVars, raceVars
<1>1. /\ out \in [{"thread", "main"} -> Seq(Word)]
      /\ UNCHANGED <<serverVars, link, raced, toApp, value, place>>
      /\ link = "open" /\ ~torn
  <2>1. UNCHANGED <<serverVars, link, raced>>
    BY ApplicationLeavesServer DEF Application
  <2>2. (torn => torn') /\ UNCHANGED <<toApp, value, place>>
    <3>1. CASE MainThread
      <4>1. CASE Write("main") \/ WriteFails("main")
        BY <4>1 DEF Write, WriteFails
      <4>2. CASE ShowModes \/ WriteClick \/ ReadClick \/ PostClick \/ RequestModesUpdate \/ ClickEnds
        BY <4>2 DEF ShowModes, WriteClick, ReadClick, PostClick, RequestModesUpdate, ClickEnds
      <4> QED
        BY <3>1, <4>1, <4>2 DEF MainThread
    <3>2. CASE User
      BY <3>2 DEF User, OpenModes, Resume, Pause, Leave, Click
    <3> QED
      BY <3>1, <3>2
  <2> QED
    BY <2>1, <2>2, TypeParts DEF ThreadOK
<1>2. PICK starts \in SUBSET DOMAIN toServer : Framed(starts) /\ (Settled => Known(starts))
  BY <1>1 DEF StreamInv, Stream
<1>3. /\ Settled' <=> Settled
      /\ UNCHANGED modes
      /\ LastTells' <=> LastTells
      /\ Untold' <=> Untold
  BY <1>1 DEF Settled, serverVars, LastTells, Untold, Tells
<1>4. ASSUME UNCHANGED toServer, Framed(starts)', Known(starts) => Known(starts)'
      PROVE  Stream'
  BY <1>2, <1>3, <1>4 DEF Stream
<1>5. ASSUME UNCHANGED <<toServer, out, thread, m_eventModes>>, ui' \in Asking <=> ui \in Asking
      PROVE  Stream'
  <2>1. Carried(starts)' <=> Carried(starts)
    BY <1>5 DEF Carried
  <2>2. (ThreadKnows => ThreadKnows') /\ (ApplicationKnows(starts) => ApplicationKnows(starts)')
    BY <1>1, <1>3, <1>5, <2>1 DEF ThreadKnows, ApplicationKnows
  <2> QED
    BY <1>2, <1>3, <1>4, <1>5, <2>2, FramesKept DEF Known
<1>6. CASE WriteClick
  <2>1. UNCHANGED <<toServer, out, thread>> /\ ui' \in Asking
    BY <1>6 DEF WriteClick, Asking
  <2>2. (ThreadKnows => ThreadKnows') /\ ApplicationKnows(starts)'
    BY <1>1, <1>3, <2>1 DEF ThreadKnows, ApplicationKnows, Carried
  <2> QED
    BY <1>2, <1>3, <1>4, <2>1, <2>2, FramesKept DEF Known
<1>7. CASE RequestModesUpdate
  <2>1. /\ UNCHANGED <<toServer, thread, m_eventModes>> /\ ui = "request"
        /\ out["main"] = <<>> /\ out' = [out EXCEPT !["main"] = makeUpdateModesRequest(m_eventModes)]
    BY <1>7 DEF RequestModesUpdate, OutInv
  <2>2. out'["main"] = <<UPDATE_MODES_REQUEST, 4, m_eventModes>>
    BY <1>1, <2>1 DEF makeUpdateModesRequest
  <2>3. Framed(starts)'
    <3>1. Len(makeUpdateModesRequest(m_eventModes)) = 3
      BY DEF makeUpdateModesRequest
    <3> QED
      BY <1>2, <2>1, <3>1, FramesStarted
  <2>4. Carried(starts)'
    <3>1. out'["main"] # <<>> /\ out'["main"][Len(out'["main"])] = m_eventModes
      BY <2>2
    <3> QED
      BY <2>1, <3>1 DEF Carried
  <2>5. (ThreadKnows => ThreadKnows') /\ ApplicationKnows(starts)'
    BY <1>1, <1>3, <2>1, <2>4 DEF ThreadKnows, ApplicationKnows
  <2> QED
    BY <1>3, <1>4, <2>1, <2>3, <2>5 DEF Known
<1>8. CASE Write("main")
  <2>1. PICK next \in SUBSET DOMAIN toServer' : Framed(next)' /\ (Carried(starts) => Carried(next)')
    BY <1>1, <1>2, <1>8, FramesWritten
  <2>2. UNCHANGED <<modes, toApp, thread, value, m_eventModes>>
    BY <1>8 DEF Write, serverVars
  <2>3. Settled' => Known(next)'
    BY <1>2, <1>3, <2>1, <2>2, KnownKept
  <2> QED
    BY <2>1, <2>3 DEF Stream
<1>9. CASE WriteFails("main")
  BY <1>1, <1>9 DEF WriteFails
<1>10. CASE ShowModes \/ ReadClick \/ PostClick \/ ClickEnds
  BY <1>5, <1>10 DEF ShowModes, ReadClick, PostClick, ClickEnds, Asking
<1>11. CASE User
  <2>1. UNCHANGED <<toServer, out, thread, m_eventModes>> /\ (ui' \in Asking <=> ui \in Asking)
    BY <1>11 DEF User, OpenModes, Resume, Pause, Leave, Click, Asking
  <2> QED
    BY <1>5, <2>1
<1> QED
  BY <1>6, <1>7, <1>8, <1>9, <1>10, <1>11 DEF MainThread

\* The server tells the client what modes it has, or it is not settled what the client knows.
LEMMA ServerStream ==
  ASSUME TypeOK, LinkInv, StreamInv, Server, link' = "open", ~torn'
  PROVE  Stream'
<1> USE DEF linkVars, threadVars, screenVars, raceVars
<1>1. UNCHANGED <<threadVars, out, m_eventModes, screenVars, torn>>
  BY ServerLeavesApplication
<1>2. ASSUME Close
      PROVE  FALSE
  BY <1>2 DEF Close
<1>3. link = "open"
  BY <1>2 DEF Server, ClientHandler, EventThread, Handshake, UpdateMobileConfig, AddClient, HeartbeatResponse,
    UpdateModes, ReceiveError, GetModes, NotifyModesUpdate, LoadModes, SetModeBit, NotifyLight, AskAlive,
    DropClient, Break
<1>4. PICK starts \in SUBSET DOMAIN toServer : Framed(starts) /\ (Settled => Known(starts))
  BY <1>1, <1>3 DEF StreamInv, Stream
<1>5. /\ modes \in 0 .. 7
      /\ announcing \in [{"client", "events"} -> 0 .. 7 \cup {Nothing, ToRead}]
      /\ 0 .. 7 \cap {Nothing, ToRead} = {} /\ Nothing # ToRead
      /\ toServer \in Seq(Word)
  BY TypeParts DEF ServerOK, LinkOK, Nothing, ToRead
<1>6. ASSUME NEW next, UNCHANGED modes, LastTells => LastTells', Untold' => Untold,
             Carried(starts) => Carried(next)' \/ m_eventModes = modes
      PROVE  Known(starts) => Known(next)'
  <2>1. ThreadKnows => ThreadKnows'
    BY <1>1, <1>6 DEF ThreadKnows
  <2>2. ApplicationKnows(starts) => ApplicationKnows(next)'
    BY <1>1, <1>6 DEF ApplicationKnows
  <2> QED
    BY <1>6, <2>1, <2>2 DEF Known
<1>7. ASSUME UNCHANGED toServer, Settled' => Known(starts)'
      PROVE  Stream'
  <2>1. Framed(starts)'
    BY <1>1, <1>4, <1>7, FramesKept
  <2> QED
    BY <1>7, <2>1 DEF Stream
<1>8. UNCHANGED toServer => (Carried(starts)' <=> Carried(starts))
  BY <1>1 DEF Carried
<1>9. UNCHANGED <<modes, toApp>> => (LastTells' <=> LastTells) /\ (Untold' <=> Untold)
  BY DEF LastTells, Untold, Tells
<1>10. ASSUME NEW n \in {2, 3}, Len(toServer) >= n, Size(1) = n,
              toServer' = SubSeq(toServer, n + 1, Len(toServer))
       PROVE  \E next \in SUBSET DOMAIN toServer' :
                /\ Framed(next)'
                /\ Carried(starts) =>
                     \/ Carried(next)'
                     \/ toServer[1] = UPDATE_MODES_REQUEST /\ toServer[3] = m_eventModes
  BY <1>1, <1>4, <1>10, FramesTaken
<1>11. CASE Handshake
  <2>1. /\ SubSeq(toServer, 1, 2) = makeHandshakeRequest /\ Len(toServer) >= 2
        /\ toServer' = SubSeq(toServer, 3, Len(toServer)) /\ UNCHANGED modes
        /\ toApp' = Append(toApp, HandshakeResponse(modes))
    BY <1>2, <1>11 DEF Handshake
  <2>2. Size(1) = 2
    <3>1. SubSeq(toServer, 1, 2)[1] = HANDSHAKE_REQUEST
      <4>1. makeHandshakeRequest[1] = HANDSHAKE_REQUEST
        BY DEF makeHandshakeRequest
      <4> QED
        BY <2>1, <4>1
    <3>2. toServer[1] = HANDSHAKE_REQUEST
      BY <1>5, <2>1, <3>1
    <3> QED
      BY <3>2, WordsDiffer DEF Size
  <2>3. PICK next \in SUBSET DOMAIN toServer' : Framed(next)'
    BY <1>10, <2>1, <2>2
  <2>4. LastTells' /\ ~Untold'
    <3>1. Tells(HandshakeResponse(modes)) /\ HandshakeResponse(modes).modes = modes
      BY DEF Tells, HandshakeResponse
    <3>2. HandshakeResponse(modes) \in Packet
      BY <1>5, Made
    <3> QED
      BY <2>1, <3>1, <3>2, Told
  <2> QED
    BY <2>3, <2>4 DEF Stream, Known
<1>12. CASE UpdateMobileConfig
  <2>1. /\ Head(toServer) = CONFIG_UPDATE_REQUEST /\ Len(toServer) >= 2 /\ handler = "config"
        /\ toServer' = SubSeq(toServer, 3, Len(toServer))
        /\ UNCHANGED <<modes, announcing, raced>>
        /\ toApp' = Append(toApp, Plain("config"))
    BY <1>2, <1>12 DEF UpdateMobileConfig
  <2>2. Size(1) = 2 /\ toServer[1] # UPDATE_MODES_REQUEST
    BY <1>5, <2>1, WordsDiffer DEF Size
  <2>3. PICK next \in SUBSET DOMAIN toServer' : Framed(next)' /\ (Carried(starts) => Carried(next)')
    BY <1>10, <2>1, <2>2
  <2>4. (LastTells => LastTells') /\ (Untold' <=> Untold)
    BY <2>1, Told, Made DEF Tells, Plain
  <2>5. Settled' => Settled
    BY <1>1, <2>1 DEF Settled
  <2>6. Settled' => Known(next)'
    BY <1>4, <1>6, <2>1, <2>3, <2>4, <2>5
  <2> QED
    BY <2>3, <2>6 DEF Stream
<1>13. CASE AddClient
  <2>1. UNCHANGED <<toServer, modes, toApp, announcing, raced>> /\ handler = "add"
    BY <1>13 DEF AddClient
  <2>2. Settled' => Settled
    BY <1>1, <2>1 DEF Settled
  <2> QED
    BY <1>4, <1>6, <1>7, <1>8, <1>9, <2>1, <2>2
<1>14. CASE HeartbeatResponse
  <2>1. /\ Head(toServer) = HEARTBEAT_RESPONSE /\ Len(toServer) >= 2
        /\ toServer' = SubSeq(toServer, 3, Len(toServer))
        /\ UNCHANGED <<modes, toApp, handler, announcing, raced>>
    BY <1>14 DEF HeartbeatResponse
  <2>2. Size(1) = 2 /\ toServer[1] # UPDATE_MODES_REQUEST
    BY <1>5, <2>1, WordsDiffer DEF Size
  <2>3. PICK next \in SUBSET DOMAIN toServer' : Framed(next)' /\ (Carried(starts) => Carried(next)')
    BY <1>10, <2>1, <2>2
  <2>4. Settled' => Settled
    BY <1>1, <2>1 DEF Settled
  <2>5. Settled' => Known(next)'
    BY <1>4, <1>6, <1>9, <2>1, <2>3, <2>4
  <2> QED
    BY <2>3, <2>5 DEF Stream
<1>15. CASE UpdateModes
  <2>1. /\ Head(toServer) = UPDATE_MODES_REQUEST /\ Len(toServer) >= 3
        /\ toServer' = SubSeq(toServer, 4, Len(toServer)) /\ modes' = toServer[3]
        /\ UNCHANGED <<toApp, raced>>
        /\ \/ modes' = modes /\ UNCHANGED <<handler, announcing>>
           \/ announcing' = [announcing EXCEPT !["client"] = ToRead]
    BY <1>15 DEF UpdateModes
  <2>2. Size(1) = 3
    BY <1>5, <2>1 DEF Size
  <2>3. PICK next \in SUBSET DOMAIN toServer' :
          /\ Framed(next)'
          /\ Carried(starts) => Carried(next)' \/ toServer[3] = m_eventModes
    BY <1>10, <2>1, <2>2
  <2>4. CASE modes' = modes /\ UNCHANGED <<handler, announcing>>
    <3>1. Settled' => Settled
      BY <1>1, <2>1, <2>4 DEF Settled
    <3>2. Settled' => Known(next)'
      BY <1>4, <1>6, <1>9, <2>1, <2>3, <2>4, <3>1
    <3> QED
      BY <2>3, <3>2 DEF Stream
  <2>5. CASE announcing' = [announcing EXCEPT !["client"] = ToRead]
    <3>1. announcing'["client"] = ToRead /\ "client" \in DOMAIN announcing'
      BY <1>5, <2>5
    <3>2. ~Settled'
      BY <1>5, <3>1 DEF Settled
    <3> QED
      BY <2>3, <3>2 DEF Stream
  <2> QED
    BY <2>1, <2>4, <2>5
<1>16. ASSUME NEW t \in {"client", "events"}, GetModes(t)
       PROVE  Stream'
  <2>1. UNCHANGED toServer /\ announcing'[t] = modes /\ t \in DOMAIN announcing'
    BY <1>5, <1>16 DEF GetModes
  <2>2. ~Settled'
    BY <1>5, <2>1 DEF Settled
  <2> QED
    BY <1>7, <2>1, <2>2
<1>17. ASSUME NEW t \in {"client", "events"}, NotifyModesUpdate(t)
       PROVE  Stream'
  <2>1. UNCHANGED <<toServer, modes>> /\ announcing[t] \in 0 .. 7
    BY <1>5, <1>17 DEF NotifyModesUpdate
  <2>2. CASE registered
    <3>1. toApp' = Append(toApp, ModesNotification(announcing[t])) /\ (~raced' => announcing[t] = modes)
      BY <1>3, <1>17, <2>2 DEF NotifyModesUpdate
    <3>2. ASSUME Settled'
          PROVE  LastTells' /\ ~Untold'
      <4>1. announcing[t] = modes
        BY <3>1, <3>2 DEF Settled
      <4>2. Tells(ModesNotification(modes)) /\ ModesNotification(modes).modes = modes
        BY DEF Tells, ModesNotification
      <4>3. ModesNotification(modes) \in Packet /\ toApp' = Append(toApp, ModesNotification(modes))
        BY <1>5, <3>1, <4>1, Made
      <4> QED
        BY <2>1, <4>2, <4>3, Told
    <3> QED
      BY <1>7, <2>1, <3>2 DEF Known
  <2>3. CASE ~registered
    <3>1. handler \notin {"serve", "update"} /\ handler' = handler /\ (handler \in {"config", "add"} => raced')
      BY <1>17, <2>3 DEF NotifyModesUpdate, LinkInv
    <3>2. ~Settled'
      BY <3>1 DEF Settled
    <3> QED
      BY <1>7, <2>1, <3>2
  <2> QED
    BY <2>2, <2>3
<1>18. ASSUME NEW bit \in 1 .. ModeCount, NEW onOff \in BOOLEAN, SetModeBit(bit, onOff)
       PROVE  Stream'
  <2>1. UNCHANGED <<toServer, toApp, handler>>
    BY <1>18 DEF SetModeBit
  <2>2. PICK set : /\ modes' = set
                   /\ announcing' = IF set = loaded THEN announcing
                                    ELSE [announcing EXCEPT !["events"] = ToRead]
                   /\ raced' = (raced \/ (set = loaded /\ set # modes))
    BY <1>18 DEF SetModeBit
  <2>3. CASE set = loaded
    <3>1. Settled' => Settled /\ UNCHANGED modes
      BY <1>1, <2>1, <2>2, <2>3 DEF Settled
    <3> QED
      BY <1>4, <1>6, <1>7, <1>8, <1>9, <2>1, <3>1
  <2>4. CASE set # loaded
    <3>1. announcing'["events"] = ToRead /\ "events" \in DOMAIN announcing'
      BY <1>5, <2>2, <2>4
    <3>2. ~Settled'
      BY <1>5, <3>1 DEF Settled
    <3> QED
      BY <1>7, <2>1, <3>2
  <2> QED
    BY <2>3, <2>4
<1>19. CASE LoadModes
  <2>1. UNCHANGED <<toServer, modes, toApp, announcing, raced, handler>>
    BY <1>19 DEF LoadModes
  <2>2. Settled' => Settled
    BY <1>1, <2>1 DEF Settled
  <2> QED
    BY <1>4, <1>6, <1>7, <1>8, <1>9, <2>1, <2>2
<1>20. CASE NotifyLight \/ AskAlive
  <2>1. UNCHANGED <<toServer, modes, announcing, raced, handler>>
    BY <1>20 DEF NotifyLight, AskAlive, serverVars
  <2>2. PICK kind \in {"light", "heartbeat"} : toApp' = Append(toApp, Plain(kind))
    BY <1>20 DEF NotifyLight, AskAlive
  <2>3. (LastTells => LastTells') /\ (Untold' <=> Untold)
    BY <2>1, <2>2, Told, Made DEF Tells, Plain
  <2>4. Settled' => Settled
    BY <1>1, <2>1 DEF Settled
  <2> QED
    BY <1>4, <1>6, <1>7, <1>8, <2>1, <2>3, <2>4
<1>21. CASE ReceiveError \/ DropClient \/ Break
  BY <1>2, <1>21 DEF ReceiveError, DropClient, Break
<1> QED
  BY <1>11, <1>12, <1>13, <1>14, <1>15, <1>16, <1>17, <1>18, <1>19, <1>20, <1>21
  DEF Server, ClientHandler, EventThread

\* A new connection starts with nothing on its way.
LEMMA ConnectStream ==
  ASSUME TypeOK, LinkInv, StreamInv, NEW works \in BOOLEAN, Connect(works), link' = "open", ~torn'
  PROVE  Stream'
<1>1. CASE works
  <2>1. toServer' = <<>> /\ handler' = "handshake"
    BY <1>1 DEF Connect, LinkInv
  <2>2. out' \in [{"thread", "main"} -> Seq({HANDSHAKE_REQUEST, PASSWORD})]
        /\ out'["thread"] = makeHandshakeRequest /\ out'["main"] = <<>>
    <3>1. out' = [out EXCEPT !["thread"] = makeHandshakeRequest, !["main"] = <<>>]
          /\ out \in [{"thread", "main"} -> Seq(Word)]
      BY <1>1, TypeParts DEF Connect, ThreadOK
    <3>2. makeHandshakeRequest \in Seq({HANDSHAKE_REQUEST, PASSWORD})
      BY DEF makeHandshakeRequest
    <3> QED
      BY <3>1, <3>2
  <2>3. \A t \in DOMAIN out' : ~Midway(t)'
    <3>1. Len(out'["thread"]) = 2 /\ Len(out'["main"]) = 0
      BY <2>2 DEF makeHandshakeRequest
    <3>2. ~Midway("thread")' /\ ~Midway("main")'
      BY <3>1 DEF Midway
    <3>3. DOMAIN out' = {"thread", "main"}
      BY <2>2
    <3> QED
      BY <3>2, <3>3
  <2>4. Framed({})'
    BY <2>1, <2>3 DEF Framed
  <2>5. ~Settled'
    BY <2>1 DEF Settled
  <2> QED
    BY <2>4, <2>5 DEF Stream
<1>2. CASE ~works
  <2>1. thread = "connect" /\ UNCHANGED link
    BY <1>2 DEF Connect
  <2> QED
    BY <2>1 DEF LinkInv
<1> QED
  BY <1>1, <1>2

\* While no packet is torn it is known where the packets are and what they bring.
LEMMA StreamStep ==
  ASSUME TypeOK, LinkInv, OutInv, StreamInv, [Next]_vars
  PROVE  StreamInv'
<1> SUFFICES ASSUME link' = "open", ~torn'
             PROVE  Stream'
  BY DEF StreamInv
<1>1. CASE UNCHANGED vars
  <2> USE DEF vars, serverVars, linkVars, threadVars, screenVars, raceVars
  <2>1. PICK starts \in SUBSET DOMAIN toServer : Framed(starts) /\ (Settled => Known(starts))
    BY <1>1 DEF StreamInv, Stream
  <2>2. Carried(starts) => Carried(starts)'
    BY <1>1 DEF Carried
  <2>3. Known(starts) => Known(starts)'
    BY <1>1, <2>2, KnownKept
  <2>4. Framed(starts)'
    BY <1>1, <2>1, FramesKept
  <2>5. Settled' => Settled
    BY <1>1 DEF Settled
  <2> QED
    BY <1>1, <2>1, <2>3, <2>4, <2>5 DEF Stream
<1> QED
  BY <1>1, ConnectionStream, MainStream, ServerStream, ConnectStream, Steps DEF Application

\* The check boxes without the last runnable, or with another one, show what follows from it.
LEMMA Queue ==
  ASSUME ScreenOK, posted # <<>>, posted' = Tail(posted), boxes' = Shown(Head(posted))
  PROVE  ToShow' = ToShow
<1>1. CASE Len(posted) = 1
  BY <1>1 DEF ToShow, Shown, ScreenOK
<1>2. CASE Len(posted) # 1
  <2>1. posted' # <<>> /\ posted'[Len(posted')] = posted[Len(posted)]
    BY <1>2, LastStays DEF ScreenOK
  <2> QED
    BY <2>1 DEF ToShow, Shown
<1> QED
  BY <1>1, <1>2

\* The last runnable posted decides what the check boxes will show.
LEMMA LastPosted ==
  ASSUME ScreenOK, NEW bitset \in 0 .. 7, posted' = Append(posted, bitset)
  PROVE  ToShow' = Shown(bitset)
<1>1. posted' # <<>> /\ posted'[Len(posted')] = bitset
  BY DEF ScreenOK
<1> QED
  BY <1>1 DEF ToShow, Shown

\* The check boxes follow the modes of the application.
LEMMA BoxesStep ==
  ASSUME TypeOK, LinkInv, OutInv, BoxesInv, [Next]_vars
  PROVE  BoxesInv'
<1> USE DEF serverVars, linkVars, threadVars, screenVars, boundVars, raceVars
<1>1. ASSUME UNCHANGED <<value, target, m_eventModes, ui, clicked, crossed, screen, boxes, posted, behind>>,
             thread \notin {"check", "load", "read", "post"} \/ UNCHANGED thread,
             thread' \notin {"check", "load", "read", "post"} \/ UNCHANGED thread
      PROVE  BoxesInv'
  BY <1>1 DEF BoxesInv, ToShow, Shown, ThreadPosts, MainPosts
<1>2. ASSUME NEW works \in BOOLEAN, Connect(works)
      PROVE  BoxesInv'
  <2>1. thread = "connect" /\ (thread' = "handshake" \/ UNCHANGED thread)
    BY <1>2 DEF Connect
  <2>2. UNCHANGED <<value, target, m_eventModes, ui, clicked, crossed, screen, boxes, posted, behind>>
    BY <1>2 DEF Connect
  <2> QED
    BY <1>1, <2>1, <2>2
<1>3. CASE Sent \/ ReadFails \/ ReceiveGarbled \/ Write("thread") \/ Write("main") \/ WriteFails("main")
  <2>1. UNCHANGED <<value, target, m_eventModes, ui, clicked, crossed, screen, boxes, posted, behind>>
    BY <1>3 DEF Sent, ReadFails, ReceiveGarbled, Write, WriteFails
  <2>2. \/ UNCHANGED thread
        \/ thread \in {"handshake", "config", "answer", "receive"}
           /\ thread' \in {"config", "receive", "connect"}
    BY <1>3 DEF Sent, ReadFails, ReceiveGarbled, Write, WriteFails
  <2> QED
    BY <1>1, <2>1, <2>2
<1>4. CASE WriteFails("thread")
  <2>1. UNCHANGED <<value, target, m_eventModes, ui, clicked, crossed, screen, boxes, posted, behind>>
    BY <1>4 DEF WriteFails
  <2>2. thread \in {"handshake", "config", "answer"} /\ thread' \in {"receive", "ended"}
    BY <1>4 DEF WriteFails, OutInv
  <2> QED
    BY <1>1, <2>1, <2>2
<1>5. CASE Receive
  <2>1. UNCHANGED <<m_eventModes, ui, clicked, crossed, screen, boxes, posted, behind>>
        /\ thread = "receive" /\ thread' \in {"receive", "answer", "set"}
    BY <1>5 DEF Receive
  <2> QED
    BY <2>1 DEF BoxesInv, ToShow, Shown, ThreadPosts, MainPosts
<1>6. CASE SetEventModes
  <2>1. /\ thread' = "check" /\ m_eventModes' = value /\ UNCHANGED <<ui, clicked>>
        /\ ui = "post" /\ clicked # value => "main" \in crossed'
    BY <1>6 DEF SetEventModes
  <2> QED
    BY <2>1 DEF BoxesInv, ThreadPosts
<1>7. CASE CheckForeground
  <2>1. /\ UNCHANGED <<m_eventModes, ui, clicked, crossed, screen>>
        /\ thread' = "load" \/ (thread' = "receive" /\ (screen # "none" => behind'))
    BY <1>7 DEF CheckForeground
  <2> QED
    BY <2>1 DEF BoxesInv, ThreadPosts
<1>8. CASE LoadForeground
  <2>1. /\ UNCHANGED <<m_eventModes, ui, clicked, crossed>> /\ thread = "load"
        /\ UNCHANGED thread \/ (thread' = "read" /\ target' = "shown")
    BY <1>8 DEF LoadForeground
  <2> QED
    BY <2>1 DEF BoxesInv, ThreadPosts
<1>9. CASE ReadModes
  <2>1. /\ UNCHANGED <<m_eventModes, ui, clicked, crossed, target, screen, boxes, posted, behind>>
        /\ thread = "read" /\ thread' = "post" /\ value' = m_eventModes
    BY <1>9 DEF ReadModes
  <2> QED
    BY <2>1 DEF BoxesInv, ToShow, Shown, ThreadPosts, MainPosts
<1>10. CASE PostModes
  <2>1. /\ UNCHANGED <<m_eventModes, ui, clicked, screen, boxes>>
        /\ thread = "post" /\ thread' = "receive"
        /\ "main" \in crossed' <=> "main" \in crossed
    BY <1>10 DEF PostModes, Posted
  <2>2. CASE target = "shown"
    <3>1. posted' = Append(posted, value) /\ ("thread" \in crossed => "boxes" \in crossed')
      BY <1>10, <2>2 DEF PostModes, Posted
    <3>2. ToShow' = Shown(value)
      BY <3>1, LastPosted, TypeParts DEF ThreadOK
    <3> QED
      BY <2>1, <3>1, <3>2 DEF BoxesInv, Shown
  <2>3. CASE target # "shown"
    <3>1. UNCHANGED <<posted, behind>> /\ ("boxes" \in crossed' <=> "boxes" \in crossed)
      BY <1>10, <2>3 DEF PostModes
    <3> QED
      BY <2>1, <2>3, <3>1 DEF BoxesInv, ToShow, Shown, ThreadPosts, MainPosts
  <2> QED
    BY <2>2, <2>3
<1>11. CASE ShowModes
  <2>1. UNCHANGED <<thread, value, target, m_eventModes, ui, clicked, crossed, screen, behind>>
    BY <1>11 DEF ShowModes
  <2>2. ToShow' = ToShow
    BY <1>11, Queue, TypeParts DEF ShowModes, Shown
  <2> QED
    BY <2>1, <2>2 DEF BoxesInv, Shown, ThreadPosts, MainPosts
<1>12. CASE WriteClick
  <2>1. /\ UNCHANGED <<thread, value>> /\ m_eventModes' = clicked /\ ui' = "read"
        /\ thread = "post" /\ value # clicked => "thread" \in crossed'
    BY <1>12 DEF WriteClick
  <2> QED
    BY <2>1 DEF BoxesInv, MainPosts
<1>13. CASE ReadClick
  <2>1. /\ UNCHANGED <<thread, value, m_eventModes, crossed>>
        /\ clicked' = m_eventModes /\ ui' = "post"
    BY <1>13 DEF ReadClick
  <2> QED
    BY <2>1 DEF BoxesInv, MainPosts
<1>14. CASE PostClick
  <2>1. /\ UNCHANGED <<thread, value, m_eventModes>> /\ ui = "post" /\ ui' = "request"
        /\ posted' = Append(posted, clicked)
        /\ "thread" \in crossed' <=> "thread" \in crossed
        /\ "main" \in crossed => "boxes" \in crossed'
    BY <1>14 DEF PostClick, Posted
  <2>2. ToShow' = Shown(clicked)
    BY <2>1, LastPosted, TypeParts DEF ScreenOK
  <2> QED
    BY <2>1, <2>2 DEF BoxesInv, Shown
<1>15. CASE RequestModesUpdate \/ ClickEnds
  <2>1. /\ UNCHANGED <<thread, value, target, m_eventModes, clicked, crossed, screen, boxes, posted, behind>>
        /\ ui \in {"request", "send"} /\ ui' \in {"send", "idle"}
    BY <1>15 DEF RequestModesUpdate, ClickEnds
  <2> QED
    BY <2>1 DEF BoxesInv, ToShow, Shown, ThreadPosts, MainPosts
<1>16. CASE OpenModes
  <2>1. /\ UNCHANGED <<thread, value, m_eventModes, ui, clicked, crossed, posted>> /\ posted = <<>>
        /\ boxes' = Shown(m_eventModes) \/ screen' = "none"
    BY <1>16 DEF OpenModes, LinkInv, Shown
  <2>2. boxes' = Shown(m_eventModes) => ToShow' = Shown(m_eventModes)'
    BY <2>1 DEF ToShow, Shown
  <2> QED
    BY <2>1, <2>2 DEF BoxesInv
<1>17. CASE Resume \/ Pause
  <2>1. /\ UNCHANGED <<thread, value, target, m_eventModes, ui, clicked, crossed, boxes, posted, behind>>
        /\ screen # "none"
    BY <1>17 DEF Resume, Pause, Foreground
  <2> QED
    BY <2>1 DEF BoxesInv, ToShow, Shown, ThreadPosts, MainPosts
<1>18. CASE Leave
  <2>1. /\ UNCHANGED <<thread, value, m_eventModes, ui, clicked>> /\ screen' = "none"
        /\ crossed' = crossed \ {"boxes"}
    BY <1>18 DEF Leave
  <2> QED
    BY <2>1 DEF BoxesInv
<1>19. ASSUME NEW idx \in 0 .. ModeCount - 1, Click(idx)
       PROVE  BoxesInv'
  <2>1. UNCHANGED <<thread, value, m_eventModes, crossed>> /\ ui' = "write"
    BY <1>19 DEF Click
  <2> QED
    BY <2>1 DEF BoxesInv, MainPosts
<1>20. CASE Server
  BY <1>1, <1>20, ServerLeavesApplication
<1>21. CASE UNCHANGED vars
  BY <1>1, <1>21 DEF vars
<1>22. CASE ConnectionThread
  BY <1>3, <1>4, <1>5, <1>6, <1>7, <1>8, <1>9, <1>10, <1>22 DEF ConnectionThread
<1>23. CASE MainThread
  BY <1>3, <1>11, <1>12, <1>13, <1>14, <1>15, <1>23 DEF MainThread
<1>24. CASE User
  BY <1>16, <1>17, <1>18, <1>19, <1>24 DEF User
<1> QED
  BY <1>2, <1>20, <1>21, <1>22, <1>23, <1>24, Steps DEF Application

\* At the start there is no connection and nothing is shown.
LEMMA InitIInv == Init => IInv
<1> SUFFICES ASSUME Init
             PROVE  IInv
  OBVIOUS
<1>1. TypeOK
  <2>1. toApp \in Seq(Packet) /\ toServer \in Seq(Word) /\ posted \in Seq(0 .. 7)
        /\ Len(toApp) <= QueueLen
    BY BoundAssumption DEF Init
  <2>2. out \in [{"thread", "main"} -> Seq(Word)]
    BY DEF Init
  <2>3. announcing \in [{"client", "events"} -> 0 .. 7 \cup {Nothing, ToRead}]
    BY DEF Init
  <2>4. boxes \in 0 .. 2 ^ ModeCount - 1
    <3>1. CASE ModeCount = 1
      BY <3>1, Powers DEF Init
    <3>2. CASE ModeCount = 2
      BY <3>2, Powers DEF Init
    <3> QED
      BY <3>1, <3>2, BoundAssumption
  <2>5. /\ registered \in BOOLEAN /\ unanswered \in BOOLEAN /\ m_connected \in BOOLEAN
        /\ config \in BOOLEAN /\ died \in BOOLEAN /\ raced \in BOOLEAN /\ torn \in BOOLEAN
        /\ behind \in BOOLEAN
    BY DEF Init
  <2>6. /\ handler = "none" /\ link = "none" /\ thread = "connect" /\ place = "right"
        /\ screen = "none" /\ ui = "idle" /\ loaded = Nothing
        /\ target = "none" /\ crossed = {}
    BY DEF Init
  <2>7. /\ modes = 0 /\ value = 0 /\ m_eventModes = 0 /\ clicked = 0
        /\ clicks = 0 /\ sets = 0
    BY DEF Init
  <2>8. ServerOK /\ LinkOK
    BY <2>1, <2>3, <2>5, <2>6, <2>7 DEF ServerOK, LinkOK
  <2>9. ThreadOK /\ ScreenOK
    BY <2>1, <2>2, <2>4, <2>5, <2>6, <2>7 DEF ThreadOK, ScreenOK
  <2>10. HistoryOK
    BY <2>5, <2>6, <2>7, BoundAssumption DEF HistoryOK
  <2> QED
    BY <2>8, <2>9, <2>10, TypeParts
<1>2. LinkInv
  BY DEF Init, LinkInv
<1>3. OutInv
  BY DEF Init, OutInv
<1>4. WordsInv
  BY DEF Init, WordsInv, Once, Absent, RequestsApart
<1>5. StreamInv
  BY DEF Init, StreamInv
<1>6. BoxesInv
  BY DEF Init, BoxesInv
<1> QED
  BY <1>1, <1>2, <1>3, <1>4, <1>5, <1>6 DEF IInv

\* Every step keeps the strengthening.
LEMMA NextIInv == IInv /\ [Next]_vars => IInv'
<1> SUFFICES ASSUME IInv, [Next]_vars
             PROVE  IInv'
  OBVIOUS
<1>1. TypeOK'
  BY TypeStep DEF IInv
<1>2. LinkInv'
  BY LinkStep DEF IInv
<1>3. OutInv'
  BY OutStep DEF IInv
<1>4. WordsInv'
  BY <1>2, WordsStep DEF IInv
<1>5. StreamInv'
  BY StreamStep DEF IInv
<1>6. BoxesInv'
  BY BoxesStep DEF IInv
<1> QED
  BY <1>1, <1>2, <1>3, <1>4, <1>5, <1>6 DEF IInv

\* The strengthening of the invariants holds in every state of the application and its server.
THEOREM InductiveInvariant == Spec => []IInv
BY InitIInv, NextIInv, PTL DEF Spec

\* TypeOK: with whatever a torn packet left in the stream, the modes the server takes from it
\* (update_modes) are a bitset, and the queues keep their bounds.
THEOREM TypeCorrect == Spec => []TypeOK
<1>1. IInv => TypeOK
  BY DEF IInv
<1> QED
  BY <1>1, InductiveInvariant, PTL

\* A client that was told all and has nothing to send has the modes of the server and shows them,
\* if nothing hid or overtook them.
LEMMA QuietScreen == IInv => ScreenShowsTheModes
<1> SUFFICES ASSUME IInv, Quiet, ~raced, ~torn
             PROVE  /\ m_eventModes = modes
                    /\ Foreground /\ ~behind /\ "boxes" \notin crossed =>
                         boxes = m_eventModes % 2 ^ ModeCount
  BY DEF ScreenShowsTheModes
<1>1. /\ handler = "serve" /\ link = "open" /\ thread = "receive" /\ place = "right"
      /\ ui = "idle" /\ posted = <<>> /\ toApp = <<>> /\ toServer = <<>>
      /\ \A t \in DOMAIN announcing : announcing[t] = Nothing
      /\ out["main"] = <<>>
  BY TypeParts DEF Quiet, IInv, ThreadOK
<1>2. PICK starts \in SUBSET DOMAIN toServer : Settled => Known(starts)
  BY <1>1 DEF IInv, StreamInv, Stream
<1>3. Settled /\ Untold
  BY <1>1 DEF Settled, Untold
<1>4. ~Carried(starts)
  BY <1>1, <1>2 DEF Carried, Asking
<1>5. m_eventModes = modes
  BY <1>1, <1>2, <1>3, <1>4 DEF Known, ApplicationKnows
<1>6. Foreground /\ ~behind /\ "boxes" \notin crossed => boxes = m_eventModes % 2 ^ ModeCount
  BY <1>1 DEF IInv, BoxesInv, ThreadPosts, MainPosts, Foreground, ToShow, Shown
<1> QED
  BY <1>5, <1>6

\* ScreenShowsTheModes: when nothing is on its way, the application and its check boxes have the
\* modes of the server, after any number of clicks, mode commands and broken connections.
THEOREM ScreenIsRight == Spec => []ScreenShowsTheModes
BY InductiveInvariant, QuietScreen, PTL
===============================================================================
