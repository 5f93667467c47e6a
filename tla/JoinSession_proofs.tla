-------------------------- MODULE JoinSession_proofs --------------------------
(***************************************************************************)
(* Proofs about JoinSession, for every mode, any number of registries and  *)
(* any bounds: each of its steps is one of the connection, so what was     *)
(* proved of the connection holds in the session; the two ends agree on    *)
(* the state of every packet in flight, both ways; and a player that       *)
(* counts as spawned stands in the world.                                  *)
(***************************************************************************)
EXTENDS JoinSession, ServerConnection_proofs

(* What a conforming client writes. *)
Message ==
  {Sent("intention", 1, "Handshake"), Sent("intention", 2, "Handshake"),
   Sent("status_request", 1, "Status"), Sent("ping_request", 1, "Status"),
   Sent("hello", 1, "Login"), Sent("login_acknowledged", 1, "Login"),
   Sent("client_information", 1, "Configuration"),
   Sent("select_known_packs", 1, "Configuration"),
   Sent("finish_configuration", 1, "Configuration"),
   Sent("accept_teleportation", 1, "Play"), Sent("keep_alive", 1, "Play"),
   Sent("client_information", 1, "Play")}

(* The ids of the packets that process_packet handles are the ids that the  *)
(* client finds in its tables.                                              *)
LEMMA HandledIds ==
  \A h \in Handled : IdOf(h[3], h[1]) = h[2]
<1>1. IdOf("intention", "Handshake") = 0
  BY DEF IdOf, ServerboundTable, HandshakeServerbound
<1>2. IdOf("status_request", "Status") = 0
  BY DEF IdOf, ServerboundTable, StatusServerbound
<1>3. IdOf("ping_request", "Status") = 1
  BY DEF IdOf, ServerboundTable, StatusServerbound
<1>4. IdOf("hello", "Login") = 0
  BY DEF IdOf, ServerboundTable, LoginServerbound
<1>5. IdOf("login_acknowledged", "Login") = 3
  BY DEF IdOf, ServerboundTable, LoginServerbound
<1>6. IdOf("client_information", "Configuration") = 0
  BY DEF IdOf, ServerboundTable, ConfigurationServerbound
<1>7. IdOf("select_known_packs", "Configuration") = 7
  BY DEF IdOf, ServerboundTable, ConfigurationServerbound
<1>8. IdOf("finish_configuration", "Configuration") = 3
  BY DEF IdOf, ServerboundTable, ConfigurationServerbound
<1>9. IdOf("accept_teleportation", "Play") = 0
  BY DEF IdOf, ServerboundTable, PlayServerbound
<1>10. IdOf("keep_alive", "Play") = 28
  BY DEF IdOf, ServerboundTable, PlayServerbound
<1>11. IdOf("client_information", "Play") = 14
  BY DEF IdOf, ServerboundTable, PlayServerbound
<1>. QED
  BY <1>1, <1>2, <1>3, <1>4, <1>5, <1>6, <1>7, <1>8, <1>9, <1>10, <1>11 DEF Handled

(* A packet of the client has a branch in the state it was written in.      *)
LEMMA MessageHandled ==
  ASSUME NEW m \in Message
  PROVE  /\ <<m.phase, Body(m).id, m.name>> \in Handled
         /\ Body(m) \in Packet /\ Body(m).arg = m.arg /\ m.arg \in Values
         /\ m.phase \in ProtocolState
<1>1. <<m.phase, IdOf(m.name, m.phase), m.name>> \in Handled
  BY HandledIds DEF Message, Sent, Handled
<1>2. IdOf(m.name, m.phase) \in PacketIds
  BY <1>1 DEF Handled, PacketIds
<1>3. m.arg \in Values /\ m.phase \in ProtocolState
  BY DEF Message, Sent, Values, ProtocolState
<1>. QED  BY <1>1, <1>2, <1>3 DEF Body, Packet

(* The client reads every packet of the server as what it was written as.   *)
LEMMA ClientboundIds ==
  ASSUME NEW packet \in Clientbound
  PROVE  LET wire == WrittenAs(packet) IN ReadAs(wire[1], PhaseOf(packet)) = wire[2]
<1>1. /\ ReadAs(0, "Status") = "status_response"
      /\ ReadAs(1, "Status") = "pong_response"
  BY DEF ReadAs, ClientboundTable, StatusClientbound
<1>2. ReadAs(2, "Login") = "login_finished"
  BY DEF ReadAs, ClientboundTable, LoginClientbound
<1>3. /\ ReadAs(14, "Configuration") = "select_known_packs"
      /\ ReadAs(12, "Configuration") = "update_enabled_features"
      /\ ReadAs(7, "Configuration") = "registry_data"
      /\ ReadAs(13, "Configuration") = "update_tags"
      /\ ReadAs(3, "Configuration") = "finish_configuration"
  BY DEF ReadAs, ClientboundTable, ConfigurationClientbound
<1>4. /\ ReadAs(49, "Play") = "login"
      /\ ReadAs(94, "Play") = "set_chunk_cache_center"
      /\ ReadAs(45, "Play") = "level_chunk_with_light"
      /\ ReadAs(72, "Play") = "player_position"
      /\ ReadAs(38, "Play") = "game_event"
      /\ ReadAs(44, "Play") = "keep_alive"
  BY DEF ReadAs, ClientboundTable, PlayClientbound
<1>5. CASE packet \in StatusPackets
  <2>1. WrittenAs(packet) = StatusIds[packet] /\ PhaseOf(packet) = "Status"
    <3>1. packet \notin LoginPackets /\ packet \notin ConfigPackets /\ packet \notin PlayPackets
      BY <1>5 DEF StatusPackets, LoginPackets, ConfigPackets, PlayPackets, JoinPackets
    <3>. QED  BY <1>5, <3>1, Zenon DEF WrittenAs, PhaseOf
  <2>. QED  BY <1>1, <1>5, <2>1 DEF StatusIds, StatusPackets
<1>6. CASE packet \in LoginPackets
  <2>1. WrittenAs(packet) = LoginIds[packet] /\ PhaseOf(packet) = "Login"
    <3>1. packet \notin StatusPackets /\ packet \notin ConfigPackets /\ packet \notin PlayPackets
      BY <1>6 DEF StatusPackets, LoginPackets, ConfigPackets, PlayPackets, JoinPackets
    <3>. QED  BY <1>6, <3>1, Zenon DEF WrittenAs, PhaseOf
  <2>. QED  BY <1>2, <1>6, <2>1 DEF LoginIds, LoginPackets
<1>7. CASE packet \in ConfigPackets
  <2>1. WrittenAs(packet) = ConfigurationIds[packet] /\ PhaseOf(packet) = "Configuration"
    <3>1. packet \notin StatusPackets /\ packet \notin LoginPackets /\ packet \notin PlayPackets
      BY <1>7 DEF StatusPackets, LoginPackets, ConfigPackets, PlayPackets, JoinPackets
    <3>. QED  BY <1>7, <3>1, Zenon DEF WrittenAs, PhaseOf
  <2>. QED  BY <1>3, <1>7, <2>1 DEF ConfigurationIds, ConfigPackets
<1>8. CASE packet \in PlayPackets
  <2>1. WrittenAs(packet) = PlayIds[packet] /\ PhaseOf(packet) = "Play"
    <3>1. packet \notin StatusPackets /\ packet \notin LoginPackets /\ packet \notin ConfigPackets
      BY <1>8 DEF StatusPackets, LoginPackets, ConfigPackets, PlayPackets, JoinPackets
    <3>. QED  BY <1>8, <3>1, Zenon DEF WrittenAs, PhaseOf
  <2>. QED  BY <1>4, <1>8, <2>1 DEF PlayIds, PlayPackets, JoinPackets
<1>. QED  BY <1>5, <1>6, <1>7, <1>8 DEF Clientbound

-------------------------------------------------------------------------------
(***************************************************************************)
(* The inductive invariant.                                                *)
(***************************************************************************)
Unread == 1 .. Len(toServer)
Flight == 1 .. Len(outbox)

(* A changer moves the server to another state; an asker is answered.       *)
Changers == {"intention", "login_acknowledged", "finish_configuration"}
Askers   == {"status_request", "ping_request", "hello", "login_acknowledged",
             "select_known_packs", "finish_configuration"}
Answered == {"StatusResponse", "LoginSuccess", "SelectKnownPacks", "FinishConfiguration"}

After(m) ==
  CASE m.name = "intention"            -> IF m.arg = 1 THEN "Status" ELSE "Login"
    [] m.name = "login_acknowledged"   -> "Configuration"
    [] m.name = "finish_configuration" -> "Play"
    [] OTHER                           -> m.phase

(* The unread packets begin in the state of the server, and each packet is  *)
(* in the state that those before it lead to.                               *)
QueueLeads ==
  /\ toServer \in Seq(Message)
  /\ \A k \in Unread : toServer[k].name \in Changers =>
       \A i \in Unread :
         /\ i =< k => toServer[i].phase = state_
         /\ i > k  => toServer[i].phase = After(toServer[k])
         /\ i # k  => toServer[i].name \notin Changers
  /\ (\A k \in Unread : toServer[k].name \notin Changers) =>
       \A i \in Unread : toServer[i].phase = state_

(* What is in flight to the client belongs to its state, and a packet that  *)
(* makes the client go on is the last in flight.                            *)
FlightOfPhase ==
  \A i \in Flight :
    /\ PhaseOf(outbox[i]) = cphase
    /\ outbox[i] \in Answered => i = Len(outbox)

(* While the socket is up, the unread packets lead to the state of the      *)
(* client, and there is one question or its answers in flight at a time.    *)
QueueArrives ==
  /\ \A k \in Unread : toServer[k].name \in Changers => cphase = After(toServer[k])
  /\ (\A k \in Unread : toServer[k].name \notin Changers) => cphase = state_

OneQuestion ==
  /\ \A i, j \in Unread :
       toServer[i].name \in Askers /\ toServer[j].name \in Askers => i = j
  /\ (\E i \in Unread : toServer[i].name \in Askers \cup Changers) => outbox = <<>>

NotOpened ==
  cphase = "Handshake" => toServer = <<>> /\ outbox = <<>> /\ state_ = "Handshake"

PhaseInv ==
  /\ TypeOK
  /\ framed \in BOOLEAN /\ cphase \in ProtocolState
  /\ ~framed => toServer = <<>>
  /\ framed =>
       /\ QueueLeads
       /\ FlightOfPhase
       /\ NotOpened
       /\ socket_ = "open" => QueueArrives /\ OneQuestion

(* Once the player counts as spawned, or its confirmation is on its way,    *)
(* nothing of the world is in flight any more.                              *)
Settled == {"GameEvent", "KeepAlive"}

Confirms ==
  \/ player_lifecycle_ = "SPAWNED_AND_READY"
  \/ \E i \in Unread : toServer[i].name = "accept_teleportation"

WorldInv ==
  framed =>
    /\ Confirms => state_ = "Play" /\ \A i \in Flight : outbox[i] \in Settled
    /\ \A i, j \in Flight : i < j /\ outbox[i] = "PlayerPosition" => outbox[j] \in Settled

-------------------------------------------------------------------------------
(* What process_packet writes in answer to a packet of a conforming client. *)
Reply(m) ==
  CASE m.name = "status_request"       -> <<"StatusResponse">>
    [] m.name = "ping_request"         -> <<"Pong">>
    [] m.name = "hello"                -> <<"LoginSuccess">>
    [] m.name = "login_acknowledged"   -> <<"SelectKnownPacks">>
    [] m.name = "select_known_packs"   -> ConfigurationBurst
    [] m.name = "finish_configuration" -> JoinSequence
    [] OTHER                           -> <<>>

(* A packet that is read in the state it was written in does what was meant *)
(* by it: it takes the server to the state the client means it to be in, is *)
(* answered if it asks, and confirms if it is the confirmation.             *)
LEMMA ReadInPhase ==
  ASSUME TypeOK, NEW m \in Message, m.phase = state_, ProcessPacket(Body(m))
  PROVE  /\ state_' = After(m)
         /\ m.name \in Askers => outbox' = outbox \/ Send(Reply(m))
         /\ m.name \notin Askers => outbox' = outbox
         /\ \/ player_lifecycle_' = player_lifecycle_
            \/ m.name = "accept_teleportation"
         /\ OfflineMode /\ m.name \in Askers => Send(Reply(m))
         /\ m.name = "accept_teleportation" => player_lifecycle_' = "SPAWNED_AND_READY"
         /\ username_' = IF m.name = "hello" THEN m.arg ELSE username_
         /\ m.arg # NoName
<1>. DEFINE p == Body(m)
<1>1. /\ <<m.phase, p.id, m.name>> \in Handled /\ p.arg = m.arg /\ Decodes(p)
      /\ m.arg # NoName
  BY MessageHandled DEF Decodes, Malformed, Values, NoName
<1>. HIDE DEF p
<1>. USE DEF session, timers
<1>2. CASE m.name = "intention"
  <2>1. state_ = "Handshake" /\ p.id = 0
    BY <1>1, <1>2 DEF Handled
  <2>2. Handshake(p)
    BY <1>1, <2>1 DEF ProcessPacket, Handshake, StatusRequest, PingRequest, LoginStart,
         LoginAcknowledged, SelectKnownPacks, FinishConfigurationAck, ConfirmTeleportation,
         KeepAliveResponse, Ignored, Acts, p
  <2>. QED  BY <1>1, <1>2, <2>1, <2>2 DEF Handshake, After, Askers, Reply
<1>3. CASE m.name = "status_request"
  <2>1. state_ = "Status" /\ p.id = 0
    BY <1>1, <1>3 DEF Handled
  <2>2. StatusRequest(p)
    BY <1>1, <2>1 DEF ProcessPacket, Handshake, StatusRequest, PingRequest, LoginStart,
         LoginAcknowledged, SelectKnownPacks, FinishConfigurationAck, ConfirmTeleportation,
         KeepAliveResponse, Ignored, Acts, p
  <2>. QED  BY <1>1, <1>3, <2>1, <2>2 DEF StatusRequest, After, Askers, Reply
<1>4. CASE m.name = "ping_request"
  <2>1. state_ = "Status" /\ p.id = 1
    BY <1>1, <1>4 DEF Handled
  <2>2. PingRequest(p)
    BY <1>1, <2>1 DEF ProcessPacket, Handshake, StatusRequest, PingRequest, LoginStart,
         LoginAcknowledged, SelectKnownPacks, FinishConfigurationAck, ConfirmTeleportation,
         KeepAliveResponse, Ignored, Acts, p
  <2>. QED  BY <1>1, <1>4, <2>1, <2>2 DEF PingRequest, After, Askers, Reply
<1>5. CASE m.name = "hello"
  <2>1. state_ = "Login" /\ p.id = 0
    BY <1>1, <1>5 DEF Handled
  <2>2. LoginStart(p)
    BY <1>1, <2>1 DEF ProcessPacket, Handshake, StatusRequest, PingRequest, LoginStart,
         LoginAcknowledged, SelectKnownPacks, FinishConfigurationAck, ConfirmTeleportation,
         KeepAliveResponse, Ignored, Acts, p
  <2>. QED  BY <1>1, <1>5, <2>1, <2>2 DEF LoginStart, After, Askers, Reply
<1>6. CASE m.name = "login_acknowledged"
  <2>1. state_ = "Login" /\ p.id = 3
    BY <1>1, <1>6 DEF Handled
  <2>2. LoginAcknowledged(p)
    BY <1>1, <2>1 DEF ProcessPacket, Handshake, StatusRequest, PingRequest, LoginStart,
         LoginAcknowledged, SelectKnownPacks, FinishConfigurationAck, ConfirmTeleportation,
         KeepAliveResponse, Ignored, Acts, p
  <2>. QED  BY <1>1, <1>6, <2>1, <2>2 DEF LoginAcknowledged, After, Askers, Reply
<1>7. CASE m.name = "select_known_packs"
  <2>1. state_ = "Configuration" /\ p.id = 7
    BY <1>1, <1>7 DEF Handled
  <2>2. SelectKnownPacks(p)
    BY <1>1, <2>1 DEF ProcessPacket, Handshake, StatusRequest, PingRequest, LoginStart,
         LoginAcknowledged, SelectKnownPacks, FinishConfigurationAck, ConfirmTeleportation,
         KeepAliveResponse, Ignored, Acts, p
  <2>. QED  BY <1>1, <1>7, <2>1, <2>2 DEF SelectKnownPacks, After, Askers, Reply
<1>8. CASE m.name = "finish_configuration"
  <2>1. state_ = "Configuration" /\ p.id = 3
    BY <1>1, <1>8 DEF Handled
  <2>2. FinishConfigurationAck(p)
    BY <1>1, <2>1 DEF ProcessPacket, Handshake, StatusRequest, PingRequest, LoginStart,
         LoginAcknowledged, SelectKnownPacks, FinishConfigurationAck, ConfirmTeleportation,
         KeepAliveResponse, Ignored, Acts, p
  <2>. QED  BY <1>1, <1>8, <2>1, <2>2 DEF FinishConfigurationAck, After, Askers, Reply
<1>9. CASE m.name = "accept_teleportation"
  <2>1. state_ = "Play" /\ p.id = 0
    BY <1>1, <1>9 DEF Handled
  <2>2. ConfirmTeleportation(p)
    BY <1>1, <2>1 DEF ProcessPacket, Handshake, StatusRequest, PingRequest, LoginStart,
         LoginAcknowledged, SelectKnownPacks, FinishConfigurationAck, ConfirmTeleportation,
         KeepAliveResponse, Ignored, Acts, p
  <2>. QED  BY <1>1, <1>9, <2>1, <2>2 DEF ConfirmTeleportation, After, Askers, Reply
<1>10. CASE m.name = "keep_alive"
  <2>1. state_ = "Play" /\ p.id = 28
    BY <1>1, <1>10 DEF Handled
  <2>2. KeepAliveResponse(p)
    BY <1>1, <2>1 DEF ProcessPacket, Handshake, StatusRequest, PingRequest, LoginStart,
         LoginAcknowledged, SelectKnownPacks, FinishConfigurationAck, ConfirmTeleportation,
         KeepAliveResponse, Ignored, Acts, p
  <2>. QED  BY <1>1, <1>10, <2>1, <2>2 DEF KeepAliveResponse, After, Askers, Reply
<1>11. CASE m.name = "client_information"
  <2>1. \/ state_ = "Configuration" /\ p.id = 0
        \/ state_ = "Play" /\ p.id = 14
    BY <1>1, <1>11 DEF Handled
  <2>2. Ignored(p)
    BY <1>1, <2>1 DEF ProcessPacket, Handshake, StatusRequest, PingRequest, LoginStart,
         LoginAcknowledged, SelectKnownPacks, FinishConfigurationAck, ConfirmTeleportation,
         KeepAliveResponse, Ignored, Acts, p
  <2>. QED  BY <1>1, <1>11, <2>1, <2>2 DEF Ignored, After, Askers
<1>12. m.name \in {h[3] : h \in Handled}
  BY <1>1
<1>. QED
  BY <1>2, <1>3, <1>4, <1>5, <1>6, <1>7, <1>8, <1>9, <1>10, <1>11, <1>12 DEF Handled

-------------------------------------------------------------------------------
(* The rest of a sequence, and what comes of two. *)
LEMMA TailOf ==
  ASSUME NEW S, NEW s \in Seq(S), s # <<>>
  PROVE  /\ Head(s) \in S /\ Head(s) = s[1] /\ 1 \in 1 .. Len(s)
         /\ Tail(s) \in Seq(S) /\ Len(Tail(s)) = Len(s) - 1
         /\ \A i \in 1 .. Len(Tail(s)) : i + 1 \in 1 .. Len(s) /\ Tail(s)[i] = s[i + 1]
OBVIOUS

LEMMA Joined ==
  ASSUME NEW S, NEW s \in Seq(S), NEW t \in Seq(S)
  PROVE  /\ s \o t \in Seq(S) /\ Len(s \o t) = Len(s) + Len(t)
         /\ \A i \in 1 .. Len(s) : i \in 1 .. Len(s \o t) /\ (s \o t)[i] = s[i]
         /\ \A i \in 1 .. Len(t) :
              Len(s) + i \in 1 .. Len(s \o t) /\ (s \o t)[Len(s) + i] = t[i]
         /\ \A i \in 1 .. Len(s \o t) :
              \/ i \in 1 .. Len(s) /\ (s \o t)[i] = s[i]
              \/ i > Len(s) /\ i - Len(s) \in 1 .. Len(t) /\ (s \o t)[i] = t[i - Len(s)]
OBVIOUS

(* Only a changer changes the state. *)
LEMMA AfterPlain ==
  ASSUME NEW m, m.name \notin Changers
  PROVE  After(m) = m.phase
BY DEF After, Changers

(* The packet that is read next was written in the state of the server.     *)
LEMMA HeadInPhase ==
  ASSUME QueueLeads, toServer # <<>>
  PROVE  Head(toServer) \in Message /\ Head(toServer).phase = state_
<1>1. Head(toServer) \in Message /\ Head(toServer) = toServer[1] /\ 1 \in Unread
  BY TailOf DEF QueueLeads, Unread
<1>2. CASE \A k \in Unread : toServer[k].name \notin Changers
  BY <1>1, <1>2 DEF QueueLeads
<1>3. CASE \E k \in Unread : toServer[k].name \in Changers
  <2>1. PICK k \in Unread : toServer[k].name \in Changers
    BY <1>3
  <2>2. 1 =< k
    BY DEF Unread
  <2>. QED  BY <1>1, <2>1, <2>2 DEF QueueLeads
<1>. QED  BY <1>2, <1>3

(* Reading a packet leaves the rest in the order of the states.             *)
LEMMA QueueRead ==
  ASSUME QueueLeads, toServer # <<>>,
         toServer' = Tail(toServer), state_' = After(Head(toServer))
  PROVE  /\ QueueLeads'
         /\ QueueArrives /\ cphase' = cphase => QueueArrives'
<1>1. /\ Head(toServer) = toServer[1] /\ 1 \in Unread
      /\ toServer' \in Seq(Message) /\ Unread \subseteq Nat
      /\ \A i \in Unread' : i + 1 \in Unread /\ toServer'[i] = toServer[i + 1]
      /\ Unread' \subseteq Nat /\ \A i \in Unread' : i > 0
  BY TailOf DEF QueueLeads, Unread
<1>2. CASE toServer[1].name \in Changers
  <2>1. \A i \in Unread :
          /\ i > 1 => toServer[i].phase = After(toServer[1])
          /\ i # 1 => toServer[i].name \notin Changers
    BY <1>1, <1>2 DEF QueueLeads
  <2>2. ASSUME NEW i \in Unread'
        PROVE  toServer'[i].name \notin Changers /\ toServer'[i].phase = state_'
    <3>1. i + 1 > 1 /\ i + 1 # 1 /\ i + 1 \in Unread
      BY <1>1
    <3>. QED  BY <1>1, <2>1, <3>1
  <2>3. QueueLeads'
    BY <1>1, <2>2 DEF QueueLeads
  <2>4. ASSUME QueueArrives, cphase' = cphase
        PROVE  QueueArrives'
    <3>1. cphase' = state_'
      BY <1>1, <1>2, <2>4 DEF QueueArrives
    <3>. QED  BY <2>2, <3>1 DEF QueueArrives
  <2>. QED  BY <2>3, <2>4
<1>3. CASE toServer[1].name \notin Changers
  <2>1. state_' = state_
    BY <1>1, <1>3, HeadInPhase, AfterPlain
  <2>2. CASE \A k \in Unread' : toServer'[k].name \notin Changers
    <3>1. \A k \in Unread : k = 1 \/ (k - 1 \in Unread' /\ toServer[k] = toServer'[k - 1])
      BY TailOf DEF Unread, QueueLeads
    <3>2. \A k \in Unread : toServer[k].name \notin Changers
      BY <1>3, <2>2, <3>1
    <3>. QED  BY <1>1, <2>1, <2>2, <3>2 DEF QueueLeads, QueueArrives
  <2>3. ASSUME NEW k \in Unread', toServer'[k].name \in Changers
        PROVE  /\ \A i \in Unread' :
                    /\ i =< k => toServer'[i].phase = state_'
                    /\ i > k  => toServer'[i].phase = After(toServer'[k])
                    /\ i # k  => toServer'[i].name \notin Changers
               /\ QueueArrives => cphase = After(toServer'[k])
    <3>1. k + 1 \in Unread /\ toServer[k + 1].name \in Changers /\ toServer[k + 1] = toServer'[k]
      BY <1>1, <2>3
    <3>2. ASSUME NEW i \in Unread'
          PROVE  /\ i =< k => toServer'[i].phase = state_'
                 /\ i > k  => toServer'[i].phase = After(toServer'[k])
                 /\ i # k  => toServer'[i].name \notin Changers
      <4>1. /\ i =< k => i + 1 =< k + 1
            /\ i > k  => i + 1 > k + 1
            /\ i # k  => i + 1 # k + 1
        BY <1>1
      <4>2. i + 1 \in Unread /\ toServer'[i] = toServer[i + 1]
        BY <1>1
      <4>. QED  BY <2>1, <3>1, <4>1, <4>2 DEF QueueLeads
    <3>. QED  BY <3>1, <3>2 DEF QueueArrives
  <2>. QED  BY <1>1, <2>2, <2>3 DEF QueueLeads, QueueArrives
<1>. QED  BY <1>2, <1>3

(* A packet of the state that the client is in may be written at any time.  *)
LEMMA QueueWrite ==
  ASSUME QueueLeads, QueueArrives, UNCHANGED <<state_, cphase>>,
         NEW m \in Message, m.name \notin Changers, m.phase = cphase,
         toServer' \in Seq(Message), Unread \subseteq Unread',
         \A i \in Unread : toServer'[i] = toServer[i],
         \A i \in Unread' : i \in Unread \/ (i > Len(toServer) /\ toServer'[i] = m)
  PROVE  QueueLeads' /\ QueueArrives'
<1>1. CASE \A k \in Unread : toServer[k].name \notin Changers
  <2>1. /\ \A k \in Unread' : toServer'[k].name \notin Changers
        /\ \A k \in Unread' : toServer'[k].phase = state_
    BY <1>1 DEF QueueLeads, QueueArrives
  <2>. QED  BY <1>1, <2>1 DEF QueueLeads, QueueArrives
<1>2. ASSUME NEW k \in Unread, toServer[k].name \in Changers
      PROVE  QueueLeads' /\ QueueArrives'
  <2>1. \A i \in Unread' :
          /\ i =< k => toServer'[i].phase = state_
          /\ i > k  => toServer'[i].phase = After(toServer[k])
          /\ i # k  => toServer'[i].name \notin Changers
    <3>1. \A i \in Unread' : i > Len(toServer) => i > k /\ i # k /\ ~(i =< k)
      BY DEF Unread, QueueLeads
    <3>2. m.phase = After(toServer[k])
      BY <1>2 DEF QueueArrives
    <3>. QED  BY <1>2, <3>1, <3>2 DEF QueueLeads
  <2>2. \A j \in Unread' : toServer'[j].name \in Changers => j = k
    BY <2>1
  <2>. QED  BY <1>2, <2>1, <2>2 DEF QueueLeads, QueueArrives
<1>. QED  BY <1>1, <1>2

(* The client changes its state in the packet that tells the server to do   *)
(* so, and may go on in the new state at once.                              *)
LEMMA QueueChange ==
  ASSUME QueueLeads, QueueArrives, state_' = state_,
         \A k \in Unread : toServer[k].name \notin Changers,
         NEW m \in Message, m.name \in Changers, m.phase = cphase, cphase' = After(m),
         NEW more \in Seq(Message),
         \A i \in 1 .. Len(more) :
           more[i].name \notin Changers /\ more[i].phase = After(m),
         toServer' = toServer \o (<<m>> \o more)
  PROVE  QueueLeads' /\ QueueArrives'
<1>. DEFINE n == Len(toServer) + 1
<1>1. toServer \in Seq(Message) /\ <<m>> \in Seq(Message)
  BY DEF QueueLeads
<1>2. /\ <<m>> \o more \in Seq(Message)
      /\ \A i \in 1 .. Len(<<m>> \o more) :
           \/ i = 1 /\ (<<m>> \o more)[i] = m
           \/ i > 1 /\ i - 1 \in 1 .. Len(more) /\ (<<m>> \o more)[i] = more[i - 1]
      /\ 1 \in 1 .. Len(<<m>> \o more) /\ (<<m>> \o more)[1] = m
  BY <1>1
<1>3. /\ toServer' \in Seq(Message) /\ Unread \subseteq Unread' /\ Unread' \subseteq Nat
      /\ \A i \in Unread : toServer'[i] = toServer[i] /\ i < n
      /\ n \in Unread' /\ toServer'[n] = m /\ n \in Nat
      /\ \A i \in Unread' :
           \/ i \in Unread
           \/ i = n
           \/ i > n /\ toServer'[i].name \notin Changers /\ toServer'[i].phase = After(m)
  <2>. DEFINE new == <<m>> \o more
  <2>1. new \in Seq(Message) /\ toServer' = toServer \o new
    BY <1>2
  <2>2. /\ \A i \in 1 .. Len(new) : i = 1 \/ (i > 1 /\ new[i].name \notin Changers
                                                   /\ new[i].phase = After(m))
        /\ 1 \in 1 .. Len(new) /\ new[1] = m
    BY <1>2
  <2>. HIDE DEF new
  <2>3. /\ toServer' \in Seq(Message) /\ Unread \subseteq Unread' /\ Unread' \subseteq Nat
        /\ \A i \in Unread : toServer'[i] = toServer[i] /\ i < n
        /\ n \in Unread' /\ toServer'[n] = m /\ n \in Nat
    BY <1>1, <2>1, <2>2, Joined DEF Unread
  <2>4. ASSUME NEW i \in Unread', i \notin Unread, i # n
        PROVE  i > n /\ toServer'[i].name \notin Changers /\ toServer'[i].phase = After(m)
    <3>1. /\ i > Len(toServer) /\ i - Len(toServer) \in 1 .. Len(new)
          /\ toServer'[i] = new[i - Len(toServer)]
      <4>1. \A j \in 1 .. Len(toServer \o new) :
              \/ j \in 1 .. Len(toServer) /\ (toServer \o new)[j] = toServer[j]
              \/ /\ j > Len(toServer) /\ j - Len(toServer) \in 1 .. Len(new)
                 /\ (toServer \o new)[j] = new[j - Len(toServer)]
        BY <1>1, <2>1, Joined
      <4>. QED  BY <2>1, <2>4, <4>1, Zenon DEF Unread
    <3>2. Len(toServer) \in Nat /\ i \in Nat
      BY <1>1, <2>3
    <3>3. i - Len(toServer) # 1 /\ i > n
      BY <2>4, <3>1, <3>2
    <3>. QED  BY <2>2, <3>1, <3>3
  <2>. QED  BY <2>3, <2>4
<1>. HIDE DEF n
<1>4. \A i \in Unread' :
        /\ i =< n => toServer'[i].phase = state_
        /\ i > n  => toServer'[i].phase = After(m)
        /\ i # n  => toServer'[i].name \notin Changers
  <2>1. \A i \in Unread : toServer[i].phase = state_ /\ ~(i > n)
    BY <1>3 DEF QueueLeads
  <2>2. m.phase = state_
    BY DEF QueueArrives
  <2>3. ASSUME NEW i \in Unread'
        PROVE  /\ i =< n => toServer'[i].phase = state_
               /\ i > n  => toServer'[i].phase = After(m)
               /\ i # n  => toServer'[i].name \notin Changers
    <3>0. /\ i < n => ~(i > n) /\ i # n
          /\ i > n => ~(i =< n) /\ i # n
          /\ ~(n > n)
      BY <1>3
    <3>1. CASE i \in Unread
      BY <1>3, <2>1, <3>1
    <3>2. CASE i = n
      BY <1>3, <3>0, <2>2, <3>2, Zenon
    <3>3. CASE i > n /\ toServer'[i].name \notin Changers /\ toServer'[i].phase = After(m)
      BY <3>0, <3>3, Zenon
    <3>. QED  BY <1>3, <3>1, <3>2, <3>3
  <2>. QED  BY <2>3
<1>5. ASSUME NEW k \in Unread', toServer'[k].name \in Changers
      PROVE  k = n /\ toServer'[k] = m
  BY <1>3, <1>4, <1>5
<1>6. n \in Unread' /\ toServer'[n].name \in Changers
  BY <1>3
<1>7. QueueLeads'
  <2>1. ASSUME NEW k \in Unread', toServer'[k].name \in Changers, NEW i \in Unread'
        PROVE  /\ i =< k => toServer'[i].phase = state_'
               /\ i > k  => toServer'[i].phase = After(toServer'[k])
               /\ i # k  => toServer'[i].name \notin Changers
    <3>1. k = n /\ toServer'[k] = m
      BY <1>5, <2>1
    <3>. QED  BY <1>4, <3>1
  <2>. QED  BY <1>3, <1>6, <2>1, Zenon DEF QueueLeads
<1>8. QueueArrives'
  BY <1>5, <1>6 DEF QueueArrives
<1>. QED  BY <1>7, <1>8

(* One packet more at the end of the queue. *)
LEMMA OneWritten ==
  ASSUME toServer \in Seq(Message), NEW m \in Message, toServer' = toServer \o <<m>>
  PROVE  /\ toServer' \in Seq(Message) /\ Unread \subseteq Unread'
         /\ \A i \in Unread : toServer'[i] = toServer[i]
         /\ \A i \in Unread' : i \in Unread \/ (i > Len(toServer) /\ toServer'[i] = m)
         /\ \A i \in Unread' : i \in Unread \/ i = Len(toServer) + 1
<1>. DEFINE new == <<m>>
<1>1. new \in Seq(Message) /\ Len(new) = 1 /\ \A i \in 1 .. Len(new) : new[i] = m
  OBVIOUS
<1>2. toServer' = toServer \o new
  OBVIOUS
<1>. HIDE DEF new
<1>3. /\ toServer' \in Seq(Message)
      /\ \A i \in Unread : i \in Unread' /\ toServer'[i] = toServer[i]
      /\ \A i \in Unread' :
           \/ i \in Unread
           \/ /\ i > Len(toServer) /\ i - Len(toServer) \in 1 .. Len(new)
              /\ toServer'[i] = new[i - Len(toServer)]
  BY <1>1, <1>2, Joined DEF Unread
<1>4. \A i \in Unread' : i - Len(toServer) \in 1 .. 1 => i = Len(toServer) + 1
  BY <1>3 DEF Unread
<1>. QED  BY <1>1, <1>3, <1>4

(* What is in flight after the client has taken the first packet.           *)
LEMMA FlightTaken ==
  ASSUME TypeOK, FlightOfPhase, NotOpened, outbox # <<>>, outbox' = Tail(outbox),
         cphase' = CASE Head(outbox) = "LoginSuccess"        -> "Configuration"
                     [] Head(outbox) = "FinishConfiguration" -> "Play"
                     [] OTHER                                -> cphase
  PROVE  /\ FlightOfPhase'
         /\ Head(outbox) \in Clientbound /\ PhaseOf(Head(outbox)) = cphase
         /\ Head(outbox) \in Answered => outbox' = <<>>
         /\ cphase # "Handshake" /\ cphase' # "Handshake"
<1>1. /\ Head(outbox) \in Clientbound /\ Head(outbox) = outbox[1] /\ 1 \in Flight
      /\ outbox' \in Seq(Clientbound) /\ Len(outbox') = Len(outbox) - 1
      /\ \A i \in Flight' : i + 1 \in Flight /\ outbox'[i] = outbox[i + 1]
  BY TailOf DEF TypeOK, Flight
<1>2. PhaseOf(Head(outbox)) = cphase /\ cphase # "Handshake"
  BY <1>1 DEF FlightOfPhase, NotOpened
<1>3. ASSUME Head(outbox) \in Answered PROVE outbox' = <<>>
  <2>1. Len(outbox) = 1
    BY <1>1, <1>3 DEF FlightOfPhase
  <2>. QED  BY <1>1, <2>1
<1>4. FlightOfPhase'
  <2>1. CASE Head(outbox) \in Answered
    BY <1>3, <2>1 DEF FlightOfPhase, Flight
  <2>2. CASE Head(outbox) \notin Answered
    <3>1. cphase' = cphase
      BY <2>2 DEF Answered
    <3>2. ASSUME NEW i \in Flight'
          PROVE  PhaseOf(outbox'[i]) = cphase' /\ (outbox'[i] \in Answered => i = Len(outbox'))
      <4>1. i + 1 \in Flight /\ outbox'[i] = outbox[i + 1] /\ i \in Nat
        BY <1>1 DEF Flight
      <4>2. i + 1 = Len(outbox) => i = Len(outbox')
        BY <1>1, <4>1 DEF TypeOK
      <4>. QED  BY <3>1, <4>1, <4>2 DEF FlightOfPhase
    <3>. QED  BY <3>2 DEF FlightOfPhase
  <2>. QED  BY <2>1, <2>2
<1>. QED  BY <1>1, <1>2, <1>3, <1>4

(* The answers to a question are of the state it leads to. *)
LEMMA ReplyFits ==
  ASSUME NEW m \in Message, m.name \in Askers
  PROVE  /\ Reply(m) \in Seq(Clientbound)
         /\ \A i \in 1 .. Len(Reply(m)) :
              /\ PhaseOf(Reply(m)[i]) = After(m)
              /\ Reply(m)[i] \in Answered => i = Len(Reply(m))
         /\ m.phase # "Handshake" /\ m.phase # "Play"
<1>0. m.phase # "Handshake" /\ m.phase # "Play"
  BY DEF Message, Sent, Askers
<1>1. CASE m.name = "status_request"
  <2>1. Reply(m) = <<"StatusResponse">> /\ After(m) = "Status"
    BY <1>1 DEF Reply, After, Message, Sent
  <2>2. PhaseOf("StatusResponse") = "Status" /\ "StatusResponse" \in Clientbound
    <3>1. "StatusResponse" \in StatusPackets /\ "StatusResponse" \notin LoginPackets \cup ConfigPackets
      BY DEF StatusPackets, LoginPackets, ConfigPackets
    <3>. QED  BY <3>1 DEF PhaseOf, Clientbound
  <2>. QED  BY <1>0, <2>1, <2>2
<1>2. CASE m.name = "ping_request"
  <2>1. Reply(m) = <<"Pong">> /\ After(m) = "Status"
    BY <1>2 DEF Reply, After, Message, Sent
  <2>2. PhaseOf("Pong") = "Status" /\ "Pong" \in Clientbound
    <3>1. "Pong" \in StatusPackets /\ "Pong" \notin LoginPackets \cup ConfigPackets
      BY DEF StatusPackets, LoginPackets, ConfigPackets
    <3>. QED  BY <3>1 DEF PhaseOf, Clientbound
  <2>. QED  BY <1>0, <2>1, <2>2
<1>3. CASE m.name = "hello"
  <2>1. Reply(m) = <<"LoginSuccess">> /\ After(m) = "Login"
    BY <1>3 DEF Reply, After, Message, Sent
  <2>2. PhaseOf("LoginSuccess") = "Login" /\ "LoginSuccess" \in Clientbound
    <3>1. "LoginSuccess" \in LoginPackets /\ "LoginSuccess" \notin StatusPackets \cup ConfigPackets
      BY DEF StatusPackets, LoginPackets, ConfigPackets
    <3>. QED  BY <3>1 DEF PhaseOf, Clientbound
  <2>. QED  BY <1>0, <2>1, <2>2
<1>4. CASE m.name = "login_acknowledged"
  <2>1. Reply(m) = <<"SelectKnownPacks">> /\ After(m) = "Configuration"
    BY <1>4 DEF Reply, After, Message, Sent
  <2>2. PhaseOf("SelectKnownPacks") = "Configuration" /\ "SelectKnownPacks" \in Clientbound
    BY DEF PhaseOf, StatusPackets, LoginPackets, ConfigPackets, Clientbound
  <2>. QED  BY <1>0, <2>1, <2>2
<1>5. CASE m.name = "select_known_packs"
  <2>1. Reply(m) = ConfigurationBurst /\ After(m) = "Configuration"
    BY <1>5 DEF Reply, After, Message, Sent
  <2>2. Len(ConfigurationBurst) = Registries + 3
    BY RegistriesAssumption DEF ConfigurationBurst
  <2>3. \A i \in 1 .. Len(ConfigurationBurst) :
          /\ ConfigurationBurst[i] \in ConfigPackets
          /\ ConfigurationBurst[i] \in Answered => i = Registries + 3
    BY RegistriesAssumption DEF ConfigurationBurst, ConfigPackets, Answered
  <2>4. \A packet \in ConfigPackets : PhaseOf(packet) = "Configuration"
    BY DEF ConfigPackets, PhaseOf, StatusPackets, LoginPackets
  <2>. QED  BY <1>0, <2>1, <2>2, <2>3, <2>4, BurstTypes
<1>6. CASE m.name = "finish_configuration"
  <2>1. Reply(m) = JoinSequence /\ After(m) = "Play"
    BY <1>6 DEF Reply, After, Message, Sent
  <2>2. \A i \in 1 .. Len(JoinSequence) :
          JoinSequence[i] \in JoinPackets /\ JoinSequence[i] \notin Answered
    BY DEF JoinSequence, JoinPackets, Answered
  <2>3. \A packet \in JoinPackets : PhaseOf(packet) = "Play"
    BY DEF JoinPackets, ConfigPackets, PhaseOf, StatusPackets, LoginPackets
  <2>. QED  BY <1>0, <2>1, <2>2, <2>3, BurstTypes
<1>. QED  BY <1>1, <1>2, <1>3, <1>4, <1>5, <1>6 DEF Askers

(* The frames are lost at one stroke, and nothing that the client wrote is  *)
(* left to be read as it was meant.                                         *)
LEMMA FramingEnds ==
  ASSUME FrameLost \/ LengthCut
  PROVE  /\ framed /\ framed' = FALSE /\ toServer' = <<>>
         /\ UNCHANGED <<cphase, infos, registries, ponged>>
BY DEF FrameLost, LengthCut, LosesFraming

(* There is no other way to lose them, and none to find them again.         *)
LEMMA Faithful == [JoinNext]_jvars => framed' = framed \/ FrameLost \/ LengthCut
BY DEF JoinNext, ClientOpens, ClientReceives, ClientInformation, ServerReads,
       ServerReadFails, AnyClient, Runs, client, jvars

(* Each step of the session is a step of the connection. *)
LEMMA StepOfConnection == PhaseInv /\ [JoinNext]_jvars => [Next]_vars
<1>. SUFFICES ASSUME PhaseInv, [JoinNext]_jvars PROVE [Next]_vars
  OBVIOUS
<1>1. ASSUME NEW intent \in {1, 2}, ClientOpens(intent) PROVE [Next]_vars
  BY <1>1 DEF ClientOpens
<1>2. CASE ClientReceives
  BY <1>2 DEF ClientReceives, Next
<1>3. CASE ClientInformation
  BY <1>3 DEF ClientInformation
<1>4. CASE ServerReads
  <2>1. framed /\ toServer # <<>>
    BY <1>4 DEF PhaseInv, ServerReads
  <2>2. Body(Head(toServer)) \in Packet
    BY <2>1, HeadInPhase, MessageHandled DEF PhaseInv
  <2>. QED  BY <1>4, <2>2 DEF ServerReads, Next
<1>5. CASE ServerReadFails
  BY <1>5 DEF ServerReadFails, Next
<1>6. CASE AnyClient
  BY <1>6 DEF AnyClient, Next
<1>7. CASE Runs(Timers) \/ Runs(Close) \/ Runs(ClientLeaves)
  BY <1>7 DEF Runs, Next
<1>8. CASE UNCHANGED jvars
  BY <1>8 DEF jvars
<1>9. CASE FrameLost
  <2>1. framed /\ toServer # <<>>
    <3>1. framed /\ Len(toServer) > 1
      BY <1>9 DEF FrameLost
    <3>. QED  BY <3>1
  <2>2. Body(Head(toServer)) \in Packet
    BY <2>1, HeadInPhase, MessageHandled DEF PhaseInv
  <2>. QED  BY <1>9, <2>2 DEF FrameLost, Next
<1>10. CASE LengthCut
  BY <1>10 DEF LengthCut, Next
<1>. QED
  BY <1>1, <1>2, <1>3, <1>4, <1>5, <1>6, <1>7, <1>8, <1>9, <1>10 DEF JoinNext

-------------------------------------------------------------------------------
(* One lemma for each kind of step. *)
Closing == socket_' = "open" => socket_ = "open"

LEMMA PhaseUntouched ==
  ASSUME PhaseInv, TypeOK', Closing, UNCHANGED <<framed, cphase, toServer, state_, outbox>>
  PROVE  PhaseInv'
BY DEF PhaseInv, Closing, QueueLeads, FlightOfPhase, NotOpened, QueueArrives, OneQuestion,
       Unread, Flight

(* The client opens with its handshake and its first request.               *)
LEMMA PhaseOpens ==
  ASSUME PhaseInv, TypeOK', NEW intent \in {1, 2}, ClientOpens(intent)
  PROVE  PhaseInv'
<1>. DEFINE m    == Sent("intention", intent, cphase)
            more == <<Sent(IF intent = 1 THEN "status_request" ELSE "hello", 1, cphase')>>
<1>1. /\ framed /\ cphase = "Handshake" /\ socket_ = "open"
      /\ toServer = <<>> /\ outbox = <<>> /\ state_ = "Handshake"
      /\ cphase' = IF intent = 1 THEN "Status" ELSE "Login"
      /\ UNCHANGED <<framed, state_, outbox, socket_>>
  BY DEF ClientOpens, PhaseInv, NotOpened, vars
<1>2. /\ m \in Message /\ m.name = "intention" /\ m.phase = cphase /\ cphase' = After(m)
      /\ more \in Seq(Message) /\ Len(more) = 1 /\ more[1].phase = cphase'
      /\ more[1].name \in Askers /\ more[1].name \notin Changers
  BY <1>1 DEF Message, Sent, After, Askers, Changers
<1>3. toServer' = toServer \o (<<m>> \o more)
  BY <1>1 DEF ClientOpens, ClientSends
<1>. HIDE DEF m, more
<1>4. QueueLeads' /\ QueueArrives'
  <2>1. QueueLeads /\ QueueArrives
    BY <1>1 DEF PhaseInv
  <2>2. \A k \in Unread : toServer[k].name \notin Changers
    BY <1>1 DEF Unread
  <2>3. m.name \in Changers
    BY <1>2 DEF Changers
  <2>4. \A i \in 1 .. Len(more) : more[i].name \notin Changers /\ more[i].phase = After(m)
    BY <1>2
  <2>. QED  BY <1>1, <1>2, <1>3, <2>1, <2>2, <2>3, <2>4, QueueChange
<1>5. OneQuestion'
  <2>1. /\ Len(toServer') = 2 /\ toServer'[1] = m
    <3>1. \A s \in Seq(Message) : <<>> \o s = s
      OBVIOUS
    <3>2. /\ <<m>> \o more \in Seq(Message) /\ Len(<<m>> \o more) = 2
          /\ (<<m>> \o more)[1] = m
      <4>1. <<m>> \in Seq(Message) /\ Len(<<m>>) = 1 /\ <<m>>[1] = m /\ 1 \in 1 .. Len(<<m>>)
        BY <1>2
      <4>2. more \in Seq(Message) /\ Len(more) = 1
        BY <1>2
      <4>. QED  BY <4>1, <4>2, Joined
    <3>3. toServer' = <<m>> \o more
      BY <1>1, <1>3, <3>1, <3>2
    <3>. QED  BY <3>2, <3>3
  <2>2. \A i \in Unread' : i = 1 \/ i = 2
    BY <2>1 DEF Unread
  <2>3. m.name \notin Askers
    BY <1>2 DEF Askers
  <2>. QED  BY <1>1, <2>1, <2>2, <2>3 DEF OneQuestion
<1>6. FlightOfPhase' /\ NotOpened' /\ cphase' \in ProtocolState
  BY <1>1 DEF FlightOfPhase, NotOpened, Flight, ProtocolState
<1>. QED  BY <1>1, <1>4, <1>5, <1>6 DEF PhaseInv

(* The client takes a packet, and goes on, answers, or neither.             *)
LEMMA PhaseReceives ==
  ASSUME PhaseInv, TypeOK', ClientReceives
  PROVE  PhaseInv'
<1>. DEFINE packet == Head(outbox)
<1>1. /\ framed /\ framed' /\ outbox # <<>> /\ outbox' = Tail(outbox)
      /\ UNCHANGED <<state_, socket_>>
  BY DEF ClientReceives, ClientTakes, session
<1>2. cphase' = CASE packet = "LoginSuccess"        -> "Configuration"
                  [] packet = "FinishConfiguration" -> "Play"
                  [] OTHER                          -> cphase
  BY DEF ClientReceives
<1>3. TypeOK /\ QueueLeads /\ FlightOfPhase /\ NotOpened /\ cphase \in ProtocolState
  BY <1>1 DEF PhaseInv
<1>4. /\ FlightOfPhase' /\ packet \in Clientbound /\ PhaseOf(packet) = cphase
      /\ packet \in Answered => outbox' = <<>>
      /\ cphase # "Handshake" /\ cphase' # "Handshake"
  BY <1>1, <1>2, <1>3, FlightTaken
<1>5. NotOpened' /\ cphase' \in ProtocolState
  BY <1>2, <1>3, <1>4 DEF NotOpened, ProtocolState
<1>6. Answers(packet)
  BY DEF ClientReceives
<1>. HIDE DEF packet
<1>7. CASE socket_ # "open"
  <2>1. toServer' = toServer
    BY <1>6, <1>7 DEF Answers, ClientSends
  <2>2. QueueLeads'
    BY <1>1, <1>3, <2>1 DEF QueueLeads, Unread
  <2>. QED  BY <1>1, <1>4, <1>5, <1>7, <2>2 DEF PhaseInv
<1>8. CASE socket_ = "open"
  <2>1. /\ QueueArrives /\ OneQuestion
        /\ \A i \in Unread : toServer[i].name \notin Askers \cup Changers
    BY <1>1, <1>8 DEF PhaseInv, OneQuestion
  <2>2. \A i \in Unread : toServer[i].name \notin Changers
    BY <2>1
  <2>3. toServer \in Seq(Message)
    BY <1>3 DEF QueueLeads
  <2>4. ASSUME NEW m \in Message, m.name \notin Changers, m.phase = cphase, cphase' = cphase,
               toServer' = toServer \o <<m>>, m.name \notin Askers \/ packet \in Answered
        PROVE  QueueLeads' /\ QueueArrives' /\ OneQuestion'
    <3>1. /\ toServer' \in Seq(Message) /\ Unread \subseteq Unread'
          /\ \A i \in Unread : toServer'[i] = toServer[i]
          /\ \A i \in Unread' : i \in Unread \/ (i > Len(toServer) /\ toServer'[i] = m)
          /\ \A i \in Unread' : i \in Unread \/ i = Len(toServer) + 1
      BY <2>3, <2>4, OneWritten
    <3>2. QueueLeads' /\ QueueArrives'
      BY <1>1, <1>3, <2>1, <2>4, <3>1, QueueWrite
    <3>3. OneQuestion'
      <4>1. \A i \in Unread' : toServer'[i].name \in Askers \cup Changers =>
              i = Len(toServer) + 1 /\ toServer'[i] = m
        BY <2>1, <3>1
      <4>. QED  BY <1>4, <2>4, <4>1 DEF OneQuestion
    <3>. QED  BY <3>2, <3>3
  <2>5. CASE packet = "LoginSuccess"
    <3>. DEFINE m == Sent("login_acknowledged", 1, cphase)
                c == Sent("client_information", 1, cphase')
    <3>0. toServer' = toServer \o (<<m>> \o <<c>>)
      BY <1>6, <1>8, <2>5 DEF Answers, ClientSends
    <3>1. cphase' = "Configuration" /\ cphase = "Login" /\ packet \in Answered
      BY <1>2, <1>4, <2>5 DEF Answered, PhaseOf, LoginPackets, StatusPackets, ConfigPackets
    <3>2. toServer' = toServer \o <<m, c>>
      BY <1>6, <1>8, <2>5 DEF Answers, ClientSends
    <3>3. /\ m \in Message /\ m.name = "login_acknowledged" /\ m.phase = cphase /\ cphase' = After(m)
          /\ c \in Message /\ c.name = "client_information" /\ c.phase = cphase'
      BY <3>1 DEF Message, Sent, After
    <3>. HIDE DEF m, c
    <3>4. /\ toServer' = toServer \o (<<m>> \o <<c>>) /\ <<c>> \in Seq(Message)
          /\ \A i \in 1 .. Len(<<c>>) : <<c>>[i].name \notin Changers /\ <<c>>[i].phase = After(m)
      <4>1. Len(<<c>>) = 1 /\ <<c>>[1] = c
        OBVIOUS
      <4>2. <<c>> \in Seq(Message)
        BY <3>3
      <4>. QED  BY <3>0, <3>3, <4>1, <4>2 DEF Changers
    <3>5. m.name \in Changers
      BY <3>3 DEF Changers
    <3>6. QueueLeads' /\ QueueArrives'
      BY <1>1, <1>3, <2>1, <2>2, <3>3, <3>4, <3>5, QueueChange
    <3>7. OneQuestion'
      <4>1. /\ \A i \in Unread' : i \in Unread \/ i = Len(toServer) + 1 \/ i = Len(toServer) + 2
            /\ \A i \in Unread : toServer'[i] = toServer[i]
            /\ toServer'[Len(toServer) + 2] = c
        BY <2>3, <3>2, <3>3 DEF Unread
      <4>2. c.name \notin Askers
        BY <3>3 DEF Askers
      <4>3. \A i \in Unread' : toServer'[i].name \in Askers => i = Len(toServer) + 1
        BY <2>1, <4>1, <4>2
      <4>. QED  BY <1>4, <3>1, <4>3 DEF OneQuestion
    <3>. QED  BY <1>1, <1>4, <1>5, <3>6, <3>7 DEF PhaseInv
  <2>6. CASE packet = "FinishConfiguration"
    <3>. DEFINE m == Sent("finish_configuration", 1, cphase)
    <3>1. cphase' = "Play" /\ cphase = "Configuration" /\ packet \in Answered
      BY <1>2, <1>4, <2>6 DEF Answered, PhaseOf, LoginPackets, StatusPackets, ConfigPackets
    <3>2. toServer' = toServer \o <<m>>
      BY <1>6, <1>8, <2>6 DEF Answers, ClientSends
    <3>3. /\ m \in Message /\ m.name = "finish_configuration"
          /\ m.phase = cphase /\ cphase' = After(m)
      BY <3>1 DEF Message, Sent, After
    <3>. HIDE DEF m
    <3>4. /\ toServer' = toServer \o (<<m>> \o <<>>) /\ <<>> \in Seq(Message) /\ Len(<<>>) = 0
      BY <3>2, <3>3
    <3>5. m.name \in Changers /\ (\A i \in 1 .. Len(<<>>) : FALSE)
      BY <3>3, <3>4 DEF Changers
    <3>6. QueueLeads' /\ QueueArrives'
      BY <1>1, <1>3, <2>1, <2>2, <3>3, <3>4, <3>5, QueueChange
    <3>7. OneQuestion'
      <4>1. /\ \A i \in Unread : toServer'[i] = toServer[i]
            /\ \A i \in Unread' : i \in Unread \/ i = Len(toServer) + 1
        BY <2>3, <3>2, <3>3, OneWritten
      <4>2. \A i \in Unread' : toServer'[i].name \in Askers => i = Len(toServer) + 1
        BY <2>1, <4>1
      <4>. QED  BY <1>4, <3>1, <4>2 DEF OneQuestion
    <3>. QED  BY <1>1, <1>4, <1>5, <3>6, <3>7 DEF PhaseInv
  <2>7. CASE packet \notin {"LoginSuccess", "FinishConfiguration"}
    <3>1. cphase' = cphase
      BY <1>2, <2>7
    <3>2. CASE packet = "StatusResponse"
      <4>1. cphase = "Status" /\ packet \in Answered
        BY <1>4, <3>2 DEF Answered, PhaseOf, LoginPackets, StatusPackets, ConfigPackets
      <4>2. toServer' = toServer \o <<Sent("ping_request", 1, "Status")>>
        BY <1>6, <1>8, <3>2, <4>1 DEF Answers, ClientSends
      <4>3. /\ Sent("ping_request", 1, "Status") \in Message
            /\ Sent("ping_request", 1, "Status").name \notin Changers
            /\ Sent("ping_request", 1, "Status").phase = cphase
        BY <4>1 DEF Message, Sent, Changers
      <4>. QED  BY <1>1, <1>4, <1>5, <2>4, <3>1, <4>1, <4>2, <4>3 DEF PhaseInv
    <3>3. CASE packet = "SelectKnownPacks"
      <4>1. cphase = "Configuration" /\ packet \in Answered
        BY <1>4, <3>3 DEF Answered, PhaseOf, LoginPackets, StatusPackets, ConfigPackets
      <4>2. toServer' = toServer \o <<Sent("select_known_packs", 1, "Configuration")>>
        BY <1>6, <1>8, <3>3, <4>1 DEF Answers, ClientSends
      <4>3. /\ Sent("select_known_packs", 1, "Configuration") \in Message
            /\ Sent("select_known_packs", 1, "Configuration").name \notin Changers
            /\ Sent("select_known_packs", 1, "Configuration").phase = cphase
        BY <4>1 DEF Message, Sent, Changers
      <4>. QED  BY <1>1, <1>4, <1>5, <2>4, <3>1, <4>1, <4>2, <4>3 DEF PhaseInv
    <3>4. ASSUME NEW name \in {"accept_teleportation", "keep_alive"},
                 packet \in {"PlayerPosition", "KeepAlive"},
                 ClientSends(<<Sent(name, 1, cphase)>>)
          PROVE  PhaseInv'
      <4>1. cphase = "Play"
        BY <1>4, <3>4 DEF PhaseOf, LoginPackets, StatusPackets, ConfigPackets
      <4>2. toServer' = toServer \o <<Sent(name, 1, "Play")>>
        BY <1>8, <3>4, <4>1 DEF ClientSends
      <4>3. /\ Sent(name, 1, "Play") \in Message
            /\ Sent(name, 1, "Play").name \notin Changers
            /\ Sent(name, 1, "Play").name \notin Askers
            /\ Sent(name, 1, "Play").phase = cphase
        BY <3>4, <4>1 DEF Message, Sent, Changers, Askers
      <4>. QED  BY <1>1, <1>4, <1>5, <2>4, <3>1, <4>1, <4>2, <4>3 DEF PhaseInv
    <3>5. CASE packet = "PlayerPosition"
      BY <1>6, <3>4, <3>5 DEF Answers
    <3>6. CASE packet = "KeepAlive"
      BY <1>6, <3>4, <3>6 DEF Answers
    <3>7. CASE packet \notin {"StatusResponse", "SelectKnownPacks", "PlayerPosition", "KeepAlive"}
      <4>1. toServer' = toServer
        BY <1>6, <2>7, <3>7 DEF Answers
      <4>2. QueueLeads' /\ QueueArrives' /\ OneQuestion'
        BY <1>1, <1>3, <2>1, <3>1, <4>1 DEF QueueLeads, QueueArrives, OneQuestion, Unread
      <4>. QED  BY <1>1, <1>4, <1>5, <4>2 DEF PhaseInv
    <3>. QED  BY <3>2, <3>3, <3>5, <3>6, <3>7
  <2>. QED  BY <2>5, <2>6, <2>7
<1>. QED  BY <1>7, <1>8

(* The player changes a setting. *)
LEMMA PhaseInforms ==
  ASSUME PhaseInv, TypeOK', ClientInformation
  PROVE  PhaseInv'
<1>. DEFINE m == Sent("client_information", 1, cphase)
<1>1. /\ framed /\ cphase \in {"Configuration", "Play"} /\ ClientSends(<<m>>)
      /\ UNCHANGED <<framed, cphase, state_, socket_, outbox>>
  BY DEF ClientInformation, vars
<1>2. m \in Message /\ m.name \notin Changers \cup Askers /\ m.phase = cphase
  BY <1>1 DEF Message, Sent, Changers, Askers
<1>. HIDE DEF m
<1>3. CASE toServer' = toServer
  BY <1>1, <1>3, PhaseUntouched DEF Closing
<1>4. CASE socket_ = "open" /\ toServer' = toServer \o <<m>>
  <2>1. QueueLeads /\ QueueArrives /\ OneQuestion /\ toServer \in Seq(Message)
    BY <1>1, <1>4 DEF PhaseInv, QueueLeads
  <2>2. /\ toServer' \in Seq(Message) /\ Unread \subseteq Unread'
        /\ \A i \in Unread : toServer'[i] = toServer[i]
        /\ \A i \in Unread' : i \in Unread \/ (i > Len(toServer) /\ toServer'[i] = m)
    BY <1>2, <1>4, <2>1, OneWritten
  <2>3. QueueLeads' /\ QueueArrives'
    BY <1>1, <1>2, <2>1, <2>2, QueueWrite
  <2>4. OneQuestion'
    <3>1. \A i \in Unread' : toServer'[i].name \in Askers \cup Changers =>
            i \in Unread /\ toServer'[i] = toServer[i]
      BY <1>2, <2>2
    <3>. QED  BY <1>1, <2>1, <3>1 DEF OneQuestion
  <2>5. FlightOfPhase' /\ NotOpened'
    BY <1>1 DEF PhaseInv, FlightOfPhase, NotOpened, Flight
  <2>. QED  BY <1>1, <2>3, <2>4, <2>5 DEF PhaseInv
<1>. QED  BY <1>1, <1>3, <1>4 DEF ClientSends

(* The server reads a packet, and answers what it asks.                     *)
LEMMA PhaseReads ==
  ASSUME PhaseInv, TypeOK', ServerReads
  PROVE  PhaseInv'
<1>. DEFINE m == Head(toServer)
<1>1. /\ framed /\ toServer # <<>> /\ toServer' = Tail(toServer)
      /\ ProcessPacket(Body(m))
      /\ UNCHANGED <<framed, cphase, socket_>>
  BY DEF ServerReads, ReadPacket, PhaseInv, client
<1>2. TypeOK /\ QueueLeads /\ FlightOfPhase /\ NotOpened /\ cphase \in ProtocolState
  BY <1>1 DEF PhaseInv
<1>3. m \in Message /\ m.phase = state_
  BY <1>1, <1>2, HeadInPhase
<1>4. /\ state_' = After(m)
      /\ m.name \in Askers => outbox' = outbox \/ Send(Reply(m))
      /\ m.name \notin Askers => outbox' = outbox
  BY <1>1, <1>2, <1>3, ReadInPhase
<1>5. QueueLeads' /\ (QueueArrives => QueueArrives')
  BY <1>1, <1>2, <1>4, QueueRead
<1>6. NotOpened' /\ cphase # "Handshake"
  BY <1>1, <1>2 DEF NotOpened
<1>7. /\ m = toServer[1] /\ 1 \in Unread
      /\ \A i \in Unread' : i \in Nat /\ i + 1 \in Unread /\ toServer'[i] = toServer[i + 1]
  BY <1>1, <1>2, TailOf DEF QueueLeads, Unread
<1>. HIDE DEF m
<1>8. CASE outbox' = outbox
  <2>1. FlightOfPhase'
    BY <1>1, <1>2, <1>8 DEF FlightOfPhase, Flight
  <2>2. OneQuestion => OneQuestion'
    <3>1. \A i, j \in Unread' : i + 1 = j + 1 => i = j
      BY <1>7
    <3>. QED  BY <1>7, <1>8, <3>1 DEF OneQuestion
  <2>. QED  BY <1>1, <1>2, <1>5, <1>6, <2>1, <2>2 DEF PhaseInv
<1>9. CASE outbox' # outbox
  <2>1. m.name \in Askers /\ socket_ = "open" /\ outbox' = outbox \o Reply(m)
    BY <1>4, <1>9 DEF Send
  <2>2. QueueArrives /\ OneQuestion /\ outbox = <<>>
    BY <1>1, <1>7, <2>1 DEF PhaseInv, OneQuestion
  <2>3. outbox' = Reply(m)
    <3>1. \A s \in Seq(Clientbound) : <<>> \o s = s
      OBVIOUS
    <3>. QED  BY <1>3, <2>1, <2>2, <3>1, ReplyFits
  <2>4. ASSUME NEW i \in Unread' PROVE toServer'[i].name \notin Askers \cup Changers
    <3>1. i + 1 # 1 /\ 1 =< i + 1 /\ i + 1 \in Unread /\ toServer'[i] = toServer[i + 1]
      BY <1>7 DEF Unread
    <3>2. toServer[i + 1].name \notin Askers
      BY <1>7, <2>1, <2>2, <3>1 DEF OneQuestion
    <3>3. toServer[i + 1].name # "intention"
      <4>1. SUFFICES ASSUME toServer[i + 1].name = "intention" PROVE FALSE
        OBVIOUS
      <4>2. toServer[i + 1] \in Message
        BY <1>2, <3>1 DEF QueueLeads, Unread
      <4>3. toServer[i + 1].phase = "Handshake"
        BY <4>1, <4>2 DEF Message, Sent
      <4>4. toServer[i + 1].phase = state_
        BY <1>2, <3>1, <4>1 DEF QueueLeads, Changers, Unread
      <4>. QED  BY <1>3, <2>1, <4>3, <4>4, ReplyFits
    <3>. QED  BY <3>1, <3>2, <3>3 DEF Askers, Changers
  <2>5. cphase' = state_'
    BY <1>5, <2>2, <2>4 DEF QueueArrives
  <2>6. FlightOfPhase'
    BY <1>3, <1>4, <2>1, <2>3, <2>5, ReplyFits DEF FlightOfPhase, Flight
  <2>7. OneQuestion'
    BY <2>4 DEF OneQuestion
  <2>. QED  BY <1>1, <1>2, <1>5, <1>6, <2>2, <2>6, <2>7 DEF PhaseInv
<1>. QED  BY <1>8, <1>9

(* The ticker writes to a client that is in PLAY. *)
LEMMA PhaseTicks ==
  ASSUME PhaseInv, TypeOK', Runs(KeepAliveTick)
  PROVE  PhaseInv'
<1>1. /\ UNCHANGED <<framed, cphase, toServer, state_, socket_>>
      /\ outbox' = outbox \/ (state_ = "Play" /\ socket_ = "open" /\ outbox' = outbox \o <<"KeepAlive">>)
  BY DEF Runs, KeepAliveTick, Send, client, session
<1>2. CASE ~framed
  BY <1>1, <1>2 DEF PhaseInv
<1>3. CASE outbox' = outbox
  BY <1>1, <1>3, PhaseUntouched DEF Closing
<1>4. CASE framed /\ state_ = "Play" /\ socket_ = "open" /\ outbox' = outbox \o <<"KeepAlive">>
  <2>1. QueueLeads /\ FlightOfPhase /\ NotOpened /\ QueueArrives /\ OneQuestion /\ TypeOK
    BY <1>4 DEF PhaseInv
  <2>2. \A i \in Unread : toServer[i].name \notin Changers
    <3>1. SUFFICES ASSUME NEW i \in Unread, toServer[i].name \in Changers PROVE FALSE
      OBVIOUS
    <3>2. toServer[i] \in Message /\ toServer[i].phase = state_
      BY <2>1, <3>1 DEF QueueLeads, Unread
    <3>. QED  BY <1>4, <3>1, <3>2 DEF Message, Sent, Changers
  <2>3. cphase = "Play" /\ \A i \in Unread : toServer[i].phase = "Play"
    BY <1>4, <2>1, <2>2 DEF QueueArrives, QueueLeads
  <2>4. \A i \in Unread : toServer[i].name \notin Askers
    <3>1. SUFFICES ASSUME NEW i \in Unread, toServer[i].name \in Askers PROVE FALSE
      OBVIOUS
    <3>2. toServer[i] \in Message
      BY <2>1 DEF QueueLeads, Unread
    <3>. QED  BY <2>3, <3>1, <3>2, ReplyFits
  <2>5. QueueLeads' /\ QueueArrives'
    BY <1>1, <2>1 DEF QueueLeads, QueueArrives, Unread
  <2>6. OneQuestion'
    BY <1>1, <2>2, <2>4 DEF OneQuestion, Unread
  <2>7. FlightOfPhase'
    <3>1. PhaseOf("KeepAlive") = "Play" /\ "KeepAlive" \notin Answered
      BY DEF PhaseOf, StatusPackets, LoginPackets, ConfigPackets, Answered
    <3>2. \A packet \in Answered : PhaseOf(packet) # "Play"
      BY DEF PhaseOf, StatusPackets, LoginPackets, ConfigPackets, Answered
    <3>3. \A i \in Flight' : (i \in Flight /\ outbox'[i] = outbox[i]) \/ outbox'[i] = "KeepAlive"
      BY <1>4, <2>1 DEF TypeOK, Flight
    <3>. QED  BY <1>1, <2>1, <2>3, <3>1, <3>2, <3>3 DEF FlightOfPhase
  <2>. QED  BY <1>1, <1>4, <2>1, <2>3, <2>5, <2>6, <2>7 DEF PhaseInv, NotOpened
<1>. QED  BY <1>1, <1>2, <1>3, <1>4

(* The connection ends: what is in flight may be lost from the end on.      *)
LEMMA PhaseEnds ==
  ASSUME PhaseInv, TypeOK', Runs(Close) \/ Runs(ClientLeaves)
  PROVE  PhaseInv'
<1>1. /\ UNCHANGED <<framed, cphase, toServer, state_>> /\ socket_' = "closed"
      /\ \E n \in 0 .. Len(outbox) : outbox' = SubSeq(outbox, 1, n)
  <2>1. CASE Runs(Close)
    BY <2>1 DEF Runs, Close, client, session
  <2>2. CASE Runs(ClientLeaves)
    <3>1. outbox' = SubSeq(outbox, 1, 0) /\ 0 \in 0 .. Len(outbox)
      BY <2>2 DEF Runs, ClientLeaves, PhaseInv, TypeOK
    <3>. QED  BY <2>2, <3>1 DEF Runs, ClientLeaves, client, session
  <2>. QED  BY <2>1, <2>2
<1>2. PICK n \in 0 .. Len(outbox) : outbox' = SubSeq(outbox, 1, n)
  BY <1>1
<1>3. /\ Len(outbox') = n /\ n =< Len(outbox) /\ Len(outbox) \in Nat /\ n \in Nat
      /\ \A i \in Flight' : i \in Flight /\ outbox'[i] = outbox[i] /\ i =< n /\ i \in Nat
  BY <1>2 DEF PhaseInv, TypeOK, Flight
<1>4. CASE framed
  <2>1. FlightOfPhase'
    <3>1. SUFFICES ASSUME NEW i \in Flight'
                   PROVE  PhaseOf(outbox'[i]) = cphase' /\ (outbox'[i] \in Answered => i = Len(outbox'))
      BY DEF FlightOfPhase
    <3>2. PhaseOf(outbox[i]) = cphase /\ (outbox[i] \in Answered => i = Len(outbox))
      BY <1>3, <1>4 DEF PhaseInv, FlightOfPhase
    <3>3. cphase' = cphase
      BY <1>1
    <3>4. i = Len(outbox) => i = n
      BY <1>3
    <3>. QED  BY <1>3, <3>2, <3>3, <3>4, Zenon
  <2>2. NotOpened' /\ QueueLeads'
    <3>1. outbox = <<>> => outbox' = <<>>
      BY <1>2 DEF PhaseInv, TypeOK
    <3>. QED  BY <1>1, <1>4, <3>1 DEF PhaseInv, NotOpened, QueueLeads, Unread
  <2>. QED  BY <1>1, <1>4, <2>1, <2>2 DEF PhaseInv
<1>5. CASE ~framed
  BY <1>1, <1>5 DEF PhaseInv
<1>. QED  BY <1>4, <1>5 DEF PhaseInv

(* Every step of the session keeps the two ends together.                   *)
LEMMA PhaseStep == PhaseInv /\ [JoinNext]_jvars => PhaseInv'
<1>. SUFFICES ASSUME PhaseInv, [JoinNext]_jvars PROVE PhaseInv'
  OBVIOUS
<1>t. TypeOK'
  BY StepOfConnection, NextType DEF PhaseInv
<1>1. ASSUME NEW intent \in {1, 2}, ClientOpens(intent) PROVE PhaseInv'
  BY <1>t, <1>1, PhaseOpens
<1>2. CASE ClientReceives
  BY <1>t, <1>2, PhaseReceives
<1>3. CASE ClientInformation
  BY <1>t, <1>3, PhaseInforms
<1>4. CASE ServerReads
  BY <1>t, <1>4, PhaseReads
<1>5. CASE ServerReadFails
  BY <1>t, <1>5, PhaseUntouched DEF ServerReadFails, ReadFails, client, session, Closing
<1>6. CASE AnyClient
  <2>1. ~framed /\ UNCHANGED <<framed, cphase, toServer>>
    BY <1>6 DEF AnyClient, client
  <2>. QED  BY <1>t, <2>1 DEF PhaseInv
<1>7. CASE Runs(Timers)
  <2>1. CASE Runs(KeepAliveTick)
    BY <1>t, <2>1, PhaseTicks
  <2>2. CASE Runs(KeepAliveExpires) \/ Runs(KeepAliveAborted)
    BY <1>t, <2>2, PhaseUntouched DEF Runs, KeepAliveExpires, KeepAliveAborted, client, session, Closing
  <2>3. CASE Runs(TeleportExpires) \/ Runs(TeleportDone)
    BY <1>t, <2>3, PhaseUntouched DEF Runs, TeleportExpires, TeleportDone, client, session, Closing
  <2>. QED  BY <1>7, <2>1, <2>2, <2>3 DEF Runs, Timers
<1>8. CASE Runs(Close) \/ Runs(ClientLeaves)
  BY <1>t, <1>8, PhaseEnds
<1>9. CASE UNCHANGED jvars
  BY <1>t, <1>9, PhaseUntouched DEF jvars, vars, Closing
<1>10. CASE FrameLost \/ LengthCut
  BY <1>t, <1>10, FramingEnds DEF PhaseInv
<1>. QED
  BY <1>1, <1>2, <1>3, <1>4, <1>5, <1>6, <1>7, <1>8, <1>9, <1>10 DEF JoinNext

LEMMA PhaseStart == JoinInit => PhaseInv
<1>. SUFFICES ASSUME JoinInit PROVE PhaseInv
  OBVIOUS
<1>1. TypeOK
  BY InitType DEF JoinInit
<1>2. toServer = <<>> /\ outbox = <<>> /\ Unread = {} /\ Flight = {}
  BY DEF JoinInit, Init, Unread, Flight
<1>. QED
  BY <1>1, <1>2 DEF JoinInit, Init, PhaseInv, ProtocolState, QueueLeads, FlightOfPhase, NotOpened,
     QueueArrives, OneQuestion

-------------------------------------------------------------------------------
(* A spawned player stands in the world. *)
WorldSafe == PhaseInv /\ SpawnedIsConfirmed /\ WorldInv

LEMMA WorldUntouched ==
  ASSUME WorldSafe, UNCHANGED <<framed, toServer, state_, player_lifecycle_, outbox>>
  PROVE  WorldInv'
BY DEF WorldSafe, WorldInv, Confirms, Unread, Flight

(* Nothing is in flight in front of what is taken from the end.             *)
LEMMA WorldCut ==
  ASSUME WorldSafe, UNCHANGED <<framed, toServer, state_, player_lifecycle_>>,
         NEW d \in Nat, Flight' \subseteq Nat,
         \A i \in Flight' : i + d \in Flight /\ outbox'[i] = outbox[i + d]
  PROVE  WorldInv'
<1>. SUFFICES ASSUME framed
              PROVE  /\ Confirms' => state_' = "Play" /\ \A i \in Flight' : outbox'[i] \in Settled
                     /\ \A i, j \in Flight' :
                          i < j /\ outbox'[i] = "PlayerPosition" => outbox'[j] \in Settled
  BY DEF WorldInv
<1>1. Confirms' => Confirms
  BY DEF Confirms, Unread
<1>2. \A i, j \in Nat : i < j => i + d < j + d
  OBVIOUS
<1>. QED  BY <1>1, <1>2 DEF WorldSafe, WorldInv

(* The client takes a packet; if it is the position, it confirms.           *)
LEMMA WorldReceives ==
  ASSUME WorldSafe, ClientReceives
  PROVE  WorldInv'
<1>. DEFINE packet == Head(outbox)
<1>1. /\ framed /\ outbox # <<>> /\ outbox' = Tail(outbox)
      /\ UNCHANGED <<state_, player_lifecycle_, socket_, framed>>
  BY DEF ClientReceives, ClientTakes, session
<1>2. /\ packet = outbox[1] /\ 1 \in Flight /\ Flight' \subseteq Nat
      /\ \A i \in Flight' : i + 1 \in Flight /\ outbox'[i] = outbox[i + 1] /\ 1 < i + 1
  BY <1>1, TailOf DEF WorldSafe, PhaseInv, TypeOK, Flight
<1>3. /\ toServer \in Seq(Message) /\ PhaseOf(packet) = cphase
      /\ socket_ = "open" => QueueArrives /\ OneQuestion
  BY <1>1, <1>2 DEF WorldSafe, PhaseInv, QueueLeads, FlightOfPhase
<1>4. Answers(packet)
  BY DEF ClientReceives
<1>5. \A i, j \in Flight' :
        i < j /\ outbox'[i] = "PlayerPosition" => outbox'[j] \in Settled
  <2>1. \A i, j \in Flight' : i < j => i + 1 < j + 1
    BY <1>2
  <2>. QED  BY <1>1, <1>2, <2>1 DEF WorldSafe, WorldInv
<1>6. CASE Confirms
  <2>1. state_ = "Play" /\ \A i \in Flight : outbox[i] \in Settled
    BY <1>1, <1>6 DEF WorldSafe, WorldInv
  <2>. QED  BY <1>1, <1>2, <1>5, <2>1 DEF WorldInv
<1>. HIDE DEF packet
<1>7. CASE ~Confirms /\ packet = "PlayerPosition" /\ socket_ = "open"
  <2>1. \A i \in Flight' : outbox'[i] \in Settled
    BY <1>1, <1>2, <1>7 DEF WorldSafe, WorldInv
  <2>2. cphase = "Play"
    BY <1>3, <1>7 DEF PhaseOf, StatusPackets, LoginPackets, ConfigPackets
  <2>3. state_ = "Play"
    BY <1>1, <1>3, <1>7, <2>2 DEF OneQuestion, QueueArrives
  <2>. QED  BY <1>1, <1>5, <2>1, <2>3 DEF WorldInv
<1>8. CASE ~Confirms /\ ~(packet = "PlayerPosition" /\ socket_ = "open")
  <2>1. ASSUME NEW i \in Unread'
        PROVE  toServer'[i].name # "accept_teleportation"
    <3>1. CASE toServer' = toServer
      BY <1>8, <2>1, <3>1 DEF Confirms, Unread
    <3>2. ASSUME NEW name \in {"ping_request", "select_known_packs", "finish_configuration",
                               "keep_alive"},
                 toServer' = toServer \o <<Sent(name, 1, cphase)>>
          PROVE  toServer'[i].name # "accept_teleportation"
      <4>1. \/ i \in Unread /\ toServer'[i] = toServer[i]
            \/ toServer'[i] = Sent(name, 1, cphase)
        BY <1>3, <2>1, <3>2 DEF Unread
      <4>2. Sent(name, 1, cphase).name # "accept_teleportation"
        BY <3>2 DEF Sent
      <4>. QED  BY <1>8, <4>1, <4>2 DEF Confirms
    <3>3. ASSUME toServer' = toServer \o <<Sent("login_acknowledged", 1, cphase),
                                           Sent("client_information", 1, cphase')>>
          PROVE  toServer'[i].name # "accept_teleportation"
      <4>1. \/ i \in Unread /\ toServer'[i] = toServer[i]
            \/ toServer'[i] = Sent("login_acknowledged", 1, cphase)
            \/ toServer'[i] = Sent("client_information", 1, cphase')
        BY <1>3, <2>1, <3>3 DEF Unread
      <4>2. /\ Sent("login_acknowledged", 1, cphase).name # "accept_teleportation"
            /\ Sent("client_information", 1, cphase').name # "accept_teleportation"
        BY DEF Sent
      <4>. QED  BY <1>8, <4>1, <4>2 DEF Confirms
    <3>. QED  BY <1>4, <1>8, <3>1, <3>2, <3>3 DEF Answers, ClientSends
  <2>2. ~Confirms'
    BY <1>1, <1>8, <2>1 DEF Confirms
  <2>. QED  BY <1>5, <2>2 DEF WorldInv
<1>. QED  BY <1>6, <1>7, <1>8

(* The server reads a packet: a confirmation came after the position, and   *)
(* the join sequence is written before there is one.                        *)
LEMMA WorldReads ==
  ASSUME WorldSafe, ServerReads
  PROVE  WorldInv'
<1>. DEFINE m == Head(toServer)
<1>1. /\ framed /\ toServer # <<>> /\ toServer' = Tail(toServer)
      /\ ProcessPacket(Body(m))
      /\ UNCHANGED <<framed, cphase, socket_>>
  BY DEF ServerReads, ReadPacket, WorldSafe, PhaseInv, client
<1>2. TypeOK /\ QueueLeads
  BY <1>1 DEF WorldSafe, PhaseInv
<1>3. m \in Message /\ m.phase = state_
  BY <1>1, <1>2, HeadInPhase
<1>4. /\ state_' = After(m)
      /\ m.name \in Askers => outbox' = outbox \/ Send(Reply(m))
      /\ m.name \notin Askers => outbox' = outbox
      /\ player_lifecycle_' = player_lifecycle_ \/ m.name = "accept_teleportation"
  BY <1>1, <1>2, <1>3, ReadInPhase
<1>5. /\ m = toServer[1] /\ 1 \in Unread
      /\ \A i \in Unread' : i + 1 \in Unread /\ toServer'[i] = toServer[i + 1]
  BY <1>1, <1>2, TailOf DEF QueueLeads, Unread
<1>. HIDE DEF m
<1>6. Confirms' => Confirms
  BY <1>4, <1>5 DEF Confirms
<1>7. Confirms => state_ = "Play" /\ state_' = "Play"
  <2>1. Confirms => state_ = "Play"
    BY <1>1 DEF WorldSafe, WorldInv
  <2>2. state_ = "Play" => state_' = "Play"
    BY <1>3, <1>4 DEF Message, Sent, After
  <2>. QED  BY <2>1, <2>2
<1>8. CASE outbox' = outbox
  BY <1>1, <1>6, <1>7, <1>8 DEF WorldSafe, WorldInv, Flight
<1>9. CASE outbox' # outbox
  <2>1. m.name \in Askers /\ socket_ = "open" /\ outbox' = outbox \o Reply(m)
    BY <1>4, <1>9 DEF Send
  <2>2. outbox = <<>> /\ ~Confirms
    <3>1. outbox = <<>>
      BY <1>1, <1>5, <2>1 DEF WorldSafe, PhaseInv, OneQuestion
    <3>2. state_ # "Play"
      BY <1>3, <2>1, ReplyFits
    <3>. QED  BY <1>7, <3>1, <3>2
  <2>3. outbox' = Reply(m)
    <3>1. \A s \in Seq(Clientbound) : <<>> \o s = s
      OBVIOUS
    <3>. QED  BY <1>3, <2>1, <2>2, <3>1, ReplyFits
  <2>4. \A i, j \in 1 .. Len(Reply(m)) :
          i < j /\ Reply(m)[i] = "PlayerPosition" => Reply(m)[j] \in Settled
    <3>1. CASE m.name = "finish_configuration"
      BY <3>1 DEF Reply, JoinSequence, Settled
    <3>2. CASE m.name = "select_known_packs"
      <4>1. \A i \in 1 .. Len(ConfigurationBurst) : ConfigurationBurst[i] # "PlayerPosition"
        BY RegistriesAssumption DEF ConfigurationBurst
      <4>. QED  BY <3>2, <4>1 DEF Reply
    <3>3. CASE m.name \notin {"finish_configuration", "select_known_packs"}
      <4>1. Len(Reply(m)) = 1
        BY <2>1, <3>3 DEF Reply, Askers
      <4>. QED  BY <4>1
    <3>. QED  BY <3>1, <3>2, <3>3
  <2>5. ~Confirms'
    BY <1>6, <2>2
  <2>. QED  BY <2>3, <2>4, <2>5 DEF WorldInv, Flight
<1>. QED  BY <1>8, <1>9

(* A keep-alive settles nothing, and unsettles nothing. *)
LEMMA WorldTicks ==
  ASSUME WorldSafe, Runs(KeepAliveTick)
  PROVE  WorldInv'
<1>1. /\ UNCHANGED <<framed, toServer, state_, player_lifecycle_>>
      /\ outbox' = outbox \/ outbox' = outbox \o <<"KeepAlive">>
  BY DEF Runs, KeepAliveTick, Send, client, session
<1>2. CASE outbox' = outbox
  BY <1>1, <1>2, WorldUntouched
<1>3. CASE outbox' = outbox \o <<"KeepAlive">>
  <2>1. /\ Flight \subseteq Flight' /\ Flight' \subseteq Nat
        /\ \A i \in Flight' : (i \in Flight /\ outbox'[i] = outbox[i]) \/ outbox'[i] \in Settled
        /\ \A i \in Flight', j \in Flight : i < j => i \in Flight
    BY <1>3 DEF WorldSafe, PhaseInv, TypeOK, Flight, Settled
  <2>2. Confirms' = Confirms
    BY <1>1 DEF Confirms, Unread
  <2>3. framed =>
          /\ Confirms' => state_' = "Play" /\ \A i \in Flight' : outbox'[i] \in Settled
          /\ \A i, j \in Flight' :
               i < j /\ outbox'[i] = "PlayerPosition" => outbox'[j] \in Settled
    <3>1. \A i \in Flight' : outbox'[i] = "PlayerPosition" => i \in Flight /\ outbox[i] = outbox'[i]
      BY <2>1 DEF Settled
    <3>. QED  BY <1>1, <2>1, <2>2, <3>1 DEF WorldSafe, WorldInv
  <2>. QED  BY <1>1, <2>3 DEF WorldInv
<1>. QED  BY <1>1, <1>2, <1>3

(* Every step keeps the world in front of the player. *)
LEMMA WorldStep == WorldSafe /\ [JoinNext]_jvars => WorldSafe'
<1>. SUFFICES ASSUME WorldSafe, [JoinNext]_jvars PROVE WorldSafe'
  OBVIOUS
<1>0. PhaseInv' /\ SpawnedIsConfirmed' /\ [Next]_vars
  BY PhaseStep, StepOfConnection, SpawnStep DEF WorldSafe, PhaseInv, SpawnInv
<1>. SUFFICES WorldInv'
  BY <1>0 DEF WorldSafe
<1>1. ASSUME NEW intent \in {1, 2}, ClientOpens(intent) PROVE WorldInv'
  <2>1. /\ framed /\ cphase = "Handshake" /\ toServer = <<>> /\ outbox = <<>>
        /\ outbox' = outbox /\ player_lifecycle_' = player_lifecycle_ /\ socket_ = "open"
        /\ state_ = "Handshake"
    BY <1>1 DEF ClientOpens, WorldSafe, PhaseInv, NotOpened, vars
  <2>2. player_lifecycle_ # "SPAWNED_AND_READY"
    BY <2>1 DEF WorldSafe, SpawnedIsConfirmed
  <2>3. outbox' = <<>> /\ Flight' = {}
    BY <2>1 DEF Flight
  <2>4. toServer' = <<Sent("intention", intent, cphase),
                      Sent(IF intent = 1 THEN "status_request" ELSE "hello", 1, cphase')>>
    BY <1>1, <2>1 DEF ClientOpens, ClientSends
  <2>5. \A i \in Unread' : toServer'[i].name # "accept_teleportation"
    BY <2>4 DEF Unread, Sent
  <2>. QED  BY <2>1, <2>2, <2>3, <2>5 DEF WorldInv, Confirms
<1>2. CASE ClientReceives
  BY <1>2, WorldReceives
<1>3. CASE ClientInformation
  <2>. DEFINE m == Sent("client_information", 1, cphase)
  <2>1. /\ framed /\ UNCHANGED <<framed, state_, player_lifecycle_, outbox>>
        /\ ClientSends(<<m>>) /\ m.name # "accept_teleportation"
    BY <1>3 DEF ClientInformation, vars, Sent
  <2>. HIDE DEF m
  <2>2. toServer \in Seq(Message)
    BY <2>1 DEF WorldSafe, PhaseInv, QueueLeads
  <2>3. \A i \in Unread' : (i \in Unread /\ toServer'[i] = toServer[i]) \/ toServer'[i] = m
    BY <2>1, <2>2 DEF ClientSends, Unread
  <2>4. Confirms' => Confirms
    BY <2>1, <2>3 DEF Confirms
  <2>. QED  BY <2>1, <2>4 DEF WorldSafe, WorldInv, Flight
<1>4. CASE ServerReads
  BY <1>4, WorldReads
<1>5. CASE ServerReadFails
  BY <1>5, WorldUntouched DEF ServerReadFails, ReadFails, client, session
<1>6. CASE AnyClient
  BY <1>6 DEF AnyClient, client, WorldInv
<1>7. CASE Runs(Timers)
  <2>1. CASE Runs(KeepAliveTick)
    BY <2>1, WorldTicks
  <2>2. CASE Runs(KeepAliveExpires) \/ Runs(KeepAliveAborted)
    BY <2>2, WorldUntouched DEF Runs, KeepAliveExpires, KeepAliveAborted, client, session
  <2>3. CASE Runs(TeleportExpires) \/ Runs(TeleportDone)
    BY <2>3, WorldUntouched DEF Runs, TeleportExpires, TeleportDone, client, session
  <2>. QED  BY <1>7, <2>1, <2>2, <2>3 DEF Runs, Timers
<1>8. CASE Runs(Close)
  <2>1. PICK n \in 0 .. Len(outbox) : outbox' = SubSeq(outbox, 1, n)
    BY <1>8 DEF Runs, Close
  <2>2. /\ Flight' \subseteq Nat
        /\ \A i \in Flight' : i + 0 \in Flight /\ outbox'[i] = outbox[i + 0]
    BY <2>1 DEF WorldSafe, PhaseInv, TypeOK, Flight
  <2>3. UNCHANGED <<framed, toServer, state_, player_lifecycle_>>
    BY <1>8 DEF Runs, Close, client, session
  <2>. QED  BY <2>2, <2>3, WorldCut
<1>9. CASE Runs(ClientLeaves)
  <2>1. /\ Flight' = {} /\ UNCHANGED <<framed, toServer, state_, player_lifecycle_>>
    BY <1>9 DEF Runs, ClientLeaves, client, session, Flight
  <2>. QED  BY <2>1 DEF WorldSafe, WorldInv, Confirms, Unread
<1>10. CASE UNCHANGED jvars
  BY <1>10, WorldUntouched DEF jvars, vars
<1>11. CASE FrameLost \/ LengthCut
  BY <1>11, FramingEnds DEF WorldInv
<1>. QED
  BY <1>1, <1>2, <1>3, <1>4, <1>5, <1>6, <1>7, <1>8, <1>9, <1>10, <1>11 DEF JoinNext, Runs

LEMMA WorldStart == JoinInit => WorldSafe
<1>. SUFFICES ASSUME JoinInit PROVE WorldSafe
  OBVIOUS
<1>1. PhaseInv
  BY PhaseStart
<1>2. Unread = {} /\ Flight = {} /\ player_lifecycle_ = "JOINING"
  BY DEF JoinInit, Init, Unread, Flight
<1>. QED  BY <1>1, <1>2 DEF WorldSafe, SpawnedIsConfirmed, WorldInv, Confirms

-------------------------------------------------------------------------------
(* What was sent of the registries, and what is still to come.              *)
Burst == {"UpdateEnabledFeatures", "RegistryData", "UpdateTags", "FinishConfiguration"}

Taken == IF outbox # <<>> /\ outbox[1] = "UpdateEnabledFeatures" THEN 0 ELSE 1 + registries

(* The burst may still be asked for. *)
Before ==
  \/ cphase \in {"Handshake", "Login"}
  \/ \E i \in Flight : outbox[i] = "SelectKnownPacks"
  \/ \E i \in Unread : toServer[i].name \in {"login_acknowledged", "select_known_packs"}

BurstInv ==
  /\ infos \in 0 .. MaxInfos /\ registries \in 0 .. Registries /\ ponged \in BOOLEAN
  /\ framed =>
       /\ Before => registries = 0 /\ \A i \in Flight : outbox[i] \notin Burst
       /\ cphase = "Play" => registries = Registries
       /\ \A i \in Flight :
            /\ outbox[i] = "RegistryData" => i + Taken =< Registries + 1
            /\ outbox[i] = "UpdateTags" => i + Taken = Registries + 2
            /\ outbox[i] = "UpdateEnabledFeatures" => registries = 0 /\ i = 1
            /\ outbox[i] = "FinishConfiguration" =>
                 \/ registries = Registries
                 \/ \E j \in Flight : j < i /\ outbox[j] = "UpdateTags"

BurstSafe == PhaseInv /\ BurstInv

LEMMA BurstUntouched ==
  ASSUME BurstSafe, UNCHANGED <<framed, cphase, toServer, infos, registries, ponged, outbox>>
  PROVE  BurstInv'
BY DEF BurstSafe, BurstInv, Before, Taken, Unread, Flight

(* The packets in flight, some of them lost from the end on. *)
LEMMA BurstCut ==
  ASSUME BurstSafe, UNCHANGED <<framed, cphase, toServer, infos, registries, ponged>>,
         NEW n \in 0 .. Len(outbox), outbox' = SubSeq(outbox, 1, n)
  PROVE  BurstInv'
<1>1. /\ Flight' \subseteq Flight /\ \A i \in Flight' : outbox'[i] = outbox[i]
      /\ \A i \in Flight', j \in Flight : j < i => j \in Flight'
      /\ \A i \in Flight' : 1 \in Flight' /\ outbox # <<>> /\ outbox' # <<>>
  BY DEF BurstSafe, PhaseInv, TypeOK, Flight
<1>2. \A i \in Flight' : Taken' = Taken
  BY <1>1 DEF Taken
<1>3. Before' => Before
  BY <1>1 DEF Before, Unread
<1>4. CASE framed
  <2>1. ASSUME NEW i \in Flight'
        PROVE  /\ outbox'[i] = "RegistryData" => i + Taken' =< Registries + 1
               /\ outbox'[i] = "UpdateTags" => i + Taken' = Registries + 2
               /\ outbox'[i] = "UpdateEnabledFeatures" => registries' = 0 /\ i = 1
               /\ outbox'[i] = "FinishConfiguration" =>
                    \/ registries' = Registries
                    \/ \E j \in Flight' : j < i /\ outbox'[j] = "UpdateTags"
    <3>1. i \in Flight /\ outbox'[i] = outbox[i] /\ Taken' = Taken /\ registries' = registries
      BY <1>1, <1>2
    <3>2. ASSUME NEW j \in Flight, j < i, outbox[j] = "UpdateTags"
          PROVE  \E k \in Flight' : k < i /\ outbox'[k] = "UpdateTags"
      BY <1>1, <3>2
    <3>. QED  BY <1>4, <3>1, <3>2 DEF BurstSafe, BurstInv
  <2>2. Before' => registries' = 0 /\ \A i \in Flight' : outbox'[i] \notin Burst
    BY <1>1, <1>3, <1>4 DEF BurstSafe, BurstInv
  <2>. QED  BY <1>4, <2>1, <2>2 DEF BurstSafe, BurstInv
<1>5. CASE ~framed
  BY <1>5 DEF BurstSafe, BurstInv
<1>. QED  BY <1>4, <1>5 DEF BurstSafe, PhaseInv

(* The client takes a packet of the burst, or goes on.                      *)
LEMMA BurstReceives ==
  ASSUME BurstSafe, ClientReceives
  PROVE  BurstInv'
<1>. DEFINE packet == Head(outbox)
<1>1. /\ framed /\ framed' = framed /\ outbox # <<>> /\ outbox' = Tail(outbox)
      /\ UNCHANGED <<infos, socket_>>
      /\ registries' = registries + (IF packet = "RegistryData" THEN 1 ELSE 0)
      /\ ponged' \in BOOLEAN
  BY DEF ClientReceives, ClientTakes, BurstSafe, BurstInv
<1>2. /\ packet = outbox[1] /\ 1 \in Flight /\ packet \in Clientbound
      /\ Flight \subseteq Nat \ {0}
      /\ \A i \in Flight' : i + 1 \in Flight /\ outbox'[i] = outbox[i + 1] /\ i \in Nat \ {0}
      /\ \A i \in Flight : i = 1 \/ i - 1 \in Flight'
  BY <1>1, TailOf DEF BurstSafe, PhaseInv, TypeOK, Flight
<1>3. cphase' = CASE packet = "LoginSuccess"        -> "Configuration"
                  [] packet = "FinishConfiguration" -> "Play"
                  [] OTHER                          -> cphase
  BY DEF ClientReceives
<1>4. /\ PhaseOf(packet) = cphase /\ cphase # "Handshake"
      /\ packet \in Answered => outbox' = <<>>
      /\ toServer \in Seq(Message) /\ cphase \in ProtocolState
  BY <1>1, <1>3, FlightTaken DEF BurstSafe, PhaseInv, QueueLeads
<1>5. Answers(packet)
  BY DEF ClientReceives
<1>6. registries \in 0 .. Registries /\ infos \in 0 .. MaxInfos /\ RegistriesAssumption
  BY RegistriesAssumption DEF BurstSafe, BurstInv
<1>. HIDE DEF packet
<1>7. Before' => Before
  <2>1. SUFFICES ASSUME ~Before, NEW i \in Unread',
                        toServer'[i].name \in {"login_acknowledged", "select_known_packs"}
                 PROVE  FALSE
    <3>1. cphase' \in {"Handshake", "Login"} => cphase \in {"Handshake", "Login"}
      BY <1>3
    <3>2. (\E i \in Flight' : outbox'[i] = "SelectKnownPacks") => Before
      BY <1>2 DEF Before
    <3>. QED  BY <3>1, <3>2 DEF Before
  <2>2. packet \notin {"LoginSuccess", "SelectKnownPacks"}
    <3>1. packet = "LoginSuccess" => cphase = "Login"
      BY <1>4 DEF PhaseOf, StatusPackets, LoginPackets, ConfigPackets
    <3>. QED  BY <1>2, <2>1, <3>1 DEF Before
  <2>3. ASSUME NEW name, name \notin {"login_acknowledged", "select_known_packs"},
               toServer' = toServer \o <<Sent(name, 1, cphase)>>
        PROVE  FALSE
    <3>1. \/ i \in Unread /\ toServer'[i] = toServer[i]
          \/ toServer'[i] = Sent(name, 1, cphase)
      BY <1>4, <2>1, <2>3 DEF Unread
    <3>2. Sent(name, 1, cphase).name = name
      BY DEF Sent
    <3>3. \A j \in Unread : toServer[j].name \notin {"login_acknowledged", "select_known_packs"}
      BY <2>1 DEF Before
    <3>. QED  BY <2>1, <2>3, <3>1, <3>2, <3>3
  <2>4. CASE toServer' = toServer
    BY <2>1, <2>4 DEF Before, Unread
  <2>. QED  BY <1>5, <2>2, <2>3, <2>4 DEF Answers, ClientSends
<1>8. CASE packet \in Burst
  <2>1. /\ ~Before /\ ~Before'
    BY <1>1, <1>2, <1>7, <1>8 DEF BurstSafe, BurstInv
  <2>2. /\ packet = "RegistryData" => 1 + (1 + registries) =< Registries + 1
        /\ packet = "UpdateTags" => 1 + (1 + registries) = Registries + 2
        /\ packet = "UpdateEnabledFeatures" => registries = 0
    BY <1>1, <1>2 DEF BurstSafe, BurstInv, Taken
  <2>3. registries' \in 0 .. Registries
    BY <1>1, <1>6, <2>2
  <2>4. cphase' = "Play" => registries' = Registries
    <3>1. CASE packet = "FinishConfiguration"
      <4>1. ~ \E j \in Flight : j < 1
        BY <1>2
      <4>2. \/ registries = Registries
            \/ \E j \in Flight : j < 1 /\ outbox[j] = "UpdateTags"
        BY <1>1, <1>2, <3>1 DEF BurstSafe, BurstInv
      <4>. QED  BY <1>1, <1>6, <3>1, <4>1, <4>2
    <3>2. CASE packet # "FinishConfiguration"
      <4>1. cphase = "Configuration"
        BY <1>4, <1>8 DEF Burst, PhaseOf, StatusPackets, LoginPackets, ConfigPackets
      <4>. QED  BY <1>3, <1>8, <3>2, <4>1 DEF Burst
    <3>. QED  BY <3>1, <3>2
  <2>5. ASSUME NEW i \in Flight'
        PROVE  /\ outbox'[i] = "RegistryData" => i + Taken' =< Registries + 1
               /\ outbox'[i] = "UpdateTags" => i + Taken' = Registries + 2
               /\ outbox'[i] = "UpdateEnabledFeatures" => registries' = 0 /\ i = 1
               /\ outbox'[i] = "FinishConfiguration" =>
                    \/ registries' = Registries
                    \/ \E j \in Flight' : j < i /\ outbox'[j] = "UpdateTags"
    <3>0. i + 1 \in Flight /\ outbox'[i] = outbox[i + 1] /\ i \in Nat \ {0} /\ 1 \in Flight'
      BY <1>2, <2>5 DEF Flight
    <3>1. /\ outbox[i + 1] = "RegistryData" => (i + 1) + Taken =< Registries + 1
          /\ outbox[i + 1] = "UpdateTags" => (i + 1) + Taken = Registries + 2
          /\ outbox[i + 1] = "UpdateEnabledFeatures" => i + 1 = 1
          /\ outbox[i + 1] = "FinishConfiguration" =>
               \/ registries = Registries
               \/ \E j \in Flight : j < i + 1 /\ outbox[j] = "UpdateTags"
      BY <1>1, <3>0 DEF BurstSafe, BurstInv
    <3>2. outbox'[1] # "UpdateEnabledFeatures"
      <4>1. 1 + 1 \in Flight /\ outbox'[1] = outbox[1 + 1]
        BY <1>2, <3>0
      <4>2. \A j \in Flight : outbox[j] = "UpdateEnabledFeatures" => j = 1
        BY <1>1 DEF BurstSafe, BurstInv
      <4>3. 1 + 1 # 1
        OBVIOUS
      <4>. QED  BY <4>1, <4>2, <4>3
    <3>3. Taken' = 1 + registries'
      BY <3>2 DEF Taken
    <3>4. packet = "UpdateEnabledFeatures" => Taken = 0 /\ registries' = 0 /\ Taken' = 1
      BY <1>1, <1>2, <2>2, <3>3 DEF Taken
    <3>5. packet # "UpdateEnabledFeatures" => Taken = 1 + registries /\ Taken' >= Taken
                                               /\ Taken' =< Taken + 1
      BY <1>1, <1>2, <1>6, <3>3 DEF Taken
    <3>6. packet = "RegistryData" => Taken' = Taken + 1
      BY <1>1, <1>2, <1>6, <3>3, <3>5 DEF Taken
    <3>7. CASE packet \in {"UpdateEnabledFeatures", "RegistryData"}
      <4>1. /\ Taken' = Taken + 1 /\ Taken \in Nat
            /\ packet = "RegistryData" => registries' = registries + 1
            /\ packet # "RegistryData" => registries' = registries
        BY <1>1, <1>6, <3>4, <3>5, <3>6, <3>7
      <4>2. outbox[i + 1] = "FinishConfiguration" =>
               \/ registries' = Registries
               \/ \E j \in Flight' : j < i /\ outbox'[j] = "UpdateTags"
        <5>1. ASSUME NEW j \in Flight, j < i + 1, outbox[j] = "UpdateTags"
              PROVE  \E k \in Flight' : k < i /\ outbox'[k] = "UpdateTags"
          <6>1. j # 1 /\ j \in Nat \ {0}
            BY <1>2, <3>7, <5>1
          <6>2. j - 1 \in Flight' /\ j - 1 < i /\ (j - 1) + 1 = j
            BY <1>2, <3>0, <5>1, <6>1
          <6>. QED  BY <1>2, <5>1, <6>2
        <5>2. registries = Registries => registries' = Registries
          BY <2>3, <4>1, <1>6
        <5>. QED  BY <3>1, <5>1, <5>2
      <4>. QED  BY <1>6, <3>0, <3>1, <4>1, <4>2
    <3>8. CASE packet = "UpdateTags"
      <4>1. registries = Registries /\ registries' = registries /\ Taken = 1 + Registries
        BY <1>1, <1>6, <2>2, <3>5, <3>8
      <4>. QED  BY <1>6, <3>0, <3>1, <4>1
    <3>9. CASE packet = "FinishConfiguration"
      BY <1>4, <2>5, <3>9 DEF Answered, Flight
    <3>. QED  BY <1>8, <3>7, <3>8, <3>9 DEF Burst
  <2>. QED  BY <1>1, <1>6, <2>1, <2>3, <2>4, <2>5 DEF BurstInv
<1>9. CASE packet \notin Burst
  <2>1. registries' = registries
    BY <1>1, <1>6, <1>9 DEF Burst
  <2>2. cphase' = "Play" => cphase = "Play"
    BY <1>3, <1>9 DEF Burst
  <2>3. Before' => registries' = 0 /\ \A i \in Flight' : outbox'[i] \notin Burst
    BY <1>1, <1>2, <1>7, <2>1 DEF BurstSafe, BurstInv
  <2>4. ASSUME NEW i \in Flight' PROVE outbox'[i] \notin Burst
    <3>1. i + 1 \in Flight /\ outbox'[i] = outbox[i + 1] /\ 1 < i + 1
      BY <1>2
    <3>2. outbox[i + 1] # "UpdateEnabledFeatures"
      BY <1>1, <3>1 DEF BurstSafe, BurstInv
    <3>3. CASE packet \in ConfigPackets
      <4>1. packet = "SelectKnownPacks"
        BY <1>9, <3>3 DEF ConfigPackets, Burst
      <4>. QED  BY <1>4, <2>4, <4>1 DEF Answered, Flight
    <3>4. CASE packet \notin ConfigPackets
      <4>1. cphase # "Configuration"
        BY <1>4, <3>4 DEF PhaseOf
      <4>2. PhaseOf(outbox[i + 1]) # "Configuration"
        BY <1>1, <3>1, <4>1 DEF BurstSafe, PhaseInv, FlightOfPhase
      <4>3. \A p \in Burst : PhaseOf(p) = "Configuration"
        BY DEF Burst, PhaseOf, StatusPackets, LoginPackets, ConfigPackets
      <4>. QED  BY <3>1, <4>2, <4>3
    <3>. QED  BY <3>3, <3>4
  <2>. QED  BY <1>1, <1>6, <2>1, <2>2, <2>3, <2>4 DEF BurstSafe, BurstInv, Burst
<1>. QED  BY <1>8, <1>9

(* The server reads a packet: what it writes in answer to the known packs   *)
(* is the burst, and it is asked for it once.                               *)
LEMMA BurstReads ==
  ASSUME BurstSafe, ServerReads
  PROVE  BurstInv'
<1>. DEFINE m == Head(toServer)
<1>1. /\ framed /\ toServer # <<>> /\ toServer' = Tail(toServer)
      /\ ProcessPacket(Body(m))
      /\ UNCHANGED <<framed, cphase, socket_, infos, registries, ponged>>
  BY DEF ServerReads, ReadPacket, BurstSafe, PhaseInv, client
<1>2. TypeOK /\ QueueLeads
  BY <1>1 DEF BurstSafe, PhaseInv
<1>3. m \in Message /\ m.phase = state_
  BY <1>1, <1>2, HeadInPhase
<1>4. /\ state_' = After(m)
      /\ m.name \in Askers => outbox' = outbox \/ Send(Reply(m))
      /\ m.name \notin Askers => outbox' = outbox
  BY <1>1, <1>2, <1>3, ReadInPhase
<1>5. /\ m = toServer[1] /\ 1 \in Unread
      /\ \A i \in Unread' : i \in Nat \ {0} /\ i + 1 \in Unread /\ toServer'[i] = toServer[i + 1]
  BY <1>1, <1>2, TailOf DEF QueueLeads, Unread
<1>9. QueueArrives => QueueArrives'
  BY <1>1, <1>2, <1>4, QueueRead
<1>6. registries \in 0 .. Registries /\ infos \in 0 .. MaxInfos /\ ponged \in BOOLEAN
  BY DEF BurstSafe, BurstInv
<1>. HIDE DEF m
<1>7. CASE outbox' = outbox
  <2>1. Before' => Before
    BY <1>1, <1>5, <1>7 DEF Before, Flight
  <2>2. Taken' = Taken
    BY <1>1, <1>7 DEF Taken
  <2>. QED  BY <1>1, <1>7, <2>1, <2>2 DEF BurstSafe, BurstInv, Flight
<1>8. CASE outbox' # outbox
  <2>1. m.name \in Askers /\ socket_ = "open" /\ outbox' = outbox \o Reply(m)
    BY <1>4, <1>8 DEF Send
  <2>2. outbox = <<>> /\ OneQuestion
    BY <1>1, <1>5, <2>1 DEF BurstSafe, PhaseInv, OneQuestion
  <2>3. outbox' = Reply(m)
    <3>1. \A s \in Seq(Clientbound) : <<>> \o s = s
      OBVIOUS
    <3>. QED  BY <1>3, <2>1, <2>2, <3>1, ReplyFits
  <2>4. \A i \in Unread' : toServer'[i].name \notin Askers
    <3>1. \A i \in Unread' : i + 1 # 1
      BY <1>5
    <3>. QED  BY <1>5, <2>1, <2>2, <3>1 DEF OneQuestion
  <2>5. CASE m.name = "select_known_packs"
    <3>1. Before /\ registries = 0
      BY <1>1, <1>5, <2>5 DEF BurstSafe, BurstInv, Before
    <3>2. outbox' = ConfigurationBurst
      BY <2>3, <2>5 DEF Reply
    <3>3. /\ Len(ConfigurationBurst) = Registries + 3
          /\ ConfigurationBurst[1] = "UpdateEnabledFeatures"
          /\ ConfigurationBurst[Registries + 2] = "UpdateTags"
          /\ ConfigurationBurst[Registries + 3] = "FinishConfiguration"
          /\ \A i \in 1 .. Len(ConfigurationBurst) :
               \/ i = 1 \/ i = Registries + 2 \/ i = Registries + 3
               \/ ConfigurationBurst[i] = "RegistryData" /\ i =< Registries + 1
      BY RegistriesAssumption DEF ConfigurationBurst
    <3>4. Flight' = 1 .. Registries + 3 /\ Taken' = 0
      <4>1. outbox' # <<>>
        BY <3>2, <3>3, RegistriesAssumption
      <4>. QED  BY <3>2, <3>3, <4>1 DEF Flight, Taken
    <3>5. cphase = "Configuration"
      <4>1. m.phase = "Configuration" /\ After(m) = "Configuration"
        BY <1>3, <2>5 DEF Message, Sent, After
      <4>2. QueueArrives /\ QueueArrives'
        BY <1>1, <1>9, <2>1 DEF BurstSafe, PhaseInv
      <4>3. \A i \in Unread' : toServer'[i].name \notin Changers
        <5>1. SUFFICES ASSUME NEW i \in Unread', toServer'[i].name \in Changers PROVE FALSE
          OBVIOUS
        <5>2. toServer'[i].name = "intention"
          BY <2>4, <5>1 DEF Changers, Askers
        <5>3. i + 1 \in Unread /\ toServer[i + 1].name = "intention" /\ 1 =< i + 1
          BY <1>5, <5>1, <5>2
        <5>4. toServer[i + 1].phase = state_ /\ toServer[i + 1] \in Message
          BY <1>2, <5>3 DEF QueueLeads, Changers, Unread
        <5>. QED  BY <1>3, <4>1, <5>3, <5>4 DEF Message, Sent
      <4>. QED  BY <1>1, <1>4, <4>1, <4>2, <4>3 DEF QueueArrives
    <3>6. ~Before'
      <4>1. \A i \in Flight' : outbox'[i] # "SelectKnownPacks"
        BY <3>2, <3>3, <3>4
      <4>. QED  BY <1>1, <2>4, <3>5, <4>1 DEF Before, Askers
    <3>7. ASSUME NEW i \in Flight'
          PROVE  /\ outbox'[i] = "RegistryData" => i + Taken' =< Registries + 1
                 /\ outbox'[i] = "UpdateTags" => i + Taken' = Registries + 2
                 /\ outbox'[i] = "UpdateEnabledFeatures" => registries' = 0 /\ i = 1
                 /\ outbox'[i] = "FinishConfiguration" =>
                      \/ registries' = Registries
                      \/ \E j \in Flight' : j < i /\ outbox'[j] = "UpdateTags"
      <4>1. Registries + 2 \in Flight' /\ Registries + 2 < Registries + 3
        BY <3>4, RegistriesAssumption
      <4>2. registries' = 0 /\ Registries \in Nat /\ i \in Nat
        BY <1>1, <3>1, <3>4, RegistriesAssumption
      <4>3. \/ i = 1 /\ outbox'[i] = "UpdateEnabledFeatures"
            \/ i = Registries + 2 /\ outbox'[i] = "UpdateTags"
            \/ i = Registries + 3 /\ outbox'[i] = "FinishConfiguration"
            \/ i =< Registries + 1 /\ outbox'[i] = "RegistryData"
        BY <3>2, <3>3, <3>4
      <4>4. outbox'[Registries + 2] = "UpdateTags"
        BY <3>2, <3>3
      <4>. QED  BY <3>4, <4>1, <4>2, <4>3, <4>4
    <3>. QED  BY <1>1, <1>6, <3>5, <3>6, <3>7 DEF BurstInv
  <2>6. CASE m.name # "select_known_packs"
    <3>1. \A i \in 1 .. Len(Reply(m)) : Reply(m)[i] \notin Burst
      <4>1. CASE m.name = "finish_configuration"
        BY <4>1 DEF Reply, JoinSequence, Burst
      <4>2. CASE m.name # "finish_configuration"
        BY <2>1, <2>6, <4>2 DEF Reply, Askers, Burst
      <4>. QED  BY <4>1, <4>2
    <3>2. \A i \in Flight' : outbox'[i] \notin Burst
      BY <2>3, <3>1 DEF Flight
    <3>3. Before' => Before
      <4>1. CASE m.name = "login_acknowledged"
        BY <1>5, <4>1 DEF Before
      <4>2. CASE m.name # "login_acknowledged"
        <5>1. \A i \in 1 .. Len(Reply(m)) : Reply(m)[i] # "SelectKnownPacks"
          <6>1. CASE m.name = "finish_configuration"
            BY <6>1 DEF Reply, JoinSequence
          <6>2. CASE m.name # "finish_configuration"
            BY <2>1, <2>6, <4>2, <6>2 DEF Reply, Askers
          <6>. QED  BY <6>1, <6>2
        <5>. QED  BY <1>1, <2>3, <2>4, <5>1 DEF Before, Flight, Askers
      <4>. QED  BY <4>1, <4>2
    <3>. QED  BY <1>1, <1>6, <3>2, <3>3 DEF BurstSafe, BurstInv, Burst
  <2>. QED  BY <2>5, <2>6
<1>. QED  BY <1>7, <1>8

(* A keep-alive comes behind the burst. *)
LEMMA BurstTicks ==
  ASSUME BurstSafe, Runs(KeepAliveTick)
  PROVE  BurstInv'
<1>1. /\ UNCHANGED <<framed, cphase, toServer, infos, registries, ponged>>
      /\ outbox' = outbox \/ outbox' = outbox \o <<"KeepAlive">>
  BY DEF Runs, KeepAliveTick, Send, client
<1>2. CASE outbox' = outbox
  BY <1>1, <1>2, BurstUntouched
<1>3. CASE framed /\ outbox' = outbox \o <<"KeepAlive">>
  <2>1. /\ Flight \subseteq Flight'
        /\ \A i \in Flight' :
             \/ i \in Flight /\ outbox'[i] = outbox[i]
             \/ outbox'[i] = "KeepAlive" /\ i \notin Flight
        /\ outbox # <<>> => outbox' # <<>> /\ 1 \in Flight
        /\ \A i \in Flight : outbox # <<>> /\ outbox'[i] = outbox[i]
    BY <1>3 DEF BurstSafe, PhaseInv, TypeOK, Flight
  <2>2. \A i \in Flight : Taken' = Taken
    BY <1>1, <2>1 DEF Taken
  <2>3. Before' => Before
    BY <1>1, <2>1 DEF Before, Unread
  <2>4. ASSUME NEW i \in Flight'
        PROVE  /\ outbox'[i] = "RegistryData" => i + Taken' =< Registries + 1
               /\ outbox'[i] = "UpdateTags" => i + Taken' = Registries + 2
               /\ outbox'[i] = "UpdateEnabledFeatures" => registries' = 0 /\ i = 1
               /\ outbox'[i] = "FinishConfiguration" =>
                    \/ registries' = Registries
                    \/ \E j \in Flight' : j < i /\ outbox'[j] = "UpdateTags"
    <3>1. CASE i \in Flight
      <4>1. Taken' = Taken /\ outbox'[i] = outbox[i] /\ registries' = registries
        BY <1>1, <2>1, <2>2, <3>1
      <4>2. ASSUME NEW j \in Flight, j < i, outbox[j] = "UpdateTags"
            PROVE  \E k \in Flight' : k < i /\ outbox'[k] = "UpdateTags"
        BY <2>1, <4>2
      <4>. QED  BY <1>3, <3>1, <4>1, <4>2 DEF BurstSafe, BurstInv
    <3>2. CASE i \notin Flight
      BY <2>1, <3>2
    <3>. QED  BY <3>1, <3>2
  <2>5. Before' => registries' = 0 /\ \A i \in Flight' : outbox'[i] \notin Burst
    BY <1>1, <1>3, <2>1, <2>3 DEF BurstSafe, BurstInv, Burst
  <2>. QED  BY <1>1, <1>3, <2>4, <2>5 DEF BurstSafe, BurstInv
<1>4. CASE ~framed
  BY <1>1, <1>4 DEF BurstSafe, BurstInv
<1>. QED  BY <1>1, <1>2, <1>3, <1>4 DEF BurstSafe, PhaseInv

(* Every step keeps count of the registries. *)
LEMMA BurstStep == BurstSafe /\ [JoinNext]_jvars => BurstSafe'
<1>. SUFFICES ASSUME BurstSafe, [JoinNext]_jvars PROVE BurstInv'
  BY PhaseStep DEF BurstSafe
<1>1. ASSUME NEW intent \in {1, 2}, ClientOpens(intent) PROVE BurstInv'
  <2>1. /\ framed /\ cphase = "Handshake" /\ outbox = <<>>
        /\ cphase' = IF intent = 1 THEN "Status" ELSE "Login"
        /\ UNCHANGED <<outbox, framed, infos, registries, ponged>>
    BY <1>1 DEF ClientOpens, BurstSafe, PhaseInv, NotOpened, vars
  <2>2. registries = 0
    BY <2>1 DEF BurstSafe, BurstInv, Before
  <2>3. Flight' = {}
    BY <2>1 DEF Flight
  <2>. QED  BY <2>1, <2>2, <2>3 DEF BurstSafe, BurstInv
<1>2. CASE ClientReceives
  BY <1>2, BurstReceives
<1>3. CASE ClientInformation
  <2>. DEFINE m == Sent("client_information", 1, cphase)
  <2>1. /\ framed /\ UNCHANGED <<framed, cphase, outbox, registries, ponged>>
        /\ infos' = infos + 1 /\ infos < MaxInfos
        /\ ClientSends(<<m>>) /\ m.name = "client_information"
    BY <1>3 DEF ClientInformation, vars, Sent
  <2>. HIDE DEF m
  <2>2. toServer \in Seq(Message)
    BY <2>1 DEF BurstSafe, PhaseInv, QueueLeads
  <2>3. \A i \in Unread' : (i \in Unread /\ toServer'[i] = toServer[i]) \/ toServer'[i] = m
    BY <2>1, <2>2 DEF ClientSends, Unread
  <2>4. Before' => Before
    BY <2>1, <2>3 DEF Before, Flight
  <2>5. infos' \in 0 .. MaxInfos
    BY <2>1, ClientBoundsAssumption DEF BurstSafe, BurstInv
  <2>6. Taken' = Taken /\ Flight' = Flight
    BY <2>1 DEF Taken, Flight
  <2>. QED  BY <2>1, <2>4, <2>5, <2>6 DEF BurstSafe, BurstInv
<1>4. CASE ServerReads
  BY <1>4, BurstReads
<1>5. CASE ServerReadFails
  BY <1>5, BurstUntouched DEF ServerReadFails, ReadFails, client
<1>6. CASE AnyClient
  BY <1>6 DEF AnyClient, client, BurstSafe, BurstInv
<1>7. CASE Runs(Timers)
  <2>1. CASE Runs(KeepAliveTick)
    BY <2>1, BurstTicks
  <2>2. CASE Runs(KeepAliveExpires) \/ Runs(KeepAliveAborted)
    BY <2>2, BurstUntouched DEF Runs, KeepAliveExpires, KeepAliveAborted, client
  <2>3. CASE Runs(TeleportExpires) \/ Runs(TeleportDone)
    BY <2>3, BurstUntouched DEF Runs, TeleportExpires, TeleportDone, client
  <2>. QED  BY <1>7, <2>1, <2>2, <2>3 DEF Runs, Timers
<1>8. CASE Runs(Close) \/ Runs(ClientLeaves)
  <2>1. UNCHANGED <<framed, cphase, toServer, infos, registries, ponged>>
    BY <1>8 DEF Runs, client
  <2>2. \E n \in 0 .. Len(outbox) : outbox' = SubSeq(outbox, 1, n)
    <3>1. CASE Runs(Close)
      BY <3>1 DEF Runs, Close
    <3>2. CASE Runs(ClientLeaves)
      <4>1. outbox' = SubSeq(outbox, 1, 0) /\ 0 \in 0 .. Len(outbox)
        BY <3>2 DEF Runs, ClientLeaves, BurstSafe, PhaseInv, TypeOK
      <4>. QED  BY <4>1
    <3>. QED  BY <1>8, <3>1, <3>2
  <2>. QED  BY <2>1, <2>2, BurstCut
<1>9. CASE UNCHANGED jvars
  BY <1>9, BurstUntouched DEF jvars, vars
<1>10. CASE FrameLost \/ LengthCut
  BY <1>10, FramingEnds DEF BurstSafe, BurstInv
<1>. QED
  BY <1>1, <1>2, <1>3, <1>4, <1>5, <1>6, <1>7, <1>8, <1>9, <1>10 DEF JoinNext, Runs

LEMMA BurstStart == JoinInit => BurstSafe
<1>. SUFFICES ASSUME JoinInit PROVE BurstSafe
  OBVIOUS
<1>1. PhaseInv
  BY PhaseStart
<1>2. Flight = {} /\ registries = 0 /\ infos = 0 /\ ponged = FALSE /\ cphase = "Handshake"
  BY DEF JoinInit, Init, Flight
<1>3. ponged \in BOOLEAN
  BY <1>2, Zenon
<1>. QED
  BY <1>1, <1>2, <1>3, RegistriesAssumption, ClientBoundsAssumption DEF BurstSafe, BurstInv

-------------------------------------------------------------------------------
(***************************************************************************)
(* Neither end waits for the other in vain, and a player past LOGIN has a  *)
(* name.  Both need only what is in a queue, not where it is.              *)
(***************************************************************************)
Members(s) == {s[i] : i \in 1 .. Len(s)}
Names(s)   == {s[i].name : i \in 1 .. Len(s)}

LEMMA MembersJoined ==
  ASSUME NEW S, NEW s \in Seq(S), NEW t \in Seq(S)
  PROVE  Members(s \o t) = Members(s) \cup Members(t)
<1>1. \A x \in Members(s \o t) : x \in Members(s) \cup Members(t)
  BY Joined DEF Members
<1>2. \A x \in Members(s) \cup Members(t) : x \in Members(s \o t)
  BY Joined DEF Members
<1>. QED  BY <1>1, <1>2

LEMMA NamesJoined ==
  ASSUME NEW S, NEW s \in Seq(S), NEW t \in Seq(S)
  PROVE  Names(s \o t) = Names(s) \cup Names(t)
<1>1. \A x \in Names(s \o t) : x \in Names(s) \cup Names(t)
  BY Joined DEF Names
<1>2. \A x \in Names(s) \cup Names(t) : x \in Names(s \o t)
  BY Joined, SMTT(40) DEF Names
<1>. QED  BY <1>1, <1>2

LEMMA MembersTail ==
  ASSUME NEW S, NEW s \in Seq(S), s # <<>>
  PROVE  Members(s) = {Head(s)} \cup Members(Tail(s))
<1>1. \A x \in Members(s) : x = Head(s) \/ x \in Members(Tail(s))
  <2>1. \A i \in 1 .. Len(s) : i = 1 \/ (i - 1 \in 1 .. Len(Tail(s)) /\ s[i] = Tail(s)[i - 1])
    OBVIOUS
  <2>2. s[1] = Head(s)
    OBVIOUS
  <2>. QED  BY <2>1, <2>2 DEF Members
<1>2. \A x \in Members(Tail(s)) \cup {Head(s)} : x \in Members(s)
  BY TailOf DEF Members
<1>. QED  BY <1>1, <1>2

LEMMA NamesTail ==
  ASSUME NEW S, NEW s \in Seq(S), s # <<>>
  PROVE  Names(s) = {Head(s).name} \cup Names(Tail(s))
<1>1. \A x \in Names(s) : x = Head(s).name \/ x \in Names(Tail(s))
  <2>1. \A i \in 1 .. Len(s) : i = 1 \/ (i - 1 \in 1 .. Len(Tail(s)) /\ s[i] = Tail(s)[i - 1])
    OBVIOUS
  <2>2. s[1] = Head(s)
    OBVIOUS
  <2>3. \A i \in 1 .. Len(s) : s[i].name = Head(s).name \/ s[i].name \in Names(Tail(s))
    BY <2>1, <2>2 DEF Names
  <2>. QED  BY <2>3 DEF Names
<1>2. \A x \in Names(Tail(s)) \cup {Head(s).name} : x \in Names(s)
  BY TailOf DEF Names
<1>. QED  BY <1>1, <1>2

(* A question or a confirmation that the server has to read, or a packet    *)
(* that makes the client go on or ask again, is on its way until the        *)
(* session is through.                                                      *)
Awaited == Askers \cup {"accept_teleportation"}
Prompts == Answered \cup {"Pong", "PlayerPosition"}

Due     == Names(toServer) \cap Awaited # {} \/ Members(outbox) \cap Prompts # {}
Through == cphase = "Handshake" \/ ponged \/ player_lifecycle_ = "SPAWNED_AND_READY"

WaitInv == framed /\ socket_ = "open" => reading /\ (Through \/ Due)

(* The name is there before the answer to Login Start is.                   *)
PastLogin ==
  \/ state_ \in {"Configuration", "Play"} \/ cphase \in {"Configuration", "Play"}
  \/ "login_acknowledged" \in Names(toServer)
  \/ "LoginSuccess" \in Members(outbox)

NameInv == framed /\ PastLogin => username_ # NoName

-------------------------------------------------------------------------------
(* One packet more, or two. *)
LEMMA OneName ==
  ASSUME toServer \in Seq(Message), NEW a, toServer' = toServer \o <<a>>
  PROVE  Names(toServer') = Names(toServer) \cup {a.name}
<1>. DEFINE S == Message \cup {a}
<1>1. toServer \in Seq(S) /\ <<a>> \in Seq(S)
  OBVIOUS
<1>2. Names(<<a>>) = {a.name}
  BY DEF Names
<1>. HIDE DEF S
<1>3. Names(toServer \o <<a>>) = Names(toServer) \cup Names(<<a>>)
  BY <1>1, NamesJoined, ZenonT(60)
<1>. QED  BY <1>2, <1>3

LEMMA TwoNames ==
  ASSUME toServer \in Seq(Message), NEW a, NEW b, toServer' = toServer \o <<a, b>>
  PROVE  Names(toServer') = Names(toServer) \cup {a.name, b.name}
<1>. DEFINE S == Message \cup {a, b}
<1>1. toServer \in Seq(S) /\ <<a, b>> \in Seq(S)
  OBVIOUS
<1>2. Names(<<a, b>>) = {a.name, b.name}
  <2>1. Len(<<a, b>>) = 2 /\ <<a, b>>[1] = a /\ <<a, b>>[2] = b
    OBVIOUS
  <2>2. 1 .. 2 = {1, 2}
    OBVIOUS
  <2>. QED  BY <2>1, <2>2 DEF Names
<1>. HIDE DEF S
<1>3. Names(toServer \o <<a, b>>) = Names(toServer) \cup Names(<<a, b>>)
  BY <1>1, NamesJoined, ZenonT(60)
<1>. QED  BY <1>2, <1>3

(* What a conforming client has answered is on its way.                     *)
LEMMA ClientWrites ==
  ASSUME PhaseInv, ClientReceives
  PROVE  /\ Names(toServer) \subseteq Names(toServer')
         /\ socket_ = "open" /\ Head(outbox) \in Answered \cup {"PlayerPosition"} =>
              Names(toServer') \cap Awaited # {}
         /\ "login_acknowledged" \in Names(toServer') =>
              "login_acknowledged" \in Names(toServer) \/ Head(outbox) = "LoginSuccess"
<1>. DEFINE packet == Head(outbox)
<1>1. Answers(packet) /\ toServer \in Seq(Message)
  BY DEF ClientReceives, PhaseInv, QueueLeads
<1>. HIDE DEF packet
<1>. SUFFICES /\ Names(toServer) \subseteq Names(toServer')
              /\ socket_ = "open" /\ packet \in Answered \cup {"PlayerPosition"} =>
                   Names(toServer') \cap Awaited # {}
              /\ "login_acknowledged" \in Names(toServer') =>
                   "login_acknowledged" \in Names(toServer) \/ packet = "LoginSuccess"
  BY DEF packet
<1>2. ASSUME socket_ = "open", NEW a, toServer' = toServer \o <<a>>,
             a.name \in Awaited \/ packet \notin Answered \cup {"PlayerPosition"},
             a.name # "login_acknowledged"
      PROVE  /\ Names(toServer) \subseteq Names(toServer')
             /\ packet \in Answered \cup {"PlayerPosition"} => Names(toServer') \cap Awaited # {}
             /\ "login_acknowledged" \in Names(toServer') =>
                  "login_acknowledged" \in Names(toServer)
  BY <1>1, <1>2, OneName
<1>3. CASE toServer' = toServer /\ (socket_ # "open" \/ packet \notin Answered \cup {"PlayerPosition"})
  BY <1>3
<1>4. CASE packet = "LoginSuccess" /\ socket_ = "open"
  <2>. DEFINE a == Sent("login_acknowledged", 1, cphase)
              b == Sent("client_information", 1, cphase')
  <2>1. /\ toServer' = toServer \o <<a, b>>
        /\ a.name = "login_acknowledged" /\ b.name = "client_information"
    BY <1>1, <1>4 DEF Answers, ClientSends, Sent
  <2>. HIDE DEF a, b
  <2>2. Names(toServer') = Names(toServer) \cup {"login_acknowledged", "client_information"}
    BY <1>1, <2>1, TwoNames
  <2>. QED  BY <1>4, <2>2 DEF Awaited, Askers
<1>5. ASSUME packet # "LoginSuccess", socket_ = "open", toServer' # toServer
      PROVE  \E name \in {"ping_request", "select_known_packs", "finish_configuration",
                          "accept_teleportation", "keep_alive"} :
               /\ toServer' = toServer \o <<Sent(name, 1, cphase)>>
               /\ name \in Awaited \/ packet \notin Answered \cup {"PlayerPosition"}
  BY <1>1, <1>5 DEF Answers, ClientSends, Awaited, Askers, Answered
<1>6. toServer' = toServer => socket_ # "open" \/ packet \notin Answered \cup {"PlayerPosition"}
  <2>1. SUFFICES ASSUME toServer' = toServer, socket_ = "open",
                        packet \in Answered \cup {"PlayerPosition"}
                 PROVE  FALSE
    OBVIOUS
  <2>2. \/ \E a : toServer' = toServer \o <<a>>
        \/ \E a, b : toServer' = toServer \o <<a, b>>
    BY <1>1, <2>1 DEF Answers, ClientSends, Answered
  <2>3. /\ \A a : Len(toServer \o <<a>>) = Len(toServer) + 1
        /\ \A a, b : Len(toServer \o <<a, b>>) = Len(toServer) + 2
        /\ Len(toServer) \in Nat
    BY <1>1
  <2>4. Len(toServer) + 1 # Len(toServer) /\ Len(toServer) + 2 # Len(toServer)
    BY <2>3
  <2>. QED  BY <2>1, <2>2, <2>3, <2>4, Zenon
<1>7. CASE packet # "LoginSuccess" /\ socket_ = "open" /\ toServer' # toServer
  <2>1. PICK name \in {"ping_request", "select_known_packs", "finish_configuration",
                       "accept_teleportation", "keep_alive"} :
               /\ toServer' = toServer \o <<Sent(name, 1, cphase)>>
               /\ name \in Awaited \/ packet \notin Answered \cup {"PlayerPosition"}
    BY <1>5, <1>7
  <2>2. Sent(name, 1, cphase).name = name
    BY DEF Sent
  <2>. QED  BY <1>2, <1>7, <2>1, <2>2
<1>8. CASE socket_ # "open"
  <2>1. toServer' = toServer
    BY <1>1, <1>8 DEF Answers, ClientSends
  <2>. QED  BY <1>3, <1>8, <2>1
<1>. QED  BY <1>3, <1>4, <1>6, <1>7, <1>8

(* What is answered to a question of a conforming client makes it go on.    *)
LEMMA ReplyPrompts ==
  ASSUME NEW m \in Message, m.name \in Askers
  PROVE  /\ Members(Reply(m)) \cap Prompts # {}
         /\ "LoginSuccess" \in Members(Reply(m)) => m.name = "hello"
<1>1. CASE m.name = "finish_configuration"
  <2>1. Reply(m) = JoinSequence
    BY <1>1 DEF Reply
  <2>2. Members(JoinSequence) = {"LoginPlay", "SetCenterChunk", "ChunkData", "PlayerPosition", "GameEvent"}
    <3>1. Len(JoinSequence) = 5 /\ 1 .. 5 = {1, 2, 3, 4, 5}
      BY DEF JoinSequence
    <3>2. /\ JoinSequence[1] = "LoginPlay" /\ JoinSequence[2] = "SetCenterChunk"
          /\ JoinSequence[3] = "ChunkData" /\ JoinSequence[4] = "PlayerPosition"
          /\ JoinSequence[5] = "GameEvent"
      BY DEF JoinSequence
    <3>. QED  BY <3>1, <3>2 DEF Members
  <2>. QED  BY <2>1, <2>2 DEF Prompts
<1>2. CASE m.name = "select_known_packs"
  <2>1. Reply(m) = ConfigurationBurst
    BY <1>2 DEF Reply
  <2>2. /\ Len(ConfigurationBurst) = Registries + 3
        /\ ConfigurationBurst[Registries + 3] = "FinishConfiguration"
        /\ \A i \in 1 .. Len(ConfigurationBurst) : ConfigurationBurst[i] # "LoginSuccess"
    BY RegistriesAssumption DEF ConfigurationBurst
  <2>3. Registries + 3 \in 1 .. Len(ConfigurationBurst)
    BY <2>2, RegistriesAssumption
  <2>. QED  BY <2>1, <2>2, <2>3 DEF Members, Prompts, Answered
<1>3. CASE m.name \notin {"finish_configuration", "select_known_packs"}
  <2>1. PICK packet \in Prompts :
          Reply(m) = <<packet>> /\ (packet = "LoginSuccess" => m.name = "hello")
    BY <1>3 DEF Reply, Askers, Prompts, Answered
  <2>2. Members(<<packet>>) = {packet}
    BY DEF Members
  <2>. QED  BY <2>1, <2>2
<1>. QED  BY <1>1, <1>2, <1>3

LEMMA WaitUntouched ==
  ASSUME WaitInv, Closing, reading' = reading,
         UNCHANGED <<framed, cphase, toServer, outbox, ponged, player_lifecycle_>>
  PROVE  WaitInv'
BY DEF WaitInv, Closing, Through, Due, Names, Members

(* The client takes a packet. *)
LEMMA WaitReceives ==
  ASSUME PhaseInv, WaitInv, ClientReceives, socket_ = "open"
  PROVE  WaitInv'
<1>1. /\ framed /\ outbox # <<>> /\ outbox' = Tail(outbox)
      /\ UNCHANGED <<state_, socket_, player_lifecycle_, reading>>
      /\ ponged' = (ponged \/ Head(outbox) = "Pong")
  BY DEF ClientReceives, ClientTakes, session
<1>2. reading /\ (Through \/ Due) /\ outbox \in Seq(Clientbound) /\ cphase # "Handshake"
  BY <1>1 DEF WaitInv, PhaseInv, TypeOK, NotOpened
<1>3. Members(outbox) = {Head(outbox)} \cup Members(outbox')
  BY <1>1, <1>2, MembersTail
<1>4. Through => Through'
  BY <1>1, <1>2 DEF Through
<1>5. CASE Head(outbox) = "Pong"
  BY <1>1, <1>2, <1>5 DEF WaitInv, Through
<1>6. CASE Head(outbox) # "Pong" /\ Due
  <2>1. Due'
    BY <1>3, <1>6, ClientWrites DEF Due, Prompts
  <2>. QED  BY <1>1, <1>2, <2>1 DEF WaitInv
<1>. QED  BY <1>1, <1>2, <1>4, <1>5, <1>6 DEF WaitInv

(* The server reads a packet: it answers a question, and takes a            *)
(* confirmation for one.                                                    *)
LEMMA WaitReads ==
  ASSUME OfflineMode, PhaseInv, WaitInv, ServerReads, socket_ = "open"
  PROVE  WaitInv'
<1>. DEFINE m == Head(toServer)
<1>1. /\ framed /\ toServer # <<>> /\ toServer' = Tail(toServer)
      /\ ProcessPacket(Body(m))
      /\ UNCHANGED <<framed, cphase, socket_, ponged, reading>>
  BY DEF ServerReads, ReadPacket, PhaseInv, client
<1>2. TypeOK /\ QueueLeads /\ toServer \in Seq(Message) /\ outbox \in Seq(Clientbound)
  BY <1>1 DEF PhaseInv, QueueLeads, TypeOK
<1>3. m \in Message /\ m.phase = state_
  BY <1>1, <1>2, HeadInPhase
<1>4. /\ m.name \in Askers => Send(Reply(m))
      /\ m.name \notin Askers => outbox' = outbox
      /\ player_lifecycle_' = player_lifecycle_ \/ m.name = "accept_teleportation"
      /\ m.name = "accept_teleportation" => player_lifecycle_' = "SPAWNED_AND_READY"
  BY <1>1, <1>2, <1>3, ReadInPhase
<1>5. Names(toServer) = {m.name} \cup Names(toServer')
  BY <1>1, <1>2, NamesTail
<1>. HIDE DEF m
<1>6. reading /\ (Through \/ Due)
  BY <1>1 DEF WaitInv
<1>7. CASE m.name \in Askers
  <2>1. outbox' = outbox \o Reply(m)
    BY <1>4, <1>7 DEF Send
  <2>2. Members(outbox') = Members(outbox) \cup Members(Reply(m))
    BY <1>2, <1>3, <1>7, <2>1, ReplyFits, MembersJoined
  <2>3. Due'
    BY <1>3, <1>7, <2>2, ReplyPrompts DEF Due
  <2>. QED  BY <1>1, <1>6, <2>3 DEF WaitInv
<1>8. CASE m.name = "accept_teleportation"
  BY <1>1, <1>4, <1>6, <1>8 DEF WaitInv, Through
<1>9. CASE m.name \notin Awaited
  <2>1. outbox' = outbox /\ player_lifecycle_' = player_lifecycle_
    BY <1>4, <1>9 DEF Awaited
  <2>2. (Due => Due') /\ (Through => Through')
    BY <1>1, <1>5, <1>9, <2>1 DEF Due, Through
  <2>. QED  BY <1>1, <1>6, <2>2 DEF WaitInv
<1>. QED  BY <1>7, <1>8, <1>9 DEF Awaited

(* Every step leaves something on its way, until the session is through.    *)
LEMMA WaitStep ==
  ASSUME OfflineMode, PhaseInv, WaitInv, [JoinNext]_jvars
  PROVE  WaitInv'
<1>. SUFFICES ASSUME framed', socket_' = "open" PROVE WaitInv'
  BY DEF WaitInv
<1>0. /\ framed /\ toServer \in Seq(Message) /\ outbox \in Seq(Clientbound)
      /\ framed' = framed
  <2>1. framed' = framed
    BY Faithful, FramingEnds
  <2>. QED  BY <2>1 DEF PhaseInv, QueueLeads, TypeOK
<1>1. ASSUME NEW intent \in {1, 2}, ClientOpens(intent) PROVE WaitInv'
  <2>. DEFINE a == Sent("intention", intent, cphase)
              b == Sent(IF intent = 1 THEN "status_request" ELSE "hello", 1, cphase')
  <2>1. /\ socket_ = "open" /\ reading' = reading
        /\ toServer' = toServer \o <<a, b>> /\ b.name \in {"status_request", "hello"}
    BY <1>1 DEF ClientOpens, ClientSends, vars, Sent
  <2>. HIDE DEF a, b
  <2>2. {"status_request", "hello"} \cap Names(toServer') # {}
    BY <1>0, <2>1, TwoNames
  <2>3. Due'
    BY <2>2 DEF Due, Awaited, Askers
  <2>. QED  BY <1>0, <2>1, <2>3 DEF WaitInv
<1>2. CASE ClientReceives
  <2>1. socket_ = "open"
    BY <1>2 DEF ClientReceives, ClientTakes
  <2>. QED  BY <1>2, <2>1, WaitReceives
<1>3. CASE ClientInformation
  <2>. DEFINE m == Sent("client_information", 1, cphase)
  <2>1. /\ UNCHANGED <<cphase, outbox, ponged, player_lifecycle_, reading, socket_>>
        /\ toServer' = toServer \o <<m>>
    BY <1>3 DEF ClientInformation, ClientSends, vars
  <2>. HIDE DEF m
  <2>2. Names(toServer) \subseteq Names(toServer')
    BY <1>0, <2>1, OneName
  <2>3. (Due => Due') /\ (Through => Through')
    BY <2>1, <2>2 DEF Due, Through
  <2>. QED  BY <1>0, <2>1, <2>3 DEF WaitInv
<1>4. CASE ServerReads
  <2>1. socket_ = "open"
    BY <1>4 DEF ServerReads, ReadPacket
  <2>. QED  BY <1>4, <2>1, WaitReads
<1>5. CASE ServerReadFails
  BY <1>5 DEF ServerReadFails, ReadFails
<1>6. CASE AnyClient
  BY <1>0, <1>6 DEF AnyClient
<1>7. CASE Runs(Timers)
  <2>1. CASE Runs(KeepAliveTick)
    <3>1. /\ UNCHANGED <<cphase, toServer, ponged, player_lifecycle_, reading, socket_>>
          /\ outbox' = outbox \/ outbox' = outbox \o <<"KeepAlive">>
      BY <2>1 DEF Runs, KeepAliveTick, Send, client, session
    <3>2. Members(outbox) \subseteq Members(outbox')
      <4>1. <<"KeepAlive">> \in Seq(Clientbound)
        BY DEF Clientbound, PlayPackets
      <4>2. Members(outbox \o <<"KeepAlive">>) = Members(outbox) \cup Members(<<"KeepAlive">>)
        BY <1>0, <4>1, MembersJoined, ZenonT(60)
      <4>3. CASE outbox' = outbox
        BY <4>3
      <4>. QED  BY <3>1, <4>2, <4>3
    <3>3. (Due => Due') /\ (Through => Through')
      BY <3>1, <3>2 DEF Due, Through
    <3>. QED  BY <1>0, <3>1, <3>3 DEF WaitInv
  <2>2. CASE Runs(KeepAliveExpires) \/ Runs(KeepAliveAborted)
    BY <2>2, WaitUntouched DEF Runs, KeepAliveExpires, KeepAliveAborted, client, session, Closing
  <2>3. CASE Runs(TeleportExpires) \/ Runs(TeleportDone)
    BY <2>3, WaitUntouched DEF Runs, TeleportExpires, TeleportDone, client, session, Closing
  <2>. QED  BY <1>7, <2>1, <2>2, <2>3 DEF Runs, Timers
<1>8. CASE Runs(Close) \/ Runs(ClientLeaves)
  BY <1>8 DEF Runs, Close, ClientLeaves
<1>9. CASE UNCHANGED jvars
  BY <1>9, WaitUntouched DEF jvars, vars, Closing
<1>10. CASE FrameLost \/ LengthCut
  BY <1>10, FramingEnds
<1>. QED
  BY <1>1, <1>2, <1>3, <1>4, <1>5, <1>6, <1>7, <1>8, <1>9, <1>10 DEF JoinNext

-------------------------------------------------------------------------------
LEMMA NameUntouched ==
  ASSUME NameInv, PastLogin' => PastLogin, UNCHANGED <<framed, username_>>
  PROVE  NameInv'
BY DEF NameInv

LEMMA NameReceives ==
  ASSUME PhaseInv, NameInv, ClientReceives
  PROVE  NameInv'
<1>1. /\ framed /\ outbox # <<>> /\ outbox' = Tail(outbox)
      /\ UNCHANGED <<state_, username_, framed>>
      /\ cphase' = CASE Head(outbox) = "LoginSuccess"        -> "Configuration"
                     [] Head(outbox) = "FinishConfiguration" -> "Play"
                     [] OTHER                                -> cphase
  BY DEF ClientReceives, ClientTakes, session
<1>2. outbox \in Seq(Clientbound) /\ FlightOfPhase
  BY <1>1 DEF PhaseInv, TypeOK
<1>3. Members(outbox) = {Head(outbox)} \cup Members(outbox')
  BY <1>1, <1>2, MembersTail
<1>4. Head(outbox) = "FinishConfiguration" => cphase = "Configuration"
  <2>1. PhaseOf(Head(outbox)) = cphase
    BY <1>1, <1>2, TailOf DEF FlightOfPhase, Flight
  <2>. QED  BY <2>1 DEF PhaseOf, StatusPackets, LoginPackets, ConfigPackets
<1>5. PastLogin' => PastLogin
  BY <1>1, <1>3, <1>4, ClientWrites DEF PastLogin
<1>. QED  BY <1>1, <1>5, NameUntouched

LEMMA NameReads ==
  ASSUME PhaseInv, NameInv, ServerReads
  PROVE  NameInv'
<1>. DEFINE m == Head(toServer)
<1>1. /\ framed /\ toServer # <<>> /\ toServer' = Tail(toServer)
      /\ ProcessPacket(Body(m))
      /\ UNCHANGED <<framed, cphase, socket_>>
  BY DEF ServerReads, ReadPacket, PhaseInv, client
<1>2. TypeOK /\ QueueLeads /\ toServer \in Seq(Message) /\ outbox \in Seq(Clientbound)
  BY <1>1 DEF PhaseInv, QueueLeads, TypeOK
<1>3. m \in Message /\ m.phase = state_
  BY <1>1, <1>2, HeadInPhase
<1>4. /\ state_' = After(m)
      /\ m.name \in Askers => outbox' = outbox \/ Send(Reply(m))
      /\ m.name \notin Askers => outbox' = outbox
      /\ username_' = IF m.name = "hello" THEN m.arg ELSE username_
      /\ m.arg # NoName
  BY <1>1, <1>2, <1>3, ReadInPhase
<1>5. Names(toServer) = {m.name} \cup Names(toServer')
  BY <1>1, <1>2, NamesTail
<1>. HIDE DEF m
<1>6. CASE m.name = "hello"
  BY <1>4, <1>6 DEF NameInv
<1>7. CASE m.name # "hello"
  <2>1. "LoginSuccess" \in Members(outbox') => "LoginSuccess" \in Members(outbox)
    <3>1. CASE outbox' = outbox
      BY <3>1
    <3>2. CASE m.name \in Askers /\ outbox' = outbox \o Reply(m)
      <4>1. Members(outbox') = Members(outbox) \cup Members(Reply(m))
        BY <1>2, <1>3, <3>2, ReplyFits, MembersJoined
      <4>. QED  BY <1>3, <1>7, <3>2, <4>1, ReplyPrompts
    <3>. QED  BY <1>4, <3>1, <3>2 DEF Send
  <2>2. state_' \in {"Configuration", "Play"} =>
          state_ \in {"Configuration", "Play"} \/ m.name = "login_acknowledged"
    BY <1>3, <1>4 DEF Message, Sent, After
  <2>3. PastLogin' => PastLogin
    BY <1>1, <1>5, <2>1, <2>2 DEF PastLogin
  <2>. QED  BY <1>1, <1>4, <1>7, <2>3, NameUntouched
<1>. QED  BY <1>6, <1>7

LEMMA NameStep ==
  ASSUME PhaseInv, NameInv, [JoinNext]_jvars
  PROVE  NameInv'
<1>. SUFFICES ASSUME framed' PROVE NameInv'
  BY DEF NameInv
<1>0. /\ framed /\ toServer \in Seq(Message) /\ outbox \in Seq(Clientbound)
      /\ framed' = framed
  <2>1. framed' = framed
    BY Faithful, FramingEnds
  <2>. QED  BY <2>1 DEF PhaseInv, QueueLeads, TypeOK
<1>a. ASSUME UNCHANGED <<username_, state_, cphase>>, Members(outbox') \subseteq Members(outbox) \cup {"KeepAlive"},
             Names(toServer') \subseteq Names(toServer) \cup {"client_information"}
      PROVE  NameInv'
  <2>1. PastLogin' => PastLogin
    BY <1>a DEF PastLogin
  <2>. QED  BY <1>0, <1>a, <2>1, NameUntouched
<1>1. ASSUME NEW intent \in {1, 2}, ClientOpens(intent) PROVE NameInv'
  <2>. DEFINE a == Sent("intention", intent, cphase)
              b == Sent(IF intent = 1 THEN "status_request" ELSE "hello", 1, cphase')
  <2>1. /\ toServer' = toServer \o <<a, b>> /\ a.name = "intention"
        /\ b.name \in {"status_request", "hello"} /\ cphase' \in {"Status", "Login"}
        /\ UNCHANGED <<username_, state_, outbox>>
    BY <1>1 DEF ClientOpens, ClientSends, vars, Sent
  <2>. HIDE DEF a, b
  <2>2. Names(toServer') = Names(toServer) \cup {"intention", b.name}
    BY <1>0, <2>1, TwoNames
  <2>3. PastLogin' => PastLogin
    BY <2>1, <2>2 DEF PastLogin
  <2>. QED  BY <1>0, <2>1, <2>3, NameUntouched
<1>2. CASE ClientReceives
  BY <1>2, NameReceives
<1>3. CASE ClientInformation
  <2>. DEFINE m == Sent("client_information", 1, cphase)
  <2>1. /\ UNCHANGED <<cphase, outbox, username_, state_>> /\ m.name = "client_information"
        /\ toServer' = toServer \o <<m>> \/ toServer' = toServer
    BY <1>3 DEF ClientInformation, ClientSends, vars, Sent
  <2>. HIDE DEF m
  <2>2. Names(toServer') \subseteq Names(toServer) \cup {"client_information"}
    BY <1>0, <2>1, OneName
  <2>. QED  BY <1>a, <2>1, <2>2
<1>4. CASE ServerReads
  BY <1>4, NameReads
<1>5. CASE ServerReadFails
  BY <1>a, <1>5 DEF ServerReadFails, ReadFails, client, session
<1>6. CASE AnyClient
  BY <1>0, <1>6 DEF AnyClient
<1>7. CASE Runs(Timers)
  <2>1. CASE Runs(KeepAliveTick)
    <3>1. /\ UNCHANGED <<cphase, toServer, username_, state_>>
          /\ outbox' = outbox \/ outbox' = outbox \o <<"KeepAlive">>
      BY <2>1 DEF Runs, KeepAliveTick, Send, client, session
    <3>2. <<"KeepAlive">> \in Seq(Clientbound) /\ Members(<<"KeepAlive">>) = {"KeepAlive"}
      BY DEF Clientbound, PlayPackets, Members
    <3>3. Members(outbox \o <<"KeepAlive">>) = Members(outbox) \cup Members(<<"KeepAlive">>)
      BY <1>0, <3>2, MembersJoined, ZenonT(60)
    <3>4. Members(outbox') \subseteq Members(outbox) \cup {"KeepAlive"}
      <4>1. CASE outbox' = outbox
        BY <4>1
      <4>. QED  BY <3>1, <3>2, <3>3, <4>1
    <3>. QED  BY <1>a, <3>1, <3>4
  <2>2. CASE Runs(KeepAliveExpires) \/ Runs(KeepAliveAborted)
    BY <1>a, <2>2 DEF Runs, KeepAliveExpires, KeepAliveAborted, client, session
  <2>3. CASE Runs(TeleportExpires) \/ Runs(TeleportDone)
    BY <1>a, <2>3 DEF Runs, TeleportExpires, TeleportDone, client, session
  <2>. QED  BY <1>7, <2>1, <2>2, <2>3 DEF Runs, Timers
<1>8. CASE Runs(Close)
  <2>1. PICK n \in 0 .. Len(outbox) : outbox' = SubSeq(outbox, 1, n)
    BY <1>8 DEF Runs, Close
  <2>2. Members(outbox') \subseteq Members(outbox)
    BY <1>0, <2>1 DEF Members
  <2>. QED  BY <1>a, <1>8, <2>2 DEF Runs, Close, client, session
<1>9. CASE Runs(ClientLeaves)
  <2>1. Members(outbox') = {}
    BY <1>9 DEF Runs, ClientLeaves, Members
  <2>. QED  BY <1>a, <1>9, <2>1 DEF Runs, ClientLeaves, client, session
<1>10. CASE UNCHANGED jvars
  BY <1>a, <1>10 DEF jvars, vars
<1>11. CASE FrameLost \/ LengthCut
  BY <1>11, FramingEnds
<1>. QED
  BY <1>1, <1>2, <1>3, <1>4, <1>5, <1>6, <1>7, <1>8, <1>9, <1>10, <1>11 DEF JoinNext, Runs

LEMMA WaitStart == JoinInit => WaitInv /\ NameInv
<1>. SUFFICES ASSUME JoinInit PROVE WaitInv /\ NameInv
  OBVIOUS
<1>1. Names(toServer) = {} /\ Members(outbox) = {}
  BY DEF JoinInit, Init, Names, Members
<1>. QED  BY <1>1 DEF JoinInit, Init, WaitInv, NameInv, Through, PastLogin

-------------------------------------------------------------------------------
(***************************************************************************)
(* The two ends change their states in lockstep, the client first.         *)
(***************************************************************************)
LockInv ==
  framed =>
    /\ cphase = state_ \/ (<<state_, cphase>> \in Agreement!Changes /\ outbox = <<>>)
    /\ \A k \in Unread : toServer[k].name \in Changers => cphase = After(toServer[k])

(* What a packet that changes the state makes of it comes after it.         *)
LEMMA ChangerIsChange ==
  ASSUME NEW m \in Message, m.name \in Changers
  PROVE  <<m.phase, After(m)>> \in Agreement!Changes /\ After(m) # m.phase
BY DEF Message, Sent, Changers, After, Agreement!Changes

(* While the socket is up, the packets in flight say so.                    *)
LEMMA OpenInLockstep ==
  ASSUME PhaseInv, socket_ = "open"
  PROVE  LockInv
<1>. SUFFICES ASSUME framed PROVE LockInv
  BY DEF LockInv
<1>1. QueueLeads /\ QueueArrives /\ OneQuestion
  BY DEF PhaseInv
<1>2. CASE \A k \in Unread : toServer[k].name \notin Changers
  BY <1>1, <1>2 DEF LockInv, QueueArrives
<1>3. ASSUME NEW k \in Unread, toServer[k].name \in Changers PROVE LockInv
  <2>1. toServer[k] \in Message /\ toServer[k].phase = state_
    BY <1>1, <1>3 DEF QueueLeads, Unread
  <2>2. cphase = After(toServer[k]) /\ outbox = <<>>
    BY <1>1, <1>3 DEF QueueArrives, OneQuestion
  <2>3. <<state_, cphase>> \in Agreement!Changes
    BY <1>3, <2>1, <2>2, ChangerIsChange
  <2>. QED  BY <1>1, <2>2, <2>3 DEF LockInv, QueueArrives
<1>. QED  BY <1>2, <1>3

LockedWhileOpen == socket_ = "open" => LockInv

LEMMA OpenStays == PhaseInv' => LockedWhileOpen'
<1>1. PhaseInv => LockedWhileOpen
  BY OpenInLockstep DEF LockedWhileOpen
<1>. QED  BY <1>1, PTL

(* The client opens: it leads. *)
LEMMA LockOpens ==
  ASSUME PhaseInv, NEW intent \in {1, 2}, ClientOpens(intent)
  PROVE  /\ framed /\ cphase = state_ /\ state_' = state_ /\ socket_' = "open"
         /\ <<cphase, cphase'>> \in Agreement!Changes
<1>1. /\ framed /\ cphase = "Handshake" /\ state_ = "Handshake"
      /\ cphase' \in {"Status", "Login"} /\ state_' = state_ /\ socket_' = "open"
  BY DEF ClientOpens, PhaseInv, NotOpened, vars
<1>. QED  BY <1>1 DEF Agreement!Changes

(* The client takes a packet: it leads when that packet ends its state.     *)
LEMMA LockReceives ==
  ASSUME PhaseInv, LockInv, ClientReceives
  PROVE  /\ framed /\ cphase = state_ /\ state_' = state_
         /\ cphase' = cphase \/ (<<cphase, cphase'>> \in Agreement!Changes /\ outbox' = <<>>)
<1>1. /\ framed /\ outbox # <<>> /\ outbox' = Tail(outbox) /\ state_' = state_
      /\ cphase' = CASE Head(outbox) = "LoginSuccess"        -> "Configuration"
                     [] Head(outbox) = "FinishConfiguration" -> "Play"
                     [] OTHER                                -> cphase
  BY DEF ClientReceives, ClientTakes, session
<1>2. cphase = state_
  BY <1>1 DEF LockInv
<1>3. /\ PhaseOf(Head(outbox)) = cphase
      /\ Head(outbox) \in Answered => outbox' = <<>>
  BY <1>1, FlightTaken DEF PhaseInv
<1>4. CASE Head(outbox) \in {"LoginSuccess", "FinishConfiguration"}
  <2>1. /\ Head(outbox) = "LoginSuccess" => cphase = "Login" /\ cphase' = "Configuration"
        /\ Head(outbox) = "FinishConfiguration" => cphase = "Configuration" /\ cphase' = "Play"
    BY <1>1, <1>3 DEF PhaseOf, StatusPackets, LoginPackets, ConfigPackets
  <2>. QED  BY <1>1, <1>2, <1>3, <1>4, <2>1 DEF Answered, Agreement!Changes
<1>5. CASE Head(outbox) \notin {"LoginSuccess", "FinishConfiguration"}
  BY <1>1, <1>2, <1>5
<1>. QED  BY <1>4, <1>5

(* The server reads a packet: it follows when that is a changer.            *)
LEMMA LockReads ==
  ASSUME PhaseInv, LockInv, ServerReads
  PROVE  /\ framed /\ UNCHANGED <<cphase, socket_>>
         /\ socket_ # "open" => outbox' = outbox
         /\ \/ state_' = state_ /\ Head(toServer).name \notin Changers
            \/ /\ cphase # state_ /\ state_' = cphase
               /\ Head(toServer).name \in Changers
<1>. DEFINE m == Head(toServer)
<1>1. /\ framed /\ toServer # <<>> /\ ProcessPacket(Body(m))
      /\ UNCHANGED <<cphase, socket_>>
  BY DEF ServerReads, ReadPacket, PhaseInv, client
<1>2. TypeOK /\ QueueLeads
  BY <1>1 DEF PhaseInv
<1>3. m \in Message /\ m.phase = state_
  BY <1>1, <1>2, HeadInPhase
<1>4. /\ state_' = After(m)
      /\ m.name \in Askers => outbox' = outbox \/ Send(Reply(m))
      /\ m.name \notin Askers => outbox' = outbox
  BY <1>1, <1>2, <1>3, ReadInPhase
<1>5. m = toServer[1] /\ 1 \in Unread
  BY <1>1, <1>2, TailOf DEF QueueLeads, Unread
<1>. HIDE DEF m
<1>6. CASE m.name \notin Changers
  BY <1>1, <1>3, <1>4, <1>6, AfterPlain DEF Send, m
<1>7. CASE m.name \in Changers
  <2>1. cphase = After(m)
    BY <1>1, <1>5, <1>7 DEF LockInv
  <2>2. After(m) # m.phase
    BY <1>3, <1>7, ChangerIsChange
  <2>. QED  BY <1>1, <1>3, <1>4, <1>7, <2>1, <2>2 DEF Send, m
<1>. QED  BY <1>6, <1>7

(* Any other step that loses no frame leaves both states alone, and sends   *)
(* nothing to a socket that is gone.                                        *)
LEMMA LockRests ==
  ASSUME PhaseInv, [JoinNext]_jvars, framed, framed',
         \A intent \in {1, 2} : ~ClientOpens(intent), ~ClientReceives, ~ServerReads
  PROVE  /\ UNCHANGED <<state_, cphase>>
         /\ socket_' # "open" =>
              toServer' = toServer /\ (outbox = <<>> => outbox' = <<>>)
<1>1. CASE ClientInformation
  BY <1>1 DEF ClientInformation, ClientSends, vars
<1>2. CASE ServerReadFails
  BY <1>2 DEF ServerReadFails, ReadFails, client, session
<1>3. CASE AnyClient
  BY <1>3 DEF AnyClient
<1>4. CASE Runs(Timers)
  BY <1>4 DEF Runs, Timers, KeepAliveExpires, KeepAliveTick, KeepAliveAborted, TeleportExpires,
              TeleportDone, Send, client, session
<1>5. CASE Runs(Close)
  <2>1. PICK n \in 0 .. Len(outbox) : outbox' = SubSeq(outbox, 1, n)
    BY <1>5 DEF Runs, Close
  <2>2. outbox = <<>> => outbox' = <<>>
    BY <2>1 DEF PhaseInv, TypeOK
  <2>. QED  BY <1>5, <2>2 DEF Runs, Close, client, session
<1>6. CASE Runs(ClientLeaves)
  BY <1>6 DEF Runs, ClientLeaves, client, session
<1>7. CASE UNCHANGED jvars
  BY <1>7 DEF jvars, vars
<1>8. CASE FrameLost \/ LengthCut
  BY <1>8, FramingEnds
<1>. QED  BY <1>1, <1>2, <1>3, <1>4, <1>5, <1>6, <1>7, <1>8 DEF JoinNext

(* Every step keeps the two ends in lockstep. *)
LEMMA LockStep ==
  ASSUME PhaseInv, PhaseInv', LockInv, [JoinNext]_jvars
  PROVE  LockInv'
<1>. SUFFICES ASSUME framed', socket_' # "open" PROVE LockInv'
  BY OpenStays DEF LockedWhileOpen, LockInv
<1>0. framed
  BY Faithful, FramingEnds
<1>1. ASSUME NEW intent \in {1, 2}, ClientOpens(intent) PROVE LockInv'
  BY <1>1, LockOpens
<1>2. CASE ClientReceives
  <2>1. /\ cphase = state_ /\ state_' = state_
        /\ cphase' = cphase \/ (<<cphase, cphase'>> \in Agreement!Changes /\ outbox' = <<>>)
    BY <1>2, LockReceives
  <2>2. socket_ # "open" /\ toServer' = toServer
    <3>1. socket_ # "open"
      BY <1>2 DEF ClientReceives, ClientTakes
    <3>. QED  BY <1>2, <3>1 DEF ClientReceives, Answers, ClientSends
  <2>3. \A k \in Unread : toServer[k].name \notin Changers
    <3>1. SUFFICES ASSUME NEW k \in Unread, toServer[k].name \in Changers PROVE FALSE
      OBVIOUS
    <3>2. toServer[k] \in Message /\ toServer[k].phase = state_
      BY <1>0, <3>1 DEF PhaseInv, QueueLeads, Unread
    <3>3. cphase = After(toServer[k])
      BY <1>0, <3>1 DEF LockInv
    <3>. QED  BY <2>1, <3>1, <3>2, <3>3, ChangerIsChange
  <2>. QED  BY <2>1, <2>2, <2>3 DEF LockInv, Unread
<1>3. CASE ServerReads
  <2>1. /\ cphase' = cphase /\ outbox' = outbox
        /\ \/ state_' = state_ /\ Head(toServer).name \notin Changers
           \/ state_' = cphase /\ Head(toServer).name \in Changers
    BY <1>3, LockReads
  <2>2. /\ toServer # <<>> /\ toServer' = Tail(toServer) /\ toServer \in Seq(Message)
    BY <1>0, <1>3 DEF ServerReads, PhaseInv, QueueLeads
  <2>3. \A i \in Unread' : i + 1 \in Unread /\ toServer'[i] = toServer[i + 1]
    BY <2>2, TailOf DEF Unread
  <2>. QED  BY <1>0, <2>1, <2>3 DEF LockInv
<1>4. CASE /\ \A intent \in {1, 2} : ~ClientOpens(intent)
           /\ ~ClientReceives /\ ~ServerReads
  <2>1. UNCHANGED <<state_, cphase, toServer>> /\ (outbox = <<>> => outbox' = <<>>)
    BY <1>0, <1>4, LockRests
  <2>. QED  BY <1>0, <2>1 DEF LockInv, Unread
<1>. QED  BY <1>1, <1>2, <1>3, <1>4

(* Where nothing is framed, the model's client is at rest.                  *)
LEMMA UnframedRests ==
  ASSUME [JoinNext]_jvars, ~framed
  PROVE  cphase' = cphase
BY DEF JoinNext, ClientOpens, ClientReceives, ClientInformation, ServerReads,
       ServerReadFails, FrameLost, LengthCut, AnyClient, Runs, client, jvars

(* Every step is one of Lockstep, or changes neither state.                 *)
LEMMA LockstepStep ==
  ASSUME PhaseInv, LockInv, [JoinNext]_jvars
  PROVE  [Agreement!Lead \/ Agreement!Follow]_<<cphase, IF framed THEN state_ ELSE cphase>>
<1>0. CASE FrameLost \/ LengthCut
  BY <1>0, FramingEnds DEF Agreement!Follow
<1>1. CASE ~framed /\ framed' = framed
  BY <1>1, UnframedRests DEF PhaseInv
<1>2. framed' = framed \/ FrameLost \/ LengthCut
  BY Faithful
<1>. SUFFICES ASSUME framed, framed' = framed
              PROVE  \/ cphase = state_ /\ <<cphase, cphase'>> \in Agreement!Changes /\ state_' = state_
                     \/ state_ # cphase /\ state_' = cphase /\ cphase' = cphase
                     \/ UNCHANGED <<cphase, state_>>
  BY <1>0, <1>1, <1>2 DEF Agreement!Lead, Agreement!Follow
<1>3. ASSUME NEW intent \in {1, 2}, ClientOpens(intent)
      PROVE  cphase = state_ /\ <<cphase, cphase'>> \in Agreement!Changes /\ state_' = state_
  BY <1>3, LockOpens
<1>4. CASE ClientReceives
  BY <1>4, LockReceives
<1>5. CASE ServerReads
  BY <1>5, LockReads
<1>6. CASE /\ \A intent \in {1, 2} : ~ClientOpens(intent)
           /\ ~ClientReceives /\ ~ServerReads
  BY <1>6, LockRests
<1>. QED  BY <1>3, <1>4, <1>5, <1>6

LEMMA LockStart == JoinInit => LockInv /\ Agreement!Init
<1>1. JoinInit => Unread = {}
  BY DEF JoinInit, Unread
<1>. QED  BY <1>1 DEF JoinInit, Init, LockInv, Agreement!Init

-------------------------------------------------------------------------------
(***************************************************************************)
(* The theorems.                                                           *)
(***************************************************************************)

(* Each of these theorems is about a conforming client for as long as the   *)
(* session is framed, which FrameLost and LengthCut may end at any step:    *)
(* that is the hypothesis in each of the properties.                        *)

(* process_packet reads every packet of a conforming client in the state it *)
(* was written in, and has a branch for it there: for any number of         *)
(* registries, however the packets of both directions cross, until a frame  *)
(* is lost.                                                                 *)
THEOREM ServerReadsInPhaseHolds == JoinSpec => []ServerReadsInPhase
<1>1. PhaseInv => ServerReadsInPhase
  <2>1. SUFFICES ASSUME PhaseInv, toServer # <<>>
                 PROVE  /\ Head(toServer).phase = state_
                        /\ <<state_, Body(Head(toServer)).id, Head(toServer).name>> \in Handled
    BY DEF ServerReadsInPhase
  <2>2. Head(toServer) \in Message /\ Head(toServer).phase = state_
    BY <2>1, HeadInPhase DEF PhaseInv
  <2>. QED  BY <2>2, MessageHandled
<1>. QED  BY PhaseStart, PhaseStep, <1>1, PTL DEF JoinSpec

(* A conforming client meets every packet of the server in the state it     *)
(* belongs to, and knows it there by the id it was written with.            *)
THEOREM ClientReadsInPhaseHolds == JoinSpec => []ClientReadsInPhase
<1>1. PhaseInv => ClientReadsInPhase
  <2>1. SUFFICES ASSUME PhaseInv, framed, outbox # <<>>
                 PROVE  LET wire == WrittenAs(Head(outbox)) IN ReadAs(wire[1], cphase) = wire[2]
    BY DEF ClientReadsInPhase
  <2>2. Head(outbox) \in Clientbound /\ Head(outbox) = outbox[1] /\ 1 \in Flight
    BY <2>1, TailOf DEF PhaseInv, TypeOK, Flight
  <2>3. PhaseOf(Head(outbox)) = cphase
    BY <2>1, <2>2 DEF PhaseInv, FlightOfPhase
  <2>. QED  BY <2>2, <2>3, ClientboundIds
<1>. QED  BY PhaseStart, PhaseStep, <1>1, PTL DEF JoinSpec

(* Until a frame is lost, every packet of a session with a conforming       *)
(* client is read, at either end, as the packet it was written as.          *)
THEOREM ReadAsMeantHolds == JoinSpec => []ReadAsMeant
BY ServerReadsInPhaseHolds, ClientReadsInPhaseHolds, PTL DEF ReadAsMeant

(* The server holds a conforming player for spawned only when it has taken  *)
(* the chunk and the position it stands at.                                 *)
THEOREM SpawnedInTheWorldHolds == JoinSpec => []SpawnedInTheWorld
<1>1. WorldSafe => SpawnedInTheWorld
  BY DEF WorldSafe, WorldInv, Confirms, SpawnedInTheWorld, Settled, Flight
<1>. QED  BY WorldStart, WorldStep, <1>1, PTL DEF JoinSpec

(* What holds of a connection holds of it in a session: each step of the    *)
(* session is one of the connection, or none.                               *)
THEOREM SessionIsAConnection == JoinSpec => Spec
<1>1. JoinInit => Init
  BY DEF JoinInit
<1>. QED  BY <1>1, PhaseStart, PhaseStep, StepOfConnection, PTL DEF JoinSpec, Spec

(* So a session has one ticker, a spawned player has confirmed the teleport *)
(* in PLAY, and its packets are written in the order of the states.         *)
THEOREM SessionIsSafe ==
  JoinSpec => [](TimersInStep /\ OutboxInOrder)
BY SessionIsAConnection, TimersInStepHolds, OutboxInOrderHolds, PTL

(* Every variable of the session has its type; in particular a conforming   *)
(* client is sent each registry once, whatever the number of registries.    *)
THEOREM JoinTypeCorrect == JoinSpec => []JoinTypeOK
<1>1. BurstSafe => JoinTypeOK
  <2>1. SUFFICES ASSUME BurstSafe PROVE JoinTypeOK
    OBVIOUS
  <2>2. ASSUME NEW i \in 1 .. Len(toServer)
        PROVE  toServer[i].phase \in ProtocolState /\ Body(toServer[i]) \in Packet
    <3>1. CASE framed
      <4>1. toServer[i] \in Message
        BY <2>1, <3>1 DEF BurstSafe, PhaseInv, QueueLeads
      <4>. QED  BY <4>1, MessageHandled
    <3>2. CASE ~framed
      BY <2>1, <3>2 DEF BurstSafe, PhaseInv
    <3>. QED  BY <3>1, <3>2
  <2>. QED  BY <2>1, <2>2 DEF BurstSafe, PhaseInv, BurstInv, JoinTypeOK
<1>. QED  BY BurstStart, BurstStep, <1>1, PTL DEF JoinSpec

(* With all the registries that the server has, whatever a packet names has *)
(* been sent to a conforming client when it reads the packet.               *)
THEOREM ReferencesResolveHolds ==
  ASSUME Registries = Len(AllRegistries)
  PROVE  JoinSpec => []ReferencesResolve
<1>1. Len(AllRegistries) = 24
  BY DEF AllRegistries
<1>2. BurstSafe => ReferencesResolve
  <2>1. SUFFICES ASSUME BurstSafe, framed, outbox # <<>>,
                        Head(outbox) \in {"UpdateTags", "LoginPlay", "ChunkData"}
                 PROVE  ReferencesResolve
    BY DEF ReferencesResolve
  <2>2. Head(outbox) = outbox[1] /\ 1 \in Flight
    BY <2>1, TailOf DEF BurstSafe, PhaseInv, TypeOK, Flight
  <2>3. registries = 24
    <3>1. CASE Head(outbox) = "UpdateTags"
      <4>1. registries \in Nat /\ 1 + Taken = 24 + 2 /\ Taken = 1 + registries
        BY <1>1, <2>1, <2>2, <3>1 DEF BurstSafe, BurstInv, Taken
      <4>. QED  BY <4>1
    <3>2. CASE Head(outbox) \in {"LoginPlay", "ChunkData"}
      <4>1. cphase = PhaseOf(Head(outbox))
        BY <2>1, <2>2 DEF BurstSafe, PhaseInv, FlightOfPhase
      <4>2. cphase = "Play"
        BY <3>2, <4>1 DEF PhaseOf, StatusPackets, LoginPackets, ConfigPackets
      <4>. QED  BY <1>1, <2>1, <4>2 DEF BurstSafe, BurstInv
    <3>. QED  BY <2>1, <3>1, <3>2
  <2>4. /\ Known("dimension_type", 0) /\ Known("worldgen/biome", 0)
    <3>1. /\ AllRegistries[9].name = "dimension_type" /\ 0 < AllRegistries[9].entries
          /\ AllRegistries[22].name = "worldgen/biome" /\ 0 < AllRegistries[22].entries
      BY DEF AllRegistries
    <3>2. 9 \in 1 .. registries /\ 22 \in 1 .. registries
      BY <2>3
    <3>. QED  BY <3>1, <3>2 DEF Known
  <2>5. ASSUME NEW table \in RegistryTags,
               NEW i \in 1 .. Len(AllRegistries), AllRegistries[i].name = table.registry
        PROVE  Known(table.registry, table.highest)
    <3>1. table.highest < AllRegistries[i].entries
      BY <1>1, <2>5 DEF AllRegistries, RegistryTags
    <3>. QED  BY <1>1, <2>3, <2>5, <3>1 DEF Known
  <2>. QED  BY <2>1, <2>4, <2>5 DEF ReferencesResolve
<1>. QED  BY BurstStart, BurstStep, <1>2, PTL DEF JoinSpec

(* With an offline-mode server, which this program always is, neither end   *)
(* waits for the other while nothing is on its way, whatever the number of  *)
(* registries and however the packets of both directions cross: a session   *)
(* whose frames all arrive one by one and whole cannot come to a standstill *)
(* short of its end.  With FrameLost and LengthCut among the steps, this    *)
(* says that a standstill has one of these two behind it.                   *)
THEOREM NobodyWaitsHolds ==
  ASSUME OfflineMode
  PROVE  JoinSpec => []NobodyWaits
<1>1. WaitInv => NobodyWaits
  <2>1. toServer = <<>> /\ outbox = <<>> => ~Due
    BY DEF Due, Names, Members
  <2>. QED  BY <2>1 DEF WaitInv, NobodyWaits, Through
<1>2. PhaseInv /\ WaitInv /\ [JoinNext]_jvars => WaitInv'
  BY WaitStep
<1>. QED  BY PhaseStart, PhaseStep, WaitStart, <1>1, <1>2, PTL DEF JoinSpec

(* The server has the name of every conforming player that is past LOGIN.   *)
THEOREM NamedPastLoginHolds == JoinSpec => []NamedPastLogin
<1>1. NameInv => NamedPastLogin
  BY DEF NameInv, PastLogin, NamedPastLogin
<1>2. PhaseInv /\ NameInv /\ [JoinNext]_jvars => NameInv'
  BY NameStep
<1>. QED  BY PhaseStart, PhaseStep, WaitStart, <1>1, <1>2, PTL DEF JoinSpec

(* A session with a conforming client implements Lockstep: for any number   *)
(* of registries, whatever is in flight, and whether or not the socket is   *)
(* still up, the server follows the client from state to state, until a     *)
(* frame is lost.                                                           *)
THEOREM SessionInLockstep == JoinSpec => InLockstep
<1>1. PhaseInv /\ PhaseInv' /\ LockInv /\ [JoinNext]_jvars => LockInv'
  BY LockStep
<1>2. PhaseInv /\ LockInv /\ [JoinNext]_jvars =>
        [Agreement!Lead \/ Agreement!Follow]_<<cphase, IF framed THEN state_ ELSE cphase>>
  BY LockstepStep
<1>. QED
  BY PhaseStart, PhaseStep, LockStart, <1>1, <1>2, PTL DEF JoinSpec, InLockstep, Agreement!Spec
===============================================================================
