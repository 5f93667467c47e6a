----------------------------- MODULE JoinSession -----------------------------
(***************************************************************************)
(* A ServerConnection and its client.  A conforming client is the one that *)
(* 26.2.md describes and process_packet expects: it sends its handshake    *)
(* and its first request together, answers what it is sent, confirms the   *)
(* teleport, and may send its settings or leave at any time.  The other    *)
(* client sends any packet in any state.  Both are external to the code.   *)
(*                                                                         *)
(* The protocol state is kept twice, once at each end, and no packet       *)
(* carries it: an id means one thing in LOGIN and another in PLAY.  The    *)
(* session works only if every packet is read in the state it was written  *)
(* in, whatever is in flight in the other direction, and if the ids that   *)
(* connection.hpp and packet.hpp spell out are those of the generated      *)
(* tables, by which the client reads and writes.                           *)
(*                                                                         *)
(* And it works only for as long as the server reads frame by frame what   *)
(* the client wrote, which connection.hpp does not always do (FrameReader):*)
(* a frame of less than five bytes that arrives together with the next one *)
(* costs the next one its head, and a length of two bytes that arrives in  *)
(* two pieces ends the read loop.  Both are steps of this module, and what *)
(* the session promises a conforming client it promises until one of them. *)
(***************************************************************************)
EXTENDS ServerConnection, PacketTables

CONSTANTS
  MaxInfos,    \* bound: Client Information packets sent of its own accord
  MaxUnread    \* bound: packets the server has not read when a timer acts

ASSUME ClientBoundsAssumption == MaxInfos \in Nat /\ MaxUnread \in Nat

VARIABLES
  framed,     \* the server reads, frame by frame, what a conforming client
              \* wrote: never so with the other client, and no longer so
              \* once a frame is lost
  cphase,     \* protocol state at the client
  toServer,   \* packets written by the client and not yet processed
  infos,      \* Client Information packets sent so far
  registries, \* Registry Data packets the client has taken
  ponged      \* the client has its answer to the ping

client == <<framed, cphase, infos, registries, ponged>>
jvars  == <<vars, framed, cphase, toServer, infos, registries, ponged>>

-------------------------------------------------------------------------------
(***************************************************************************)
(* The ids.  What process_packet tests, with the packet that the branch    *)
(* takes it for, and the id each packet of the server writes first, with   *)
(* the packet it is meant to be.                                           *)
(***************************************************************************)
Handled ==
  {<<"Handshake", 0, "intention">>,
   <<"Status", 0, "status_request">>, <<"Status", 1, "ping_request">>,
   <<"Login", 0, "hello">>, <<"Login", 3, "login_acknowledged">>,
   <<"Configuration", 0, "client_information">>,
   <<"Configuration", 7, "select_known_packs">>,
   <<"Configuration", 3, "finish_configuration">>,
   <<"Play", 0, "accept_teleportation">>, <<"Play", 28, "keep_alive">>,
   <<"Play", 14, "client_information">>}

StatusIds ==
  [StatusResponse |-> <<0, "status_response">>, Pong |-> <<1, "pong_response">>]

LoginIds == [LoginSuccess |-> <<2, "login_finished">>]

ConfigurationIds ==
  [SelectKnownPacks      |-> <<14, "select_known_packs">>,
   UpdateEnabledFeatures |-> <<12, "update_enabled_features">>,
   RegistryData          |-> <<7, "registry_data">>,
   UpdateTags            |-> <<13, "update_tags">>,
   FinishConfiguration   |-> <<3, "finish_configuration">>]

(* Fault: the id that the position had in another version. *)
PlayIds_OlderPosition ==
  [LoginPlay      |-> <<49, "login">>,
   SetCenterChunk |-> <<94, "set_chunk_cache_center">>,
   ChunkData      |-> <<45, "level_chunk_with_light">>,
   PlayerPosition |-> <<70, "player_position">>,
   GameEvent      |-> <<38, "game_event">>,
   KeepAlive      |-> <<44, "keep_alive">>]

PlayIds ==
  [LoginPlay      |-> <<49, "login">>,
   SetCenterChunk |-> <<94, "set_chunk_cache_center">>,
   ChunkData      |-> <<45, "level_chunk_with_light">>,
   PlayerPosition |-> <<72, "player_position">>,
   GameEvent      |-> <<38, "game_event">>,
   KeepAlive      |-> <<44, "keep_alive">>]

WrittenAs(packet) ==
  CASE packet \in StatusPackets -> StatusIds[packet]
    [] packet \in LoginPackets  -> LoginIds[packet]
    [] packet \in ConfigPackets -> ConfigurationIds[packet]
    [] packet \in PlayPackets   -> PlayIds[packet]

(* The client finds the id of a packet, and the packet of an id, in the     *)
(* table of its state.                                                      *)
IdOf(name, phase) ==
  CHOOSE id \in 0 .. Len(ServerboundTable[phase]) - 1 :
    ServerboundTable[phase][id + 1] = name

ReadAs(id, phase) ==
  IF id < Len(ClientboundTable[phase]) THEN ClientboundTable[phase][id + 1] ELSE "unknown"

-------------------------------------------------------------------------------
(* A packet of the client, marked with the state it was written in.         *)
Sent(name, arg, phase) == [name |-> name, arg |-> arg, phase |-> phase]
Body(m)                == [id |-> IdOf(m.name, m.phase), arg |-> m.arg]

ClientSends(messages) ==
  toServer' = IF socket_ = "open" THEN toServer \o messages ELSE toServer

(* The client opens: intent 1 asks for the status, 2 logs in.               *)
ClientOpens(intent) ==
  /\ framed /\ cphase = "Handshake" /\ socket_ = "open"
  /\ cphase' = IF intent = 1 THEN "Status" ELSE "Login"
  /\ ClientSends(<<Sent("intention", intent, cphase),
                   Sent(IF intent = 1 THEN "status_request" ELSE "hello", 1, cphase')>>)
  /\ UNCHANGED <<vars, framed, infos, registries, ponged>>

(* What the client does with a packet of its state. *)
Answers(packet) ==
  CASE packet = "StatusResponse"      -> ClientSends(<<Sent("ping_request", 1, cphase)>>)
    [] packet = "LoginSuccess"        -> ClientSends(<<Sent("login_acknowledged", 1, cphase),
                                           Sent("client_information", 1, cphase')>>)
    [] packet = "SelectKnownPacks"    -> ClientSends(<<Sent("select_known_packs", 1, cphase)>>)
    [] packet = "FinishConfiguration" -> ClientSends(<<Sent("finish_configuration", 1, cphase)>>)
    [] packet = "PlayerPosition"      -> ClientSends(<<Sent("accept_teleportation", 1, cphase)>>)
    [] packet = "KeepAlive"           -> ClientSends(<<Sent("keep_alive", 1, cphase)>>)
    [] OTHER                          -> UNCHANGED toServer

ClientReceives ==
  /\ framed /\ outbox # <<>>
  /\ LET packet == Head(outbox) IN
       /\ cphase' = CASE packet = "LoginSuccess"        -> "Configuration"
                      [] packet = "FinishConfiguration" -> "Play"
                      [] OTHER                          -> cphase
       /\ Answers(packet)
       /\ registries' = registries + (IF packet = "RegistryData" THEN 1 ELSE 0)
       /\ ponged' = (ponged \/ packet = "Pong")
  /\ ClientTakes
  /\ UNCHANGED <<framed, infos>>

(* Client Information, whenever the player changes a setting.               *)
ClientInformation ==
  /\ framed /\ infos < MaxInfos
  /\ cphase \in {"Configuration", "Play"}
  /\ ClientSends(<<Sent("client_information", 1, cphase)>>)
  /\ infos' = infos + 1
  /\ UNCHANGED <<vars, framed, cphase, registries, ponged>>

(* A frame of the client is read whole and alone: if it is a short one, the *)
(* next has not arrived yet, and if its length is wide, all of that has.    *)
ServerReads ==
  /\ toServer # <<>>
  /\ ReadPacket(Body(Head(toServer)))
  /\ toServer' = Tail(toServer)
  /\ UNCHANGED client

(* Frames that may be under five bytes with their length (the known packs   *)
(* when the client lists none), and frames of 128 bytes or more, whose      *)
(* length takes two bytes (a long host name, a long list of packs).         *)
ShortFrames == {"status_request", "login_acknowledged", "select_known_packs",
                "finish_configuration", "accept_teleportation"}
WideFrames  == {"intention", "select_known_packs"}

(* From here on the server takes bytes out of the middle of frames for      *)
(* lengths and ids: nobody wrote what it reads.                             *)
LosesFraming ==
  /\ framed' = FALSE
  /\ toServer' = <<>>
  /\ UNCHANGED <<cphase, infos, registries, ponged>>

(* A short frame arrives together with the next one: the server has asked   *)
(* for five bytes, processes the short frame, and forgets the others.       *)
FrameLost ==
  /\ framed /\ Len(toServer) > 1
  /\ Head(toServer).name \in ShortFrames
  /\ ReadPacket(Body(Head(toServer)))
  /\ LosesFraming

(* One byte of a length of two arrives alone: it does not decode, and the   *)
(* read loop ends.                                                          *)
LengthCut ==
  /\ framed /\ toServer # <<>>
  /\ Head(toServer).name \in WideFrames
  /\ ReadFails
  /\ LosesFraming

(* What is not framed, from the other client or after a loss: any packet, a *)
(* length that does not decode, one whose body never comes, or silence.     *)
AnyClient ==
  /\ ~framed
  /\ (\E p \in Packet : ReadPacket(p)) \/ ReadFails \/ ClientTakes
  /\ UNCHANGED <<client, toServer>>

(* A conforming client gives the read loop no reason to stop but its going. *)
ServerReadFails ==
  /\ socket_ = "closed"
  /\ ReadFails
  /\ UNCHANGED <<client, toServer>>

(* The rest of the connection runs as it is: its timers, its owner, and the *)
(* client that leaves.                                                      *)
Runs(A) ==
  /\ Len(toServer) =< MaxUnread
  /\ A
  /\ UNCHANGED <<client, toServer>>

-------------------------------------------------------------------------------
JoinInit ==
  /\ Init
  /\ framed \in BOOLEAN
  /\ cphase = "Handshake"
  /\ toServer = <<>>
  /\ infos = 0
  /\ registries = 0
  /\ ponged = FALSE

JoinNext ==
  \/ \E intent \in {1, 2} : ClientOpens(intent)
  \/ ClientReceives
  \/ ClientInformation
  \/ ServerReads
  \/ ServerReadFails
  \/ FrameLost
  \/ LengthCut
  \/ AnyClient
  \/ Runs(Timers)
  \/ Runs(Close)
  \/ Runs(ClientLeaves)

(* The io_context runs every handler that is queued, timers expire, and a   *)
(* read on a socket that is gone fails.  TCP delivers both ways while the   *)
(* socket is up, and a conforming client takes and answers what reaches it: *)
(* of the other, and of a client whose frames are lost, nothing is assumed; *)
(* nor is it assumed that a frame is ever lost.                             *)
JoinFairness ==
  /\ WF_jvars(ClientReceives)
  /\ WF_jvars(ServerReads)
  /\ WF_jvars(ServerReadFails)
  /\ WF_jvars(Runs(KeepAliveExpires))
  /\ WF_jvars(Runs(KeepAliveTick))
  /\ WF_jvars(Runs(KeepAliveAborted))
  /\ WF_jvars(Runs(TeleportExpires))
  /\ WF_jvars(Runs(TeleportDone))

JoinSpec == JoinInit /\ [][JoinNext]_jvars /\ JoinFairness

-------------------------------------------------------------------------------
(* Every variable of the client has its type, and those of the server theirs. *)
JoinTypeOK ==
  /\ TypeOK
  /\ framed \in BOOLEAN
  /\ cphase \in ProtocolState
  /\ \A i \in 1 .. Len(toServer) :
       /\ toServer[i].phase \in ProtocolState
       /\ Body(toServer[i]) \in Packet
  /\ infos \in 0 .. MaxInfos
  /\ registries \in 0 .. Registries
  /\ ponged \in BOOLEAN

(* Until a frame is lost: the properties below that name a conforming       *)
(* client or player hold while the session is framed, and what FrameLost    *)
(* and LengthCut leave behind is the arbitrary client of ServerConnection.  *)

(* process_packet reads every packet of a conforming client in the state it *)
(* was written in, although each end changes its own state alone and        *)
(* packets of two states are in flight together; and there is a branch for  *)
(* that id in that state, which takes it for the packet that was meant.     *)
ServerReadsInPhase ==
  toServer # <<>> =>
    LET m == Head(toServer) IN
      /\ m.phase = state_
      /\ <<state_, Body(m).id, m.name>> \in Handled

(* A conforming client meets every packet of the server in the state it     *)
(* belongs to, and finds there, under the id that was written, the packet   *)
(* that was meant.                                                          *)
ClientReadsInPhase ==
  framed /\ outbox # <<>> =>
    LET wire == WrittenAs(Head(outbox)) IN ReadAs(wire[1], cphase) = wire[2]

(* So every packet, in either direction, is read as what it was written as, *)
(* for as long as no frame is lost.                                         *)
ReadAsMeant == ServerReadsInPhase /\ ClientReadsInPhase

(* The server holds a conforming player for spawned only when the client    *)
(* has taken the chunk and the position it stands at.                       *)
SpawnedInTheWorld ==
  framed /\ player_lifecycle_ = "SPAWNED_AND_READY" =>
    \A i \in 1 .. Len(outbox) : outbox[i] \in {"GameEvent", "KeepAlive"}

(* As long as no frame is lost, neither end ever waits for the other while  *)
(* nothing is on its way: with both directions empty and the socket up, a   *)
(* conforming client has not opened yet, or has its pong, or its player is  *)
(* spawned.  And the server has not stopped reading.  Once one is lost it   *)
(* does stand still: the read loop has ended, or the body of a length that  *)
(* nobody wrote is awaited for ever.                                        *)
NobodyWaits ==
  framed /\ socket_ = "open" =>
    /\ reading
    /\ toServer = <<>> /\ outbox = <<>> =>
         cphase = "Handshake" \/ ponged \/ player_lifecycle_ = "SPAWNED_AND_READY"

(* The server never goes past LOGIN with a conforming player it has no name *)
(* for, although the branch that does so does not look at the name.         *)
NamedPastLogin ==
  framed /\ state_ \in {"Configuration", "Play"} => username_ # NoName

Known(registry, id) ==
  \E i \in 1 .. registries :
    AllRegistries[i].name = registry /\ id < AllRegistries[i].entries

(* Ids in a packet name entries of registries sent earlier: when a client   *)
(* reads the tags, the login or the chunk, it has been sent the registry of *)
(* every entry that is named, and the registry is that long.  Registries    *)
(* that are built into the client are not sent.                             *)
ReferencesResolve ==
  framed /\ outbox # <<>> =>
    CASE Head(outbox) = "UpdateTags" ->
           \A table \in RegistryTags :
             (\E i \in 1 .. Len(AllRegistries) : AllRegistries[i].name = table.registry)
               => Known(table.registry, table.highest)
      [] Head(outbox) = "LoginPlay" -> Known("dimension_type", 0)
      [] Head(outbox) = "ChunkData" -> Known("worldgen/biome", 0)
      [] OTHER -> TRUE

(* The two ends of a session with a conforming client go through the states *)
(* in lockstep, the client first: process_packet changes state_ only to the *)
(* state the client is in already, and the client is never two changes      *)
(* ahead of it, also while a socket that is gone is read to its end.  It is *)
(* promised until a frame is lost: the server then follows nobody, and is   *)
(* counted as where the client is.                                          *)
Agreement == INSTANCE Lockstep WITH
  leader   <- cphase,
  follower <- IF framed THEN state_ ELSE cphase

InLockstep == Agreement!Spec

(* A client that logs in and stays becomes SPAWNED_AND_READY, and one that  *)
(* asks for the status gets it, and its pong, unless a frame is lost.       *)
JoinCompletes ==
  /\ cphase = "Login" ~>
       (player_lifecycle_ = "SPAWNED_AND_READY" \/ socket_ = "closed" \/ ~framed)
  /\ cphase = "Status" ~> (ponged \/ socket_ = "closed" \/ ~framed)
===============================================================================
