--------------------------- MODULE ServerConnection ---------------------------
(***************************************************************************)
(* One accepted socket of the server: papermc::core::network::             *)
(* ServerConnection (include/core/network/connection.hpp).  The module is  *)
(* about packets: the bytes of a packet are read by FrameReader and        *)
(* written by FrameWriter, and here a packet is an id with what its body   *)
(* decodes to.  The client is arbitrary: it may send any packet in any     *)
(* state, go silent, or leave.                                             *)
(*                                                                         *)
(* Three kinds of handlers run for a connection, each kept alive by the    *)
(* shared_ptr it captures: the read loop, the waits of keep_alive_timer_   *)
(* and the waits of teleport_confirm_timer_.  The io_context has several   *)
(* threads and there is no strand, so a timer may expire, and its handler  *)
(* may already be queued, at any moment of the read loop.                  *)
(***************************************************************************)
EXTENDS Integers, Sequences, FiniteSets

CONSTANTS
  OfflineMode,   \* offline_mode_, fixed when the connection is made
  Closable,      \* whether the owner ever calls close(): this program never does
  Registries,    \* number of registries sent to a client that configures
  MaxOutbox,     \* bound: packets in flight before the server handles more
  MaxPings       \* bound: keep-alives in flight before the next one expires

ASSUME OfflineModeAssumption == OfflineMode \in BOOLEAN
ASSUME ClosableAssumption    == Closable \in BOOLEAN
ASSUME RegistriesAssumption  == Registries \in Nat
ASSUME BoundsAssumption      == MaxOutbox \in Nat /\ MaxPings \in Nat

VARIABLES
  state_,                    \* protocol state the next packet is read in
  player_lifecycle_,
  username_,                 \* NoName until a Login Start is decoded
  teleport_confirmed_,
  keep_alive_timer_,         \* the waits started on each timer
  teleport_confirm_timer_,
  reading,                   \* an asynchronous read is outstanding
  socket_,                   \* is the TCP connection still up?
  outbox                     \* packets written, not yet taken by the client

vars == <<state_, player_lifecycle_, username_, teleport_confirmed_,
          keep_alive_timer_, teleport_confirm_timer_, reading, socket_, outbox>>

session == <<state_, player_lifecycle_, username_, teleport_confirmed_>>
timers  == <<keep_alive_timer_, teleport_confirm_timer_>>

-------------------------------------------------------------------------------
(***************************************************************************)
(* Packets.  A serverbound packet is the id read from its payload and the  *)
(* value its body decodes to: the next state of a handshake, the user of a *)
(* login start, the id of a teleport confirmation; Malformed is a body the *)
(* decoder of that packet rejects.  The id 2 stands for every id no branch *)
(* of process_packet tests, and NoId for a payload too short to have one.  *)
(***************************************************************************)
ProtocolState == {"Handshake", "Status", "Login", "Configuration", "Play"}

NoId       == -1
Malformed  == -1
NoName     == 0
PacketIds  == {NoId, 0, 1, 2, 3, 7, 14, 28}
Values     == {1, 2}
Packet     == [id : PacketIds, arg : Values \cup {Malformed}]
(* Fault: what deserialize returns is used without a look at it. *)
Decodes_Always(p) == TRUE

Decodes(p) == p.arg # Malformed

StatusPackets == {"StatusResponse", "Pong"}
LoginPackets  == {"LoginSuccess"}
ConfigPackets == {"SelectKnownPacks", "UpdateEnabledFeatures", "RegistryData",
                  "UpdateTags", "FinishConfiguration"}
JoinPackets   == {"LoginPlay", "SetCenterChunk", "ChunkData",
                  "PlayerPosition", "GameEvent"}
PlayPackets   == JoinPackets \cup {"KeepAlive"}
Clientbound   == StatusPackets \cup LoginPackets \cup ConfigPackets \cup PlayPackets

(* Fault: the tags are sent before the registries they are about. *)
ConfigurationBurst_TagsFirst ==
  <<"UpdateEnabledFeatures", "UpdateTags">>
    \o [r \in 1 .. Registries |-> "RegistryData"]
    \o <<"FinishConfiguration">>

(* What a client that has answered the known packs is sent, in order. *)
ConfigurationBurst ==
  <<"UpdateEnabledFeatures">>
    \o [r \in 1 .. Registries |-> "RegistryData"]
    \o <<"UpdateTags", "FinishConfiguration">>

(* Fault: the position is sent before the chunk it lies in. *)
JoinSequence_PositionFirst ==
  <<"LoginPlay", "PlayerPosition", "SetCenterChunk", "ChunkData", "GameEvent">>

(* What a client that enters PLAY is sent, in order. *)
JoinSequence ==
  <<"LoginPlay", "SetCenterChunk", "ChunkData", "PlayerPosition", "GameEvent">>

(* send_packet_buf: a packet for a socket that is gone only logs a warning. *)
Send(packets) ==
  outbox' = IF socket_ = "open" THEN outbox \o packets ELSE outbox

-------------------------------------------------------------------------------
(***************************************************************************)
(* Timers.  A steady_timer owns the waits started on it.  A wait that is   *)
(* waiting becomes expired when the time comes (its handler is queued with *)
(* no error) or aborted when the timer is cancelled or set again; cancel   *)
(* cannot recall a handler that is already queued.                         *)
(***************************************************************************)
NoWait == [waiting |-> 0, expired |-> 0, aborted |-> 0]

(* Fault: the timer is forgotten. *)
Cancelled_Forgotten(t) == t

Cancelled(t) ==
  [waiting |-> 0, expired |-> t.expired, aborted |-> t.aborted + t.waiting]
Started(t) ==
  [waiting |-> 1, expired |-> t.expired, aborted |-> t.aborted + t.waiting]
Expired(t) ==
  [waiting |-> t.waiting - 1, expired |-> t.expired + 1, aborted |-> t.aborted]

(* A queued handler is taken from the queue, with or without an error. *)
Fired(t) ==
  [waiting |-> t.waiting, expired |-> t.expired - 1, aborted |-> t.aborted]
Dropped(t) ==
  [waiting |-> t.waiting, expired |-> t.expired, aborted |-> t.aborted - 1]

Outstanding(t) == t.waiting + t.expired + t.aborted

-------------------------------------------------------------------------------
(***************************************************************************)
(* process_packet: one action per branch.                                  *)
(***************************************************************************)
Handshake(p) ==
  /\ state_ = "Handshake" /\ p.id = 0 /\ Decodes(p)
  /\ state_' = IF p.arg = 1 THEN "Status" ELSE "Login"
  /\ UNCHANGED <<player_lifecycle_, username_, teleport_confirmed_, timers, outbox>>

StatusRequest(p) ==
  /\ state_ = "Status" /\ p.id = 0
  /\ Send(<<"StatusResponse">>)
  /\ UNCHANGED <<session, timers>>

PingRequest(p) ==
  /\ state_ = "Status" /\ p.id = 1 /\ Decodes(p)
  /\ Send(<<"Pong">>)
  /\ UNCHANGED <<session, timers>>

(* Fault: Login Success is taken to end LOGIN, without the acknowledgement. *)
LoginStart_Transitions(p) ==
  /\ state_ = "Login" /\ p.id = 0 /\ Decodes(p)
  /\ username_' = p.arg
  /\ state_' = "Configuration"
  /\ IF OfflineMode THEN Send(<<"LoginSuccess">>) ELSE UNCHANGED outbox
  /\ UNCHANGED <<player_lifecycle_, teleport_confirmed_, timers>>

(* Fault: the name goes into a local variable of the branch. *)
LoginStart_Shadows(p) ==
  /\ state_ = "Login" /\ p.id = 0 /\ Decodes(p)
  /\ IF OfflineMode THEN Send(<<"LoginSuccess">>) ELSE UNCHANGED outbox
  /\ UNCHANGED <<session, timers>>

LoginStart(p) ==
  /\ state_ = "Login" /\ p.id = 0 /\ Decodes(p)
  /\ username_' = p.arg
  /\ IF OfflineMode THEN Send(<<"LoginSuccess">>) ELSE UNCHANGED outbox
  /\ UNCHANGED <<state_, player_lifecycle_, teleport_confirmed_, timers>>

(* Fault: the ticker is started for CONFIGURATION, where it dies. *)
LoginAcknowledged_Ticks(p) ==
  /\ state_ = "Login" /\ p.id = 3
  /\ state_' = "Configuration"
  /\ Send(<<"SelectKnownPacks">>)
  /\ keep_alive_timer_' = Started(keep_alive_timer_)
  /\ UNCHANGED <<player_lifecycle_, username_, teleport_confirmed_,
                 teleport_confirm_timer_>>

(* Fault: the known packs are not asked for. *)
LoginAcknowledged_Silent(p) ==
  /\ state_ = "Login" /\ p.id = 3
  /\ state_' = "Configuration"
  /\ UNCHANGED <<player_lifecycle_, username_, teleport_confirmed_, timers, outbox>>

LoginAcknowledged(p) ==
  /\ state_ = "Login" /\ p.id = 3
  /\ state_' = "Configuration"
  /\ Send(<<"SelectKnownPacks">>)
  /\ UNCHANGED <<player_lifecycle_, username_, teleport_confirmed_, timers>>

(* Fault: the known packs are answered in PLAY too. *)
SelectKnownPacks_InPlay(p) ==
  /\ state_ \in {"Configuration", "Play"} /\ p.id = 7
  /\ Send(ConfigurationBurst)
  /\ UNCHANGED <<session, timers>>

(* Fault: the state ends with the packet that says so, not with its answer. *)
SelectKnownPacks_Finishes(p) ==
  /\ state_ = "Configuration" /\ p.id = 7
  /\ state_' = "Play"
  /\ Send(ConfigurationBurst)
  /\ UNCHANGED <<player_lifecycle_, username_, teleport_confirmed_, timers>>

SelectKnownPacks(p) ==
  /\ state_ = "Configuration" /\ p.id = 7
  /\ Send(ConfigurationBurst)
  /\ UNCHANGED <<session, timers>>

(* Fault: a second acknowledgement makes the player join again. *)
FinishConfigurationAck_Again(p) ==
  /\ state_ \in {"Configuration", "Play"} /\ p.id = 3
  /\ state_' = "Play"
  /\ Send(JoinSequence)
  /\ teleport_confirmed_' = FALSE
  /\ teleport_confirm_timer_' = Started(teleport_confirm_timer_)
  /\ keep_alive_timer_' = Started(keep_alive_timer_)
  /\ UNCHANGED <<player_lifecycle_, username_>>

(* The whole join sequence, with both timers started on the way. *)
FinishConfigurationAck(p) ==
  /\ state_ = "Configuration" /\ p.id = 3
  /\ state_' = "Play"
  /\ Send(JoinSequence)
  /\ teleport_confirmed_' = FALSE
  /\ teleport_confirm_timer_' = Started(teleport_confirm_timer_)
  /\ keep_alive_timer_' = Started(keep_alive_timer_)
  /\ UNCHANGED <<player_lifecycle_, username_>>

ConfirmTeleportation(p) ==
  /\ state_ = "Play" /\ p.id = 0 /\ Decodes(p)
  /\ teleport_confirmed_' = TRUE
  /\ teleport_confirm_timer_' = Cancelled(teleport_confirm_timer_)
  /\ player_lifecycle_' = "SPAWNED_AND_READY"
  /\ UNCHANGED <<state_, username_, keep_alive_timer_, outbox>>

(* The answer to a keep-alive stores a timestamp that nothing reads.        *)
KeepAliveResponse(p) ==
  /\ state_ = "Play" /\ p.id = 28 /\ Decodes(p)
  /\ UNCHANGED <<session, timers, outbox>>

(* Every other packet is at most logged: client information, an id the      *)
(* state does not know, a body that does not decode.                        *)
Acts(p) ==
  \/ state_ = "Handshake" /\ p.id = 0 /\ Decodes(p)
  \/ state_ = "Status" /\ p.id = 0
  \/ state_ = "Status" /\ p.id = 1 /\ Decodes(p)
  \/ state_ = "Login" /\ p.id = 0 /\ Decodes(p)
  \/ state_ = "Login" /\ p.id = 3
  \/ state_ = "Configuration" /\ p.id \in {3, 7}
  \/ state_ = "Play" /\ p.id \in {0, 28} /\ Decodes(p)

Ignored(p) ==
  /\ ~Acts(p)
  /\ UNCHANGED <<session, timers, outbox>>

ProcessPacket(p) ==
  \/ Handshake(p)
  \/ StatusRequest(p) \/ PingRequest(p)
  \/ LoginStart(p) \/ LoginAcknowledged(p)
  \/ SelectKnownPacks(p) \/ FinishConfigurationAck(p)
  \/ ConfirmTeleportation(p) \/ KeepAliveResponse(p)
  \/ Ignored(p)

-------------------------------------------------------------------------------
(***************************************************************************)
(* The read loop, the ticker and the teleport timer.                       *)
(***************************************************************************)

(* Fault: the next read is started only after a packet that was understood. *)
ReadPacket_StopsOnIgnored(p) ==
  /\ reading
  /\ Len(outbox) =< MaxOutbox
  /\ ProcessPacket(p)
  /\ reading' = Acts(p)
  /\ UNCHANGED socket_

(* A payload has been read: it is processed and the next read starts.  It  *)
(* is any packet, as the client is arbitrary, and also when the client is  *)
(* not but the bytes that do_read_packet_payload forgets (FrameReader) make *)
(* the server read what nobody wrote.  Bytes already received are still    *)
(* read when the peer has gone.                                            *)
ReadPacket(p) ==
  /\ reading
  /\ Len(outbox) =< MaxOutbox
  /\ ProcessPacket(p)
  /\ UNCHANGED <<reading, socket_>>

(* A read fails: end of file or reset, or a length prefix that does not     *)
(* decode, also because only a part of it has arrived.  The handler returns *)
(* without another read, and without close().                               *)
ReadFails ==
  /\ reading
  /\ reading' = FALSE
  /\ UNCHANGED <<session, timers, socket_, outbox>>

KeepAliveExpires ==
  /\ keep_alive_timer_.waiting > 0
  /\ Cardinality({i \in 1 .. Len(outbox) : outbox[i] = "KeepAlive"}) =< MaxPings
  /\ keep_alive_timer_' = Expired(keep_alive_timer_)
  /\ UNCHANGED <<session, teleport_confirm_timer_, reading, socket_, outbox>>

(* Fault: the keep-alive is sent and the timer is not set again. *)
KeepAliveTick_Once ==
  /\ keep_alive_timer_.expired > 0
  /\ keep_alive_timer_' = Fired(keep_alive_timer_)
  /\ Send(<<"KeepAlive">>)
  /\ UNCHANGED <<session, teleport_confirm_timer_, reading, socket_>>

(* The keep-alive handler without error: it sends and sets the timer again. *)
KeepAliveTick ==
  /\ keep_alive_timer_.expired > 0
  /\ IF state_ = "Play"
       THEN Send(<<"KeepAlive">>) /\ keep_alive_timer_' = Started(Fired(keep_alive_timer_))
       ELSE UNCHANGED outbox /\ keep_alive_timer_' = Fired(keep_alive_timer_)
  /\ UNCHANGED <<session, teleport_confirm_timer_, reading, socket_>>

(* Fault: the handler does not look at its error, and sets the timer again. *)
KeepAliveAborted_Rearms ==
  /\ keep_alive_timer_.aborted > 0
  /\ keep_alive_timer_' = Started(Dropped(keep_alive_timer_))
  /\ UNCHANGED <<session, teleport_confirm_timer_, reading, socket_, outbox>>

KeepAliveAborted ==
  /\ keep_alive_timer_.aborted > 0
  /\ keep_alive_timer_' = Dropped(keep_alive_timer_)
  /\ UNCHANGED <<session, teleport_confirm_timer_, reading, socket_, outbox>>

TeleportExpires ==
  /\ teleport_confirm_timer_.waiting > 0
  /\ teleport_confirm_timer_' = Expired(teleport_confirm_timer_)
  /\ UNCHANGED <<session, keep_alive_timer_, reading, socket_, outbox>>

(* The teleport handler, with or without error: it logs at most. *)
TeleportDone ==
  /\ \/ /\ teleport_confirm_timer_.expired > 0
        /\ teleport_confirm_timer_' = Fired(teleport_confirm_timer_)
     \/ /\ teleport_confirm_timer_.aborted > 0
        /\ teleport_confirm_timer_' = Dropped(teleport_confirm_timer_)
  /\ UNCHANGED <<session, keep_alive_timer_, reading, socket_, outbox>>

(* close() cancels both timers and closes the socket, whatever has become   *)
(* of it; what was written before may reach the client up to any point.     *)
Close ==
  /\ Closable
  /\ keep_alive_timer_' = Cancelled(keep_alive_timer_)
  /\ teleport_confirm_timer_' = Cancelled(teleport_confirm_timer_)
  /\ socket_' = "closed"
  /\ \E n \in 0 .. Len(outbox) : outbox' = SubSeq(outbox, 1, n)
  /\ UNCHANGED <<session, reading>>

(* The environment: the client takes a packet, or leaves. *)
ClientTakes ==
  /\ outbox # <<>>
  /\ outbox' = Tail(outbox)
  /\ UNCHANGED <<session, timers, reading, socket_>>

ClientLeaves ==
  /\ socket_ = "open"
  /\ socket_' = "closed"
  /\ outbox' = <<>>
  /\ UNCHANGED <<session, timers, reading>>

-------------------------------------------------------------------------------
Init ==
  /\ state_ = "Handshake"
  /\ player_lifecycle_ = "JOINING"
  /\ username_ = NoName
  /\ teleport_confirmed_ = FALSE
  /\ keep_alive_timer_ = NoWait
  /\ teleport_confirm_timer_ = NoWait
  /\ reading = TRUE
  /\ socket_ = "open"
  /\ outbox = <<>>

Timers ==
  \/ KeepAliveExpires \/ KeepAliveTick \/ KeepAliveAborted
  \/ TeleportExpires \/ TeleportDone

Next ==
  \/ \E p \in Packet : ReadPacket(p)
  \/ ReadFails
  \/ Timers
  \/ Close
  \/ ClientTakes
  \/ ClientLeaves

Spec == Init /\ [][Next]_vars

-------------------------------------------------------------------------------
(***************************************************************************)
(* Properties.                                                             *)
(***************************************************************************)
Waits == [waiting : Nat, expired : Nat, aborted : Nat]

(* Every variable has its type. *)
TypeOK ==
  /\ state_ \in ProtocolState
  /\ player_lifecycle_ \in {"JOINING", "SPAWNED_AND_READY"}
  /\ username_ \in Values \cup {NoName}
  /\ teleport_confirmed_ \in BOOLEAN
  /\ keep_alive_timer_ \in Waits
  /\ teleport_confirm_timer_ \in Waits
  /\ reading \in BOOLEAN
  /\ socket_ \in {"open", "closed"}
  /\ outbox \in Seq(Clientbound)

(* The keep-alive ticker runs in PLAY and only there, and there is one: no  *)
(* sequence of packets starts start_keep_alive_timer a second time, and no  *)
(* path through its handler leaves a PLAY session without a wait, unless    *)
(* close() came first.                                                      *)
OneTicker ==
  LET waits == Outstanding(keep_alive_timer_) IN
  /\ state_ # "Play" => waits = 0
  /\ state_ = "Play" => waits = 1 \/ (waits = 0 /\ socket_ = "closed")

(* A player is SPAWNED_AND_READY only in PLAY with the teleport confirmed,  *)
(* and from then on the two-second timer can no longer expire: whatever     *)
(* wait of it is left was queued before the confirmation came.              *)
SpawnedIsConfirmed ==
  player_lifecycle_ = "SPAWNED_AND_READY" =>
    /\ state_ = "Play" /\ teleport_confirmed_
    /\ teleport_confirm_timer_.waiting = 0

(* So the timers follow the session, although their handlers may be queued  *)
(* when it moves on: the ticker runs in PLAY alone, once, and the teleport  *)
(* timer never runs out for a player that has confirmed.                    *)
TimersInStep == OneTicker /\ SpawnedIsConfirmed

PhaseOf(packet) ==
  CASE packet \in StatusPackets -> "Status"
    [] packet \in LoginPackets  -> "Login"
    [] packet \in ConfigPackets -> "Configuration"
    [] OTHER                    -> "Play"

(* The packets in flight never run ahead of the connection, and never go    *)
(* back: a client reading them in order meets the packets of LOGIN, then of *)
(* CONFIGURATION, then of PLAY, and those of STATUS never mix with them.    *)
Rank == [Handshake |-> 0, Status |-> 9, Login |-> 1, Configuration |-> 2, Play |-> 3]

OutboxInPhaseOrder ==
  /\ \A i \in 1 .. Len(outbox) :
       /\ Rank[PhaseOf(outbox[i])] =< Rank[state_]
       /\ (PhaseOf(outbox[i]) = "Status") <=> (state_ = "Status")
  /\ \A i, j \in 1 .. Len(outbox) :
       i < j => Rank[PhaseOf(outbox[i])] =< Rank[PhaseOf(outbox[j])]

(* No keep-alive overtakes the join sequence: the ticker starts only when   *)
(* the last of it has been written.                                         *)
JoinBeforeKeepAlive ==
  \A i, j \in 1 .. Len(outbox) :
    i < j /\ outbox[i] = "KeepAlive" => outbox[j] = "KeepAlive"

(* So a client that reads what is in flight, however late, meets the states *)
(* in their order and the whole of the join before the first keep-alive.    *)
OutboxInOrder == OutboxInPhaseOrder /\ JoinBeforeKeepAlive

(* A session that has reached PLAY is sent keep-alives for as long as the   *)
(* client is there to take them (the client gives up after 20 seconds       *)
(* without one).                                                            *)
TickerKeepsTicking ==
  state_ = "Play" ~> ("KeepAlive" \in {outbox[i] : i \in 1 .. Len(outbox)}
                        \/ socket_ = "closed")

(* The connection object is released: no handler holds it any more. *)
Released ==
  /\ ~reading
  /\ Outstanding(keep_alive_timer_) = 0
  /\ Outstanding(teleport_confirm_timer_) = 0

(* Once the read loop has ended, only a keep-alive wait that can still tick *)
(* holds the object: the teleport timer and the aborted waits let it go.    *)
OnlyTickerHolds ==
  (~reading /\ keep_alive_timer_.waiting + keep_alive_timer_.expired = 0) ~> Released

===============================================================================
