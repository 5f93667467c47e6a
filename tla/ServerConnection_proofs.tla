------------------------ MODULE ServerConnection_proofs ------------------------
(***************************************************************************)
(* Proofs about ServerConnection, for every mode, any number of registries *)
(* and any bounds: its types, its one ticker, that a spawned player has    *)
(* confirmed the teleport, and the order of the packets it writes.         *)
(***************************************************************************)
EXTENDS ServerConnection, TLAPS

(* Send keeps the outbox a sequence of clientbound packets. *)
LEMMA SendType ==
  ASSUME outbox \in Seq(Clientbound), NEW packets \in Seq(Clientbound), Send(packets)
  PROVE  outbox' \in Seq(Clientbound)
BY DEF Send

(* What process_packet writes in one go is clientbound. *)
LEMMA BurstTypes ==
  /\ ConfigurationBurst \in Seq(Clientbound)
  /\ JoinSequence \in Seq(Clientbound)
  /\ \A packet \in Clientbound : <<packet>> \in Seq(Clientbound)
<1>1. [r \in 1 .. Registries |-> "RegistryData"] \in Seq(Clientbound)
  BY RegistriesAssumption DEF Clientbound, ConfigPackets
<1>2. /\ <<"UpdateEnabledFeatures">> \in Seq(Clientbound)
      /\ <<"UpdateTags", "FinishConfiguration">> \in Seq(Clientbound)
  BY DEF Clientbound, ConfigPackets
<1>3. ConfigurationBurst \in Seq(Clientbound)
  BY <1>1, <1>2 DEF ConfigurationBurst
<1>4. JoinSequence \in Seq(Clientbound)
  BY DEF JoinSequence, Clientbound, PlayPackets, JoinPackets
<1>. QED  BY <1>3, <1>4

(* The operations on a timer keep its three counts natural numbers, as long *)
(* as the wait that expires, or the handler that runs, is there.            *)
LEMMA TimerTypes ==
  ASSUME NEW t \in Waits
  PROVE  /\ Cancelled(t) \in Waits
         /\ Started(t) \in Waits
         /\ t.waiting > 0 => Expired(t) \in Waits
         /\ t.expired > 0 => Fired(t) \in Waits
         /\ t.aborted > 0 => Dropped(t) \in Waits
BY DEF Waits, Cancelled, Started, Expired, Fired, Dropped

(* A connection that was accepted has its types. *)
LEMMA InitType == Init => TypeOK
<1>. SUFFICES ASSUME Init PROVE TypeOK
  OBVIOUS
<1>1. outbox \in Seq(Clientbound)
  BY DEF Init
<1>2. keep_alive_timer_ \in Waits /\ teleport_confirm_timer_ \in Waits
  BY DEF Init, NoWait, Waits
<1>. QED
  BY <1>1, <1>2 DEF Init, TypeOK, ProtocolState

(* A packet keeps the types, whichever branch of process_packet takes it. *)
LEMMA ProcessPacketType ==
  ASSUME TypeOK, NEW p \in Packet, ProcessPacket(p)
  PROVE  /\ state_' \in ProtocolState
         /\ player_lifecycle_' \in {"JOINING", "SPAWNED_AND_READY"}
         /\ username_' \in Values \cup {NoName}
         /\ teleport_confirmed_' \in BOOLEAN
         /\ keep_alive_timer_' \in Waits
         /\ teleport_confirm_timer_' \in Waits
         /\ outbox' \in Seq(Clientbound)
<1>. USE DEF TypeOK, session, timers, ProtocolState
<1>1. CASE Handshake(p)
  BY <1>1 DEF Handshake
<1>2. CASE StatusRequest(p)
  <2>1. outbox' \in Seq(Clientbound)
    BY <1>2, SendType, BurstTypes DEF StatusRequest, Clientbound, StatusPackets
  <2>. QED  BY <1>2, <2>1 DEF StatusRequest
<1>3. CASE PingRequest(p)
  <2>1. outbox' \in Seq(Clientbound)
    BY <1>3, SendType, BurstTypes DEF PingRequest, Clientbound, StatusPackets
  <2>. QED  BY <1>3, <2>1 DEF PingRequest
<1>4. CASE LoginStart(p)
  <2>1. outbox' \in Seq(Clientbound)
    BY <1>4, SendType, BurstTypes DEF LoginStart, Clientbound, LoginPackets
  <2>. QED  BY <1>4, <2>1 DEF LoginStart, Packet, Decodes, Malformed, Values
<1>5. CASE LoginAcknowledged(p)
  <2>1. outbox' \in Seq(Clientbound)
    BY <1>5, SendType, BurstTypes DEF LoginAcknowledged, Clientbound, ConfigPackets
  <2>. QED  BY <1>5, <2>1 DEF LoginAcknowledged
<1>6. CASE SelectKnownPacks(p)
  <2>1. outbox' \in Seq(Clientbound)
    BY <1>6, SendType, BurstTypes DEF SelectKnownPacks
  <2>. QED  BY <1>6, <2>1 DEF SelectKnownPacks
<1>7. CASE FinishConfigurationAck(p)
  <2>1. outbox' \in Seq(Clientbound)
    BY <1>7, SendType, BurstTypes DEF FinishConfigurationAck
  <2>. QED  BY <1>7, <2>1, TimerTypes DEF FinishConfigurationAck
<1>8. CASE ConfirmTeleportation(p)
  BY <1>8, TimerTypes DEF ConfirmTeleportation, Packet, Decodes, Malformed, Values
<1>9. CASE KeepAliveResponse(p)
  BY <1>9 DEF KeepAliveResponse
<1>10. CASE Ignored(p)
  BY <1>10 DEF Ignored
<1>. QED
  BY <1>1, <1>2, <1>3, <1>4, <1>5, <1>6, <1>7, <1>8, <1>9, <1>10 DEF ProcessPacket

(* Every step keeps the types: packets, waits, bounds. *)
LEMMA NextType == TypeOK /\ [Next]_vars => TypeOK'
<1> SUFFICES ASSUME TypeOK, [Next]_vars PROVE TypeOK'
  OBVIOUS
<1>1. ASSUME NEW p \in Packet, ReadPacket(p) PROVE TypeOK'
  <2>1. ProcessPacket(p) /\ UNCHANGED <<reading, socket_>>
    BY <1>1 DEF ReadPacket
  <2>. QED  BY <2>1, ProcessPacketType DEF TypeOK
<1>2. CASE ReadFails
  BY <1>2 DEF ReadFails, TypeOK, session, timers
<1>3. CASE KeepAliveExpires
  BY <1>3, TimerTypes DEF KeepAliveExpires, TypeOK, session
<1>4. CASE KeepAliveTick
  <2>1. Fired(keep_alive_timer_) \in Waits /\ Started(Fired(keep_alive_timer_)) \in Waits
    BY <1>4, TimerTypes DEF KeepAliveTick, TypeOK
  <2>2. outbox' \in Seq(Clientbound)
    BY <1>4, SendType, BurstTypes
       DEF KeepAliveTick, TypeOK, Clientbound, PlayPackets
  <2>. QED  BY <1>4, <2>1, <2>2 DEF KeepAliveTick, TypeOK, session
<1>5. CASE KeepAliveAborted
  BY <1>5, TimerTypes DEF KeepAliveAborted, TypeOK, session
<1>6. CASE TeleportExpires
  BY <1>6, TimerTypes DEF TeleportExpires, TypeOK, session
<1>7. CASE TeleportDone
  BY <1>7, TimerTypes DEF TeleportDone, TypeOK, session
<1>8. CASE Close
  BY <1>8, TimerTypes DEF Close, TypeOK, session
<1>9. CASE ClientTakes
  BY <1>9 DEF ClientTakes, TypeOK, session, timers
<1>10. CASE ClientLeaves
  BY <1>10 DEF ClientLeaves, TypeOK, session, timers
<1>11. CASE UNCHANGED vars
  BY <1>11 DEF vars, TypeOK
<1>. QED
  BY <1>1, <1>2, <1>3, <1>4, <1>5, <1>6, <1>7, <1>8, <1>9, <1>10, <1>11 DEF Next, Timers

(* Every variable keeps its type, whatever the client sends.  The type of a *)
(* timer is the fact that matters: no wait is counted that was not started. *)
THEOREM TypeCorrect == Spec => []TypeOK
BY InitType, NextType, PTL DEF Spec

-------------------------------------------------------------------------------
(***************************************************************************)
(* The ticker.  OneTicker is not inductive: a handler that finds its wait  *)
(* aborted ends the ticker, so it has to be known that only close() aborts *)
(* a keep-alive wait.                                                      *)
(***************************************************************************)
TickerInv ==
  /\ TypeOK
  /\ OneTicker
  /\ keep_alive_timer_.aborted > 0 => socket_ = "closed"

(* A timer with nothing outstanding has no wait and no handler to run. *)
LEMMA NoneOutstanding ==
  ASSUME NEW t \in Waits, Outstanding(t) = 0
  PROVE  t.waiting = 0 /\ t.expired = 0 /\ t.aborted = 0
<1>1. t.waiting \in Nat /\ t.expired \in Nat /\ t.aborted \in Nat
  BY DEF Waits
<1>2. t.waiting + t.expired + t.aborted = 0
  BY DEF Outstanding
<1>. QED  BY <1>1, <1>2, SMT

(* No ticker runs before PLAY. *)
LEMMA TickerInit == Init => TickerInv
<1>. SUFFICES ASSUME Init PROVE TickerInv
  OBVIOUS
<1>1. TypeOK
  BY InitType
<1>. QED
  BY <1>1 DEF Init, TickerInv, OneTicker, NoWait, Outstanding

(* A step that leaves alone what the ticker's invariant is about.           *)
LEMMA TickerUntouched ==
  ASSUME TickerInv, TypeOK',
         keep_alive_timer_' = keep_alive_timer_,
         (state_ = "Play") <=> (state_' = "Play"),
         socket_ = "closed" => socket_' = "closed"
  PROVE  TickerInv'
BY DEF TickerInv, OneTicker, Outstanding

(* Every step keeps at most one tick outstanding. *)
LEMMA TickerStep == TickerInv /\ [Next]_vars => TickerInv'
<1>. SUFFICES ASSUME TickerInv, [Next]_vars PROVE TickerInv'
  OBVIOUS
<1>. USE DEF session, timers
<1>t. TypeOK'
  BY NextType DEF TickerInv
<1>w. /\ keep_alive_timer_.waiting \in Nat
      /\ keep_alive_timer_.expired \in Nat
      /\ keep_alive_timer_.aborted \in Nat
  BY DEF TickerInv, TypeOK, Waits
<1>1. ASSUME NEW p \in Packet, ReadPacket(p) PROVE TickerInv'
  <2>0. ProcessPacket(p) /\ UNCHANGED <<reading, socket_>>
    BY <1>1 DEF ReadPacket
  <2>1. CASE FinishConfigurationAck(p)
    <3>1. /\ state_ = "Configuration" /\ state_' = "Play"
          /\ keep_alive_timer_' = Started(keep_alive_timer_)
      BY <2>1 DEF FinishConfigurationAck
    <3>2. /\ keep_alive_timer_.waiting = 0
          /\ keep_alive_timer_.expired = 0
          /\ keep_alive_timer_.aborted = 0
      <4>1. Outstanding(keep_alive_timer_) = 0
        BY <3>1 DEF TickerInv, OneTicker
      <4>. QED  BY <4>1, NoneOutstanding DEF TickerInv, TypeOK
    <3>. QED
      BY <1>t, <3>1, <3>2 DEF TickerInv, OneTicker, Outstanding, Started
  <2>2. CASE ~FinishConfigurationAck(p)
    <3>1. /\ keep_alive_timer_' = keep_alive_timer_
          /\ (state_ = "Play") <=> (state_' = "Play")
      BY <2>0, <2>2 DEF ProcessPacket, Handshake, StatusRequest, PingRequest, LoginStart,
           LoginAcknowledged, SelectKnownPacks, ConfirmTeleportation, KeepAliveResponse,
           Ignored
    <3>. QED  BY <1>t, <2>0, <3>1, TickerUntouched
  <2>. QED  BY <2>1, <2>2
<1>2. CASE ReadFails
  BY <1>2, <1>t, TickerUntouched DEF ReadFails
<1>3. CASE KeepAliveExpires
  <2>1. /\ keep_alive_timer_' = Expired(keep_alive_timer_)
        /\ keep_alive_timer_.waiting > 0
        /\ UNCHANGED <<state_, socket_>>
    BY <1>3 DEF KeepAliveExpires
  <2>2. Outstanding(keep_alive_timer_') = Outstanding(keep_alive_timer_)
    BY <2>1, <1>w DEF Outstanding, Expired
  <2>3. keep_alive_timer_'.aborted = keep_alive_timer_.aborted
    BY <2>1 DEF Expired
  <2>. QED
    BY <2>1, <2>2, <2>3, <1>t DEF TickerInv, OneTicker
<1>4. CASE KeepAliveTick
  <2>1. keep_alive_timer_.expired > 0 /\ UNCHANGED <<state_, socket_>>
    BY <1>4 DEF KeepAliveTick
  <2>2. /\ state_ = "Play"
        /\ keep_alive_timer_.waiting = 0
        /\ keep_alive_timer_.expired = 1
        /\ keep_alive_timer_.aborted = 0
    BY <2>1, <1>w DEF TickerInv, OneTicker, Outstanding
  <2>3. keep_alive_timer_' = Started(Fired(keep_alive_timer_))
    BY <1>4, <2>2 DEF KeepAliveTick
  <2>. QED
    BY <1>t, <2>1, <2>2, <2>3 DEF TickerInv, OneTicker, Outstanding, Started, Fired
<1>5. CASE KeepAliveAborted
  <2>1. /\ keep_alive_timer_.aborted > 0
        /\ keep_alive_timer_' = Dropped(keep_alive_timer_)
        /\ UNCHANGED <<state_, socket_>>
    BY <1>5 DEF KeepAliveAborted
  <2>2. socket_ = "closed"
    BY <2>1 DEF TickerInv
  <2>. QED
    BY <1>t, <1>w, <2>1, <2>2 DEF TickerInv, OneTicker, Outstanding, Dropped
<1>6. CASE TeleportExpires
  BY <1>6, <1>t, TickerUntouched DEF TeleportExpires
<1>7. CASE TeleportDone
  BY <1>7, <1>t, TickerUntouched DEF TeleportDone
<1>8. CASE Close
  <2>1. /\ keep_alive_timer_' = Cancelled(keep_alive_timer_)
        /\ socket_' = "closed" /\ UNCHANGED state_
    BY <1>8 DEF Close
  <2>. QED
    BY <1>t, <1>w, <2>1 DEF TickerInv, OneTicker, Outstanding, Cancelled
<1>9. CASE ClientTakes
  BY <1>9, <1>t, TickerUntouched DEF ClientTakes
<1>10. CASE ClientLeaves
  BY <1>10, <1>t, TickerUntouched DEF ClientLeaves
<1>11. CASE UNCHANGED vars
  BY <1>11, <1>t, TickerUntouched DEF vars
<1>. QED
  BY <1>1, <1>2, <1>3, <1>4, <1>5, <1>6, <1>7, <1>8, <1>9, <1>10, <1>11 DEF Next, Timers

(* However the client orders and repeats its packets, and whenever the      *)
(* timer expires, a session in PLAY has one keep-alive wait, and any other  *)
(* session none.                                                            *)
THEOREM OneTickerHolds == Spec => []OneTicker
<1>1. TickerInv => OneTicker
  BY DEF TickerInv
<1>. QED  BY TickerInit, TickerStep, <1>1, PTL DEF Spec

-------------------------------------------------------------------------------
(***************************************************************************)
(* The spawn.  SpawnedIsConfirmed is inductive once the types are known.   *)
(***************************************************************************)
SpawnInv == TypeOK /\ SpawnedIsConfirmed

(* The steps that leave the spawn and the confirmation alone. *)
LEMMA SpawnUntouched ==
  ASSUME SpawnInv, TypeOK',
         state_ = "Play" => state_' = "Play",
         UNCHANGED <<player_lifecycle_, teleport_confirmed_, teleport_confirm_timer_>>
  PROVE  SpawnInv'
BY DEF SpawnInv, SpawnedIsConfirmed

(* Every step keeps a spawned player a confirmed one. *)
LEMMA SpawnStep == SpawnInv /\ [Next]_vars => SpawnInv'
<1>. SUFFICES ASSUME SpawnInv, [Next]_vars PROVE SpawnInv'
  OBVIOUS
<1>. USE DEF session, timers
<1>t. TypeOK'
  BY NextType DEF SpawnInv
<1>w. teleport_confirm_timer_.waiting \in Nat
  BY DEF SpawnInv, TypeOK, Waits
<1>1. ASSUME NEW p \in Packet, ReadPacket(p) PROVE SpawnInv'
  <2>0. ProcessPacket(p)
    BY <1>1 DEF ReadPacket
  <2>1. CASE FinishConfigurationAck(p)
    <3>1. player_lifecycle_ # "SPAWNED_AND_READY"
      BY <2>1 DEF FinishConfigurationAck, SpawnInv, SpawnedIsConfirmed
    <3>. QED  BY <2>1, <3>1, <1>t DEF FinishConfigurationAck, SpawnInv, SpawnedIsConfirmed
  <2>2. CASE ConfirmTeleportation(p)
    BY <2>2, <1>t DEF ConfirmTeleportation, SpawnInv, SpawnedIsConfirmed, Cancelled
  <2>3. CASE ~FinishConfigurationAck(p) /\ ~ConfirmTeleportation(p)
    <3>1. /\ state_ = "Play" => state_' = "Play"
          /\ UNCHANGED <<player_lifecycle_, teleport_confirmed_, teleport_confirm_timer_>>
      BY <2>0, <2>3 DEF ProcessPacket, Handshake, StatusRequest, PingRequest, LoginStart,
           LoginAcknowledged, SelectKnownPacks, KeepAliveResponse, Ignored
    <3>. QED  BY <3>1, <1>t, SpawnUntouched
  <2>. QED  BY <2>1, <2>2, <2>3
<1>2. CASE ReadFails
  BY <1>2, <1>t, SpawnUntouched DEF ReadFails
<1>3. CASE KeepAliveExpires
  BY <1>3, <1>t, SpawnUntouched DEF KeepAliveExpires
<1>4. CASE KeepAliveTick
  BY <1>4, <1>t, SpawnUntouched DEF KeepAliveTick
<1>5. CASE KeepAliveAborted
  BY <1>5, <1>t, SpawnUntouched DEF KeepAliveAborted
<1>6. CASE TeleportExpires
  <2>1. player_lifecycle_ # "SPAWNED_AND_READY"
    BY <1>6, <1>w DEF TeleportExpires, SpawnInv, SpawnedIsConfirmed
  <2>. QED  BY <1>6, <2>1, <1>t DEF TeleportExpires, SpawnInv, SpawnedIsConfirmed
<1>7. CASE TeleportDone
  BY <1>7, <1>t DEF TeleportDone, SpawnInv, SpawnedIsConfirmed, Fired, Dropped
<1>8. CASE Close
  BY <1>8, <1>t DEF Close, SpawnInv, SpawnedIsConfirmed, Cancelled
<1>9. CASE ClientTakes
  BY <1>9, <1>t, SpawnUntouched DEF ClientTakes
<1>10. CASE ClientLeaves
  BY <1>10, <1>t, SpawnUntouched DEF ClientLeaves
<1>11. CASE UNCHANGED vars
  BY <1>11, <1>t, SpawnUntouched DEF vars
<1>. QED
  BY <1>1, <1>2, <1>3, <1>4, <1>5, <1>6, <1>7, <1>8, <1>9, <1>10, <1>11 DEF Next, Timers

(* A player that is SPAWNED_AND_READY is in PLAY, has confirmed a teleport, *)
(* and its two-second wait can no longer expire.                            *)
THEOREM SpawnedIsConfirmedHolds == Spec => []SpawnedIsConfirmed
<1>1. Init => SpawnInv
  BY InitType DEF Init, SpawnInv, SpawnedIsConfirmed
<1>2. SpawnInv => SpawnedIsConfirmed
  BY DEF SpawnInv
<1>. QED  BY <1>1, SpawnStep, <1>2, PTL DEF Spec

-------------------------------------------------------------------------------
(***************************************************************************)
(* The order in flight.  Every packet is written in the state it belongs   *)
(* to, and a connection never goes back to an earlier state: that is why   *)
(* the packets in flight are in the order of their states.                 *)
(***************************************************************************)
Phases == {"Status", "Login", "Configuration", "Play"}

(* Every packet has a state, and every state its rank. *)
LEMMA PhaseIsRanked ==
  /\ \A packet \in Clientbound : PhaseOf(packet) \in Phases
  /\ \A phase \in ProtocolState : Rank[phase] \in Nat
BY DEF PhaseOf, Phases, ProtocolState, Rank

(* A packet that belongs to the state the connection is in, or enters.      *)
OfThisState(packets) == \A i \in 1 .. Len(packets) : PhaseOf(packets[i]) = state_'

OrderInv == TypeOK /\ OutboxInPhaseOrder

(* The connection moves on, or stays: from LOGIN to CONFIGURATION to PLAY.  *)
Onward ==
  \/ state_' = state_
  \/ state_ = "Handshake" /\ state_' \in {"Status", "Login"}
  \/ state_ = "Login" /\ state_' = "Configuration"
  \/ state_ = "Configuration" /\ state_' = "Play"

(* The states are entered in order, so what was written stays behind. *)
LEMMA OnwardOrder ==
  ASSUME OrderInv, Onward
  PROVE  \A i \in 1 .. Len(outbox) :
           /\ Rank[PhaseOf(outbox[i])] =< Rank[state_']
           /\ (PhaseOf(outbox[i]) = "Status") <=> (state_' = "Status")
<1>. SUFFICES ASSUME NEW i \in 1 .. Len(outbox)
     PROVE /\ Rank[PhaseOf(outbox[i])] =< Rank[state_']
           /\ (PhaseOf(outbox[i]) = "Status") <=> (state_' = "Status")
  OBVIOUS
<1>1. /\ Rank[PhaseOf(outbox[i])] =< Rank[state_]
      /\ (PhaseOf(outbox[i]) = "Status") <=> (state_ = "Status")
  BY DEF OrderInv, OutboxInPhaseOrder
<1>2. PhaseOf(outbox[i]) \in Phases
  BY PhaseIsRanked DEF OrderInv, TypeOK
<1>3. CASE state_' = state_
  BY <1>1, <1>3
<1>4. CASE state_ = "Handshake" /\ state_' \in {"Status", "Login"}
  BY <1>1, <1>2, <1>4 DEF Rank, Phases
<1>5. CASE state_ = "Login" /\ state_' = "Configuration"
  BY <1>1, <1>2, <1>5 DEF Rank, Phases
<1>6. CASE state_ = "Configuration" /\ state_' = "Play"
  BY <1>1, <1>2, <1>6 DEF Rank, Phases
<1>. QED  BY <1>3, <1>4, <1>5, <1>6 DEF Onward

(* What is written in its own state comes after all that is in flight.      *)
LEMMA SendInOrder ==
  ASSUME OrderInv, TypeOK', Onward,
         NEW packets \in Seq(Clientbound), OfThisState(packets), Send(packets)
  PROVE  OutboxInPhaseOrder'
<1>1. CASE outbox' = outbox
  BY <1>1, OnwardOrder DEF OrderInv, OutboxInPhaseOrder
<1>2. CASE outbox' = outbox \o packets
  <2>1. outbox \in Seq(Clientbound)
    BY DEF OrderInv, TypeOK
  <2>2. Len(outbox') = Len(outbox) + Len(packets)
    BY <1>2, <2>1
  <2>3. ASSUME NEW i \in 1 .. Len(outbox')
        PROVE  \/ i \in 1 .. Len(outbox) /\ outbox'[i] = outbox[i]
               \/ i > Len(outbox) /\ PhaseOf(outbox'[i]) = state_'
    <3>1. CASE i =< Len(outbox)
      BY <1>2, <2>1, <2>2, <3>1
    <3>2. CASE i > Len(outbox)
      <4>1. i - Len(outbox) \in 1 .. Len(packets) /\ outbox'[i] = packets[i - Len(outbox)]
        BY <1>2, <2>1, <2>2, <3>2
      <4>. QED  BY <4>1, <3>2 DEF OfThisState
    <3>. QED  BY <3>1, <3>2, <2>1, <2>2
  <2>4. ASSUME NEW i \in 1 .. Len(outbox')
        PROVE  /\ Rank[PhaseOf(outbox'[i])] =< Rank[state_']
               /\ (PhaseOf(outbox'[i]) = "Status") <=> (state_' = "Status")
    <3>1. Rank[state_'] \in Nat
      BY PhaseIsRanked DEF TypeOK
    <3>. QED  BY <2>3, <3>1, OnwardOrder
  <2>5. ASSUME NEW i \in 1 .. Len(outbox'), NEW j \in 1 .. Len(outbox'), i < j
        PROVE  Rank[PhaseOf(outbox'[i])] =< Rank[PhaseOf(outbox'[j])]
    <3>1. CASE j > Len(outbox)
      <4>1. PhaseOf(outbox'[j]) = state_'
        BY <3>1, <2>1, <2>3
      <4>. QED  BY <4>1, <2>4
    <3>2. CASE j =< Len(outbox)
      <4>1. /\ i \in 1 .. Len(outbox) /\ outbox'[i] = outbox[i]
            /\ j \in 1 .. Len(outbox) /\ outbox'[j] = outbox[j]
        BY <3>2, <2>1, <2>3, <2>5
      <4>. QED  BY <4>1, <2>5 DEF OrderInv, OutboxInPhaseOrder
    <3>. QED  BY <3>1, <3>2, <2>1
  <2>. QED  BY <2>4, <2>5 DEF OutboxInPhaseOrder
<1>. QED  BY <1>1, <1>2 DEF Send

(* No keep-alive is in flight before PLAY.                                  *)
LEMMA NoKeepAliveBeforePlay ==
  ASSUME OrderInv, state_ # "Play", NEW i \in 1 .. Len(outbox)
  PROVE  outbox[i] # "KeepAlive"
<1>. SUFFICES ASSUME outbox[i] = "KeepAlive" PROVE FALSE
  OBVIOUS
<1>1. PhaseOf(outbox[i]) = "Play"
  BY DEF PhaseOf, StatusPackets, LoginPackets, ConfigPackets
<1>2. Rank["Play"] =< Rank[state_] /\ state_ # "Status"
  BY <1>1 DEF OrderInv, OutboxInPhaseOrder
<1>. QED  BY <1>2 DEF OrderInv, TypeOK, ProtocolState, Rank

JoinInv == OrderInv /\ JoinBeforeKeepAlive

(* Keep-alives go to the end; whatever else is written, is written before   *)
(* PLAY, when there are none.                                               *)
LEMMA SendAfterJoin ==
  ASSUME JoinInv, NEW packets \in Seq(Clientbound), Send(packets),
         \/ packets = <<"KeepAlive">>
         \/ state_ # "Play" /\ (\A i \in 1 .. Len(packets) : packets[i] # "KeepAlive")
  PROVE  JoinBeforeKeepAlive'
<1>0. outbox \in Seq(Clientbound)
  BY DEF JoinInv, OrderInv, TypeOK
<1>1. CASE outbox' = outbox
  BY <1>1 DEF JoinInv, JoinBeforeKeepAlive
<1>2. CASE outbox' = outbox \o packets /\ packets = <<"KeepAlive">>
  <2>1. Len(outbox') = Len(outbox) + 1 /\ outbox'[Len(outbox) + 1] = "KeepAlive"
    BY <1>0, <1>2
  <2>2. \A i \in 1 .. Len(outbox) : outbox'[i] = outbox[i]
    BY <1>0, <1>2
  <2>. QED  BY <1>0, <2>1, <2>2 DEF JoinInv, JoinBeforeKeepAlive
<1>3. CASE /\ outbox' = outbox \o packets /\ state_ # "Play"
           /\ \A i \in 1 .. Len(packets) : packets[i] # "KeepAlive"
  <2>1. ASSUME NEW i \in 1 .. Len(outbox') PROVE outbox'[i] # "KeepAlive"
    <3>1. CASE i =< Len(outbox)
      <4>1. i \in 1 .. Len(outbox) /\ outbox'[i] = outbox[i]
        BY <1>0, <1>3, <3>1
      <4>. QED  BY <4>1, <1>3, NoKeepAliveBeforePlay DEF JoinInv
    <3>2. CASE i > Len(outbox)
      <4>1. i - Len(outbox) \in 1 .. Len(packets) /\ outbox'[i] = packets[i - Len(outbox)]
        BY <1>0, <1>3, <3>2
      <4>. QED  BY <4>1, <1>3
    <3>. QED  BY <3>1, <3>2, <1>0
  <2>. QED  BY <2>1 DEF JoinBeforeKeepAlive
<1>. QED  BY <1>1, <1>2, <1>3 DEF Send

(* What is taken from the front of the outbox, or cut off its end, leaves   *)
(* the rest in order.                                                       *)
LEMMA RestInOrder ==
  ASSUME JoinInv, state_' = state_, NEW d \in Nat, Len(outbox') \in Nat,
         \A i \in 1 .. Len(outbox') :
           i + d \in 1 .. Len(outbox) /\ outbox'[i] = outbox[i + d]
  PROVE  OutboxInPhaseOrder' /\ JoinBeforeKeepAlive'
<1>1. OutboxInPhaseOrder'
  <2>1. ASSUME NEW i \in 1 .. Len(outbox')
        PROVE  /\ Rank[PhaseOf(outbox'[i])] =< Rank[state_']
               /\ (PhaseOf(outbox'[i]) = "Status") <=> (state_' = "Status")
    BY DEF JoinInv, OrderInv, OutboxInPhaseOrder
  <2>2. ASSUME NEW i \in 1 .. Len(outbox'), NEW j \in 1 .. Len(outbox'), i < j
        PROVE  Rank[PhaseOf(outbox'[i])] =< Rank[PhaseOf(outbox'[j])]
    <3>1. i + d < j + d
      BY <2>2
    <3>. QED  BY <3>1 DEF JoinInv, OrderInv, OutboxInPhaseOrder
  <2>. QED  BY <2>1, <2>2 DEF OutboxInPhaseOrder
<1>2. ASSUME NEW i \in 1 .. Len(outbox'), NEW j \in 1 .. Len(outbox'),
             i < j, outbox'[i] = "KeepAlive"
      PROVE  outbox'[j] = "KeepAlive"
  <2>1. i + d < j + d
    BY <1>2
  <2>. QED  BY <1>2, <2>1 DEF JoinInv, JoinBeforeKeepAlive
<1>. QED  BY <1>1, <1>2 DEF JoinBeforeKeepAlive

(* What it means to write one packet. *)
LEMMA OnePacket ==
  ASSUME NEW packet \in Clientbound, PhaseOf(packet) = state_', packet # "KeepAlive"
  PROVE  /\ <<packet>> \in Seq(Clientbound) /\ OfThisState(<<packet>>)
         /\ \A i \in 1 .. Len(<<packet>>) : <<packet>>[i] # "KeepAlive"
BY DEF OfThisState

(* Each branch of process_packet writes packets of the state it leaves the  *)
(* connection in, and none of them a keep-alive.                            *)
LEMMA ProcessPacketSends ==
  ASSUME JoinInv, NEW p \in Packet, ProcessPacket(p)
  PROVE  /\ Onward
         /\ \/ outbox' = outbox
            \/ /\ state_ # "Play"
               /\ \E packets \in Seq(Clientbound) :
                    /\ OfThisState(packets) /\ Send(packets)
                    /\ \A i \in 1 .. Len(packets) : packets[i] # "KeepAlive"
<1>. USE DEF session, timers, Onward
<1>1. CASE Handshake(p)
  BY <1>1 DEF Handshake
<1>2. CASE StatusRequest(p)
  <2>1. /\ state_ # "Play" /\ state_' = "Status"
        /\ Send(<<"StatusResponse">>)
    BY <1>2 DEF StatusRequest
  <2>2. "StatusResponse" \in Clientbound /\ PhaseOf("StatusResponse") = "Status"
    BY DEF Clientbound, StatusPackets, LoginPackets, ConfigPackets, PhaseOf
  <2>. QED  BY <1>2, <2>1, <2>2, OnePacket DEF StatusRequest
<1>3. CASE PingRequest(p)
  <2>1. /\ state_ # "Play" /\ state_' = "Status"
        /\ Send(<<"Pong">>)
    BY <1>3 DEF PingRequest
  <2>2. "Pong" \in Clientbound /\ PhaseOf("Pong") = "Status"
    BY DEF Clientbound, StatusPackets, LoginPackets, ConfigPackets, PhaseOf
  <2>. QED  BY <1>3, <2>1, <2>2, OnePacket DEF PingRequest
<1>4. CASE LoginStart(p)
  <2>1. state_ = "Login" /\ state_' = "Login"
    BY <1>4 DEF LoginStart
  <2>2. outbox' = outbox \/ Send(<<"LoginSuccess">>)
    BY <1>4 DEF LoginStart
  <2>3. "LoginSuccess" \in Clientbound /\ PhaseOf("LoginSuccess") = "Login"
    <3>1. "LoginSuccess" \in LoginPackets
      BY DEF LoginPackets
    <3>2. "LoginSuccess" \notin StatusPackets /\ "LoginSuccess" \notin ConfigPackets
      BY DEF StatusPackets, ConfigPackets
    <3>. QED  BY <3>1, <3>2 DEF Clientbound, PhaseOf
  <2>4. CASE outbox' = outbox
    BY <2>1, <2>4
  <2>5. CASE Send(<<"LoginSuccess">>)
    <3>1. /\ <<"LoginSuccess">> \in Seq(Clientbound) /\ OfThisState(<<"LoginSuccess">>)
          /\ \A i \in 1 .. Len(<<"LoginSuccess">>) : <<"LoginSuccess">>[i] # "KeepAlive"
      BY <2>1, <2>3, OnePacket
    <3>. QED  BY <2>1, <2>5, <3>1
  <2>. QED  BY <2>2, <2>4, <2>5
<1>5. CASE LoginAcknowledged(p)
  <2>1. /\ state_ # "Play" /\ state_' = "Configuration"
        /\ Send(<<"SelectKnownPacks">>)
    BY <1>5 DEF LoginAcknowledged
  <2>2. "SelectKnownPacks" \in Clientbound /\ PhaseOf("SelectKnownPacks") = "Configuration"
    <3>1. "SelectKnownPacks" \in ConfigPackets
      BY DEF ConfigPackets
    <3>2. "SelectKnownPacks" \notin StatusPackets /\ "SelectKnownPacks" \notin LoginPackets
      BY DEF StatusPackets, LoginPackets
    <3>. QED  BY <3>1, <3>2 DEF Clientbound, PhaseOf
  <2>3. state_ = "Login"
    BY <1>5 DEF LoginAcknowledged
  <2>. QED  BY <2>1, <2>2, <2>3, OnePacket
<1>6. CASE SelectKnownPacks(p)
  <2>1. \A i \in 1 .. Len(ConfigurationBurst) : ConfigurationBurst[i] \in ConfigPackets
    BY RegistriesAssumption DEF ConfigurationBurst, ConfigPackets
  <2>2. \A packet \in ConfigPackets : packet # "KeepAlive" /\ PhaseOf(packet) = "Configuration"
    BY DEF ConfigPackets, PhaseOf, StatusPackets, LoginPackets
  <2>. QED  BY <1>6, <2>1, <2>2, BurstTypes DEF SelectKnownPacks, OfThisState
<1>7. CASE FinishConfigurationAck(p)
  <2>1. \A i \in 1 .. Len(JoinSequence) : JoinSequence[i] \in JoinPackets
    BY DEF JoinSequence, JoinPackets
  <2>2. \A packet \in JoinPackets : packet # "KeepAlive" /\ PhaseOf(packet) = "Play"
    BY DEF JoinPackets, ConfigPackets, PhaseOf, StatusPackets, LoginPackets
  <2>. QED  BY <1>7, <2>1, <2>2, BurstTypes DEF FinishConfigurationAck, OfThisState
<1>8. CASE ConfirmTeleportation(p)
  BY <1>8 DEF ConfirmTeleportation
<1>9. CASE KeepAliveResponse(p)
  BY <1>9 DEF KeepAliveResponse
<1>10. CASE Ignored(p)
  BY <1>10 DEF Ignored
<1>. QED
  BY <1>1, <1>2, <1>3, <1>4, <1>5, <1>6, <1>7, <1>8, <1>9, <1>10 DEF ProcessPacket

(* The steps that neither write nor change the state. *)
LEMMA JoinUntouched ==
  ASSUME JoinInv, TypeOK', UNCHANGED <<state_, outbox>>
  PROVE  JoinInv'
BY DEF JoinInv, OrderInv, OutboxInPhaseOrder, JoinBeforeKeepAlive

(* Every step keeps the order of the packets, and the ticks behind. *)
LEMMA JoinStep == JoinInv /\ [Next]_vars => JoinInv'
<1>. SUFFICES ASSUME JoinInv, [Next]_vars PROVE JoinInv'
  OBVIOUS
<1>. USE DEF session, timers
<1>t. TypeOK /\ TypeOK'
  BY NextType DEF JoinInv, OrderInv
<1>s. outbox \in Seq(Clientbound)
  BY <1>t DEF TypeOK
<1>1. ASSUME NEW p \in Packet, ReadPacket(p) PROVE JoinInv'
  <2>1. ProcessPacket(p)
    BY <1>1 DEF ReadPacket
  <2>2. Onward
    BY <2>1, ProcessPacketSends
  <2>3. CASE outbox' = outbox
    <3>1. OutboxInPhaseOrder'
      BY <2>2, <2>3, OnwardOrder DEF JoinInv, OrderInv, OutboxInPhaseOrder
    <3>2. JoinBeforeKeepAlive'
      BY <2>3 DEF JoinInv, JoinBeforeKeepAlive
    <3>. QED  BY <3>1, <3>2, <1>t DEF JoinInv, OrderInv
  <2>4. CASE outbox' # outbox
    <3>1. PICK packets \in Seq(Clientbound) :
            /\ OfThisState(packets) /\ Send(packets)
            /\ \A i \in 1 .. Len(packets) : packets[i] # "KeepAlive"
      BY <2>1, <2>4, ProcessPacketSends
    <3>2. state_ # "Play"
      BY <2>1, <2>4, ProcessPacketSends
    <3>3. OutboxInPhaseOrder'
      BY <1>t, <2>2, <3>1, SendInOrder DEF JoinInv
    <3>4. JoinBeforeKeepAlive'
      BY <3>1, <3>2, SendAfterJoin
    <3>. QED  BY <1>t, <3>3, <3>4 DEF JoinInv, OrderInv
  <2>. QED  BY <2>3, <2>4
<1>2. CASE ReadFails
  BY <1>2, <1>t, JoinUntouched DEF ReadFails
<1>3. CASE KeepAliveExpires
  BY <1>3, <1>t, JoinUntouched DEF KeepAliveExpires
<1>4. CASE KeepAliveTick
  <2>1. CASE state_ = "Play"
    <3>1. Send(<<"KeepAlive">>) /\ state_' = "Play"
      BY <1>4, <2>1 DEF KeepAliveTick
    <3>2. "KeepAlive" \in Clientbound /\ PhaseOf("KeepAlive") = "Play"
      BY DEF Clientbound, PlayPackets, PhaseOf, StatusPackets, LoginPackets, ConfigPackets
    <3>3. <<"KeepAlive">> \in Seq(Clientbound) /\ OfThisState(<<"KeepAlive">>)
      BY <3>1, <3>2 DEF OfThisState
    <3>4. OutboxInPhaseOrder'
      BY <1>t, <2>1, <3>1, <3>3, SendInOrder DEF JoinInv, Onward
    <3>5. JoinBeforeKeepAlive'
      BY <3>1, <3>3, SendAfterJoin
    <3>. QED  BY <1>t, <3>4, <3>5 DEF JoinInv, OrderInv
  <2>2. CASE state_ # "Play"
    BY <1>4, <1>t, <2>2, JoinUntouched DEF KeepAliveTick
  <2>. QED  BY <2>1, <2>2
<1>5. CASE KeepAliveAborted
  BY <1>5, <1>t, JoinUntouched DEF KeepAliveAborted
<1>6. CASE TeleportExpires
  BY <1>6, <1>t, JoinUntouched DEF TeleportExpires
<1>7. CASE TeleportDone
  BY <1>7, <1>t, JoinUntouched DEF TeleportDone
<1>8. CASE Close
  <2>1. PICK n \in 0 .. Len(outbox) : outbox' = SubSeq(outbox, 1, n)
    BY <1>8 DEF Close
  <2>2. state_' = state_
    BY <1>8 DEF Close
  <2>3. /\ Len(outbox') \in Nat
        /\ \A i \in 1 .. Len(outbox') :
             i + 0 \in 1 .. Len(outbox) /\ outbox'[i] = outbox[i + 0]
    BY <1>s, <2>1
  <2>. QED  BY <1>t, <2>2, <2>3, RestInOrder DEF JoinInv, OrderInv
<1>9. CASE ClientTakes
  <2>1. outbox # <<>> /\ outbox' = Tail(outbox) /\ state_' = state_
    BY <1>9 DEF ClientTakes
  <2>2. /\ Len(outbox') \in Nat
        /\ \A i \in 1 .. Len(outbox') :
             i + 1 \in 1 .. Len(outbox) /\ outbox'[i] = outbox[i + 1]
    BY <1>s, <2>1
  <2>. QED  BY <1>t, <2>1, <2>2, RestInOrder DEF JoinInv, OrderInv
<1>10. CASE ClientLeaves
  BY <1>10, <1>t DEF ClientLeaves, JoinInv, OrderInv, OutboxInPhaseOrder, JoinBeforeKeepAlive
<1>11. CASE UNCHANGED vars
  BY <1>11, <1>t, JoinUntouched DEF vars
<1>. QED
  BY <1>1, <1>2, <1>3, <1>4, <1>5, <1>6, <1>7, <1>8, <1>9, <1>10, <1>11 DEF Next, Timers

(* Nothing is written yet. *)
LEMMA JoinStart == Init => JoinInv
<1>1. Init => TypeOK
  BY InitType
<1>. QED  BY <1>1 DEF Init, JoinInv, OrderInv, OutboxInPhaseOrder, JoinBeforeKeepAlive

(* The packets in flight are in the order of the states they belong to, and *)
(* none runs ahead of the connection, for any number of registries and      *)
(* whatever the client sends while they are in flight.                      *)
THEOREM OutboxInPhaseOrderHolds == Spec => []OutboxInPhaseOrder
<1>1. JoinInv => OutboxInPhaseOrder
  BY DEF JoinInv, OrderInv
<1>. QED  BY JoinStart, JoinStep, <1>1, PTL DEF Spec

(* No packet of the join sequence is in flight behind a keep-alive. *)
THEOREM JoinBeforeKeepAliveHolds == Spec => []JoinBeforeKeepAlive
<1>1. JoinInv => JoinBeforeKeepAlive
  BY DEF JoinInv
<1>. QED  BY JoinStart, JoinStep, <1>1, PTL DEF Spec

(* Whatever the client sends, and whichever handlers are queued, the timers *)
(* are those of the session's state.                                        *)
THEOREM TimersInStepHolds == Spec => []TimersInStep
BY OneTickerHolds, SpawnedIsConfirmedHolds, PTL DEF TimersInStep

(* For any number of registries and any delay of the client, what is in     *)
(* flight is in order.                                                      *)
THEOREM OutboxInOrderHolds == Spec => []OutboxInOrder
BY OutboxInPhaseOrderHolds, JoinBeforeKeepAliveHolds, PTL DEF OutboxInOrder
===============================================================================
