------------------------------- MODULE Session -------------------------------
(***************************************************************************)
(* The session between BedrockNetworkClient (src/client/                   *)
(* BedrockNetworkClient.cpp) and a player of BedrockServer (include/       *)
(* bedrock/server/BedrockServer.hpp): network settings, login, the switch  *)
(* to compression and to encryption, resource packs, spawn, while the send *)
(* queue of the client and the queue scheduler of the server flush what    *)
(* the applications hand them.                                             *)
(*                                                                         *)
(* On each side the RakNet worker handles packets and a second thread      *)
(* flushes the queue.  A step is one critical section: of sendMutex_ on    *)
(* the client; on the server a packet is encoded under session->mutex and  *)
(* put on the wire while session->outboundMutex is held, but the flags are *)
(* set under session->mutex alone.  RakNet delivers reliably and in order; *)
(* losing the connection is the subject of the other modules.  A batch is  *)
(* what decides whether it can be read: its form and its counter.          *)
(***************************************************************************)
EXTENDS Naturals, Sequences

CONSTANTS
    Versions,    \* the protocol versions
    EarlySides,  \* the sides whose application may send before it has joined
    MaxData      \* bound on application packets of each side

Sides == {"client", "server"}
Other(s) == IF s = "client" THEN "server" ELSE "client"

ASSUME VersionAssumption == Versions \subseteq {"legacy", "modern", "tagged"}
ASSUME EarlyAssumption == EarlySides \subseteq Sides
ASSUME BoundAssumption == MaxData \in Nat

VARIABLES
    version,   \* the protocol version of the session
    early,     \* the sides whose application sends early in this session
    enc,       \* encryptionEnabled
    ready,     \* compressionReady
    sendCtr,   \* sendCounter
    recvCtr,   \* receiveCounter
    queue,     \* queuedPackets
    wire,      \* batches sent by each side and not yet received
    inbox,     \* packets of the batch that the worker handles
    pc,        \* position of the worker
    status,    \* status
    joined,    \* the join event was emitted
    sent,      \* how many packets the application has sent
    settings,  \* server: networkSettingsSent
    stack,     \* server: resourcePackStackSent
    staged,    \* server: the batch encoded while outboundMutex is held
    game,      \* server: what the application still has to send after the join
    spawns,    \* server: how often spawn was emitted
    packs,     \* client: resourcePacksInfoHandled_ and ...StackHandlerArmed_
    entity,    \* client: runtimeEntityId_ is known
    initNext,  \* client: initializeOnNextStartGame_
    first      \* history: the first packet of the first encrypted client batch

config == <<version, early>>
crypto == <<enc, ready, sendCtr, recvCtr>>
serverVars == <<settings, stack, staged, game, spawns>>
clientVars == <<packs, entity, initNext>>
vars == <<config, crypto, queue, wire, inbox, pc, status, joined, sent,
          serverVars, clientVars, first>>

\* From 1.19.30 on request_network_settings comes first; in the latest
\* versions a byte of every batch names the compressor.
Modern == version # "legacy"
Header == version = "tagged"

Names == {"request_network_settings", "network_settings", "login",
          "server_to_client_handshake", "client_to_server_handshake",
          "login_success", "resource_packs_info", "resource_pack_stack",
          "resource_pack_client_response", "start_game", "player_spawn",
          "set_local_player_as_initialized", "client_cache_status", "data"}
Batches == [pkts : Seq(Names), form : {"bare", "tagged", "enc"}, ctr : Nat]
NoBatch == [pkts |-> <<>>, form |-> "bare", ctr |-> 0]

\* The type invariant.
TypeOK ==
    /\ version \in Versions /\ early \subseteq EarlySides
    /\ enc \in [Sides -> BOOLEAN] /\ ready \in [Sides -> BOOLEAN]
    /\ sendCtr \in [Sides -> Nat] /\ recvCtr \in [Sides -> Nat]
    /\ queue \in [Sides -> Seq(Names)] /\ wire \in [Sides -> Seq(Batches)]
    /\ inbox \in [Sides -> Seq(Names)]
    /\ pc \in [Sides -> {"start", "idle", "login", "joining", "cache", "ready",
                         "enable", "late", "status", "packs", "stack", "failed"}]
    /\ status \in [Sides -> {"Connecting", "Authenticating", "Initializing",
                             "Initialized"}]
    /\ joined \in [Sides -> BOOLEAN] /\ sent \in [Sides -> 0..MaxData]
    /\ settings \in BOOLEAN /\ stack \in BOOLEAN /\ staged \in Batches
    /\ game \subseteq {"start_game", "player_spawn"} /\ spawns \in Nat
    /\ packs \in {"new", "armed", "done"} /\ entity \in BOOLEAN
    /\ initNext \in BOOLEAN /\ first \in Names \cup {""}

Init ==
    /\ version \in Versions /\ early \in SUBSET EarlySides
    /\ enc = [s \in Sides |-> FALSE] /\ ready = [s \in Sides |-> FALSE]
    /\ sendCtr = [s \in Sides |-> 0] /\ recvCtr = [s \in Sides |-> 0]
    /\ queue = [s \in Sides |-> <<>>] /\ wire = [s \in Sides |-> <<>>]
    /\ inbox = [s \in Sides |-> <<>>]
    /\ pc = [client |-> "start", server |-> "idle"]
    /\ status = [client |-> "Connecting", server |-> "Authenticating"]
    /\ joined = [s \in Sides |-> FALSE] /\ sent = [s \in Sides |-> 0]
    /\ settings = FALSE /\ stack = FALSE /\ staged = NoBatch
    /\ game = {"start_game", "player_spawn"} /\ spawns = 0
    /\ packs = "new" /\ entity = FALSE /\ initNext = FALSE
    /\ first = ""

-----------------------------------------------------------------------------
(* Encoding, sending and receiving.                                        *)

\* Batches before the compressor is agreed have no compressor byte.
PlainForm(isReady) == IF Header /\ isReady THEN "tagged" ELSE "bare"

Encode(s, pkts) ==
    IF enc[s]
    THEN [pkts |-> pkts, form |-> "enc", ctr |-> sendCtr[s]]
    ELSE [pkts |-> pkts, form |-> PlainForm(ready[s]), ctr |-> 0]

\* Only encrypted batches are counted.
Count(s) == sendCtr' = IF enc[s] THEN [sendCtr EXCEPT ![s] = @ + 1] ELSE sendCtr

Put(s, b) ==
    /\ wire' = [wire EXCEPT ![s] = Append(@, b)]
    /\ first' = IF s = "client" /\ b.form = "enc" /\ first = ""
                THEN Head(b.pkts) ELSE first

\* sendPackets: encoded and sent in one critical section.
Send(s, pkts) == Put(s, Encode(s, pkts)) /\ Count(s)

\* Whether side s can read batch b now.
Decodes(s, b) ==
    IF enc[s]
    THEN b.form = "enc" /\ b.ctr = recvCtr[s]
    ELSE b.form = PlainForm(ready[s])

\* handleRakNetPayload and handleEncapsulated.  A batch that cannot be read
\* ends the session: a wrong checksum disconnects, a wrong form throws.
Receive(s) ==
    LET b == Head(wire[Other(s)]) IN
    /\ pc[s] = "idle" /\ inbox[s] = <<>> /\ wire[Other(s)] # <<>>
    /\ wire' = [wire EXCEPT ![Other(s)] = Tail(@)]
    /\ recvCtr' = IF enc[s] THEN [recvCtr EXCEPT ![s] = @ + 1] ELSE recvCtr
    /\ IF Decodes(s, b)
       THEN inbox' = [inbox EXCEPT ![s] = b.pkts] /\ UNCHANGED pc
       ELSE pc' = [pc EXCEPT ![s] = "failed"] /\ UNCHANGED inbox
    /\ UNCHANGED <<config, enc, ready, sendCtr, queue, status, joined, sent,
                   serverVars, clientVars, first>>

\* The worker of side s takes packet n of its batch and goes on at l.
Handle(s, n, l) ==
    /\ pc[s] = "idle" /\ inbox[s] # <<>> /\ Head(inbox[s]) = n
    /\ inbox' = [inbox EXCEPT ![s] = Tail(@)]
    /\ pc' = [pc EXCEPT ![s] = l]

Step(s, from, to) ==
    pc[s] = from /\ pc' = [pc EXCEPT ![s] = to] /\ UNCHANGED inbox

-----------------------------------------------------------------------------
(* The client's worker.                                                    *)

\* handleRakNetConnected.
Connected ==
    /\ Step("client", "start", IF Modern THEN "idle" ELSE "login")
    /\ IF Modern
       THEN Send("client", <<"request_network_settings">>)
       ELSE UNCHANGED <<wire, sendCtr, first>>
    /\ UNCHANGED <<config, enc, ready, recvCtr, queue, status, joined, sent,
                   serverVars, clientVars>>

NetworkSettings ==
    /\ Handle("client", "network_settings",
              IF status["client"] = "Connecting" THEN "login" ELSE "idle")
    /\ ready' = [ready EXCEPT !["client"] = TRUE]
    /\ UNCHANGED <<config, enc, sendCtr, recvCtr, queue, wire, status, joined,
                   sent, serverVars, clientVars, first>>

SendLogin ==
    /\ Step("client", "login", "idle")
    /\ status' = [status EXCEPT !["client"] = "Authenticating"]
    /\ Send("client", <<"login">>)
    /\ UNCHANGED <<config, enc, ready, recvCtr, queue, joined, sent,
                   serverVars, clientVars>>

Enabled(s) ==
    /\ enc' = [enc EXCEPT ![s] = TRUE]
    /\ recvCtr' = [recvCtr EXCEPT ![s] = 0]

\* Mutant: the handshake goes through the send queue.
StartEncryptionMutant ==
    /\ Handle("client", "server_to_client_handshake", "joining")
    /\ Enabled("client")
    /\ sendCtr' = [sendCtr EXCEPT !["client"] = 0]
    /\ queue' = [queue EXCEPT !["client"] =
                    Append(@, "client_to_server_handshake")]
    /\ UNCHANGED <<config, ready, wire, status, joined, sent, serverVars,
                   clientVars, first>>

\* The handshake is sent in the critical section that enables encryption.
StartEncryption ==
    /\ Handle("client", "server_to_client_handshake", "joining")
    /\ Enabled("client")
    /\ sendCtr' = [sendCtr EXCEPT !["client"] = 1]
    /\ Put("client", [pkts |-> <<"client_to_server_handshake">>,
                      form |-> "enc", ctr |-> 0])
    /\ UNCHANGED <<config, ready, queue, status, joined, sent, serverVars,
                   clientVars>>

ClientJoin ==
    /\ Step("client", "joining", "idle")
    /\ joined' = [joined EXCEPT !["client"] = TRUE]
    /\ status' = [status EXCEPT !["client"] = "Initializing"]
    /\ UNCHANGED <<config, crypto, queue, wire, sent, serverVars, clientVars,
                   first>>

\* play_status with code 0: a server without encryption lets the client join.
LoginSuccess ==
    /\ Handle("client", "login_success", "idle")
    /\ IF status["client"] = "Authenticating"
       THEN /\ joined' = [joined EXCEPT !["client"] = TRUE]
            /\ status' = [status EXCEPT !["client"] = "Initializing"]
       ELSE UNCHANGED <<joined, status>>
    /\ UNCHANGED <<config, crypto, queue, wire, sent, serverVars, clientVars,
                   first>>

ResourcePacksInfo ==
    /\ Handle("client", "resource_packs_info",
              IF packs = "new" THEN "cache" ELSE "idle")
    /\ IF packs = "new"
       THEN packs' = "armed" /\ Send("client", <<"resource_pack_client_response">>)
       ELSE UNCHANGED <<packs, wire, sendCtr, first>>
    /\ UNCHANGED <<config, enc, ready, recvCtr, queue, status, joined, sent,
                   serverVars, entity, initNext>>

CacheStatus ==
    /\ Step("client", "cache", "idle")
    /\ queue' = [queue EXCEPT !["client"] = Append(@, "client_cache_status")]
    /\ UNCHANGED <<config, crypto, wire, status, joined, sent, serverVars,
                   clientVars, first>>

ResourcePackStack ==
    /\ Handle("client", "resource_pack_stack", "idle")
    /\ IF packs = "armed"
       THEN packs' = "done" /\ Send("client", <<"resource_pack_client_response">>)
       ELSE UNCHANGED <<packs, wire, sendCtr, first>>
    /\ UNCHANGED <<config, enc, ready, recvCtr, queue, status, joined, sent,
                   serverVars, entity, initNext>>

StartGame ==
    /\ Handle("client", "start_game", "idle")
    /\ entity' = TRUE
    /\ IF initNext
       THEN Send("client", <<"set_local_player_as_initialized">>)
       ELSE UNCHANGED <<wire, sendCtr, first>>
    /\ UNCHANGED <<config, enc, ready, recvCtr, queue, status, joined, sent,
                   serverVars, packs, initNext>>

\* Mutant: the next start_game initializes the player in any case.
PlayerSpawnMutant ==
    /\ Handle("client", "player_spawn", "idle")
    /\ status["client"] = "Initializing"
    /\ status' = [status EXCEPT !["client"] = "Initialized"]
    /\ Send("client", <<"set_local_player_as_initialized">>)
    /\ initNext' = TRUE
    /\ UNCHANGED <<config, enc, ready, recvCtr, queue, joined, sent,
                   serverVars, packs, entity>>

\* play_status with code 3: the player is initialized now if start_game has
\* named its entity, and with the next start_game otherwise.
PlayerSpawn ==
    /\ Handle("client", "player_spawn", "idle")
    /\ IF status["client"] # "Initializing"
       THEN UNCHANGED <<status, wire, sendCtr, first, initNext>>
       ELSE /\ status' = [status EXCEPT !["client"] = "Initialized"]
            /\ IF entity
               THEN /\ Send("client", <<"set_local_player_as_initialized">>)
                    /\ UNCHANGED initNext
               ELSE initNext' = TRUE /\ UNCHANGED <<wire, sendCtr, first>>
    /\ UNCHANGED <<config, enc, ready, recvCtr, queue, joined, sent,
                   serverVars, packs, entity>>

ClientData ==
    /\ Handle("client", "data", "idle")
    /\ UNCHANGED <<config, crypto, queue, wire, status, joined, sent,
                   serverVars, clientVars, first>>

ClientWorker ==
    \/ Receive("client") \/ Connected \/ NetworkSettings \/ SendLogin
    \/ StartEncryption \/ ClientJoin \/ LoginSuccess \/ ResourcePacksInfo
    \/ CacheStatus \/ ResourcePackStack \/ StartGame \/ PlayerSpawn \/ ClientData

-----------------------------------------------------------------------------
(* The client's application and its queue pump.                            *)

MaySend(s) == (joined[s] \/ s \in early) /\ pc[s] # "failed"

\* queue(); a write() of the application is a queue that is pumped at once.
ClientQueue ==
    /\ MaySend("client") /\ pc["client"] # "start" /\ sent["client"] < MaxData
    /\ sent' = [sent EXCEPT !["client"] = @ + 1]
    /\ queue' = [queue EXCEPT !["client"] = Append(@, "data")]
    /\ UNCHANGED <<config, crypto, wire, inbox, pc, status, joined, serverVars,
                   clientVars, first>>

\* queueLoop: the form of the batch is decided when it is sent, so that taking
\* the queue and sending it is one step.
ClientPump ==
    /\ queue["client"] # <<>> /\ pc["client"] # "failed"
    /\ Send("client", queue["client"])
    /\ queue' = [queue EXCEPT !["client"] = <<>>]
    /\ UNCHANGED <<config, enc, ready, recvCtr, inbox, pc, status, joined,
                   sent, serverVars, clientVars>>

-----------------------------------------------------------------------------
(* The server's worker.                                                    *)

\* session->outboundMutex is free.
OutboundFree == staged = NoBatch

ServerSend(n) == OutboundFree /\ Send("server", <<n>>)

\* sendPreCompression takes no outboundMutex.
RequestNetworkSettings ==
    /\ Handle("server", "request_network_settings", "ready")
    /\ Put("server", [pkts |-> <<"network_settings">>, form |-> "bare",
                      ctr |-> 0])
    /\ UNCHANGED <<config, crypto, queue, status, joined, sent, serverVars,
                   clientVars>>

NetworkSettingsSent ==
    /\ Step("server", "ready", "idle")
    /\ ready' = [ready EXCEPT !["server"] = TRUE]
    /\ settings' = TRUE
    /\ UNCHANGED <<config, enc, sendCtr, recvCtr, queue, wire, status, joined,
                   sent, stack, staged, game, spawns, clientVars, first>>

\* Mutant: encryption is enabled before the handshake is sent.
LoginMutant ==
    /\ Handle("server", "login", IF settings THEN "idle" ELSE "late")
    /\ OutboundFree /\ Enabled("server")
    /\ sendCtr' = [sendCtr EXCEPT !["server"] = 1]
    /\ Put("server", [pkts |-> <<"server_to_client_handshake">>,
                      form |-> "enc", ctr |-> 0])
    /\ UNCHANGED <<config, ready, queue, status, joined, sent, serverVars,
                   clientVars>>

Login ==
    /\ Handle("server", "login", "enable")
    /\ ServerSend("server_to_client_handshake")
    /\ UNCHANGED <<config, enc, ready, recvCtr, queue, status, joined, sent,
                   serverVars, clientVars>>

EnableEncryption ==
    /\ Step("server", "enable", IF settings THEN "idle" ELSE "late")
    /\ Enabled("server")
    /\ sendCtr' = [sendCtr EXCEPT !["server"] = 0]
    /\ UNCHANGED <<config, ready, queue, wire, status, joined, sent,
                   serverVars, clientVars, first>>

\* Protocols without request_network_settings get them after the login.
LateNetworkSettings ==
    /\ Step("server", "late", "ready") /\ ServerSend("network_settings")
    /\ UNCHANGED <<config, enc, ready, recvCtr, queue, status, joined, sent,
                   serverVars, clientVars>>

ClientHandshake ==
    /\ Handle("server", "client_to_server_handshake", "status")
    /\ ServerSend("login_success")
    /\ UNCHANGED <<config, enc, ready, recvCtr, queue, status, joined, sent,
                   serverVars, clientVars>>

TransitionStatus ==
    /\ Step("server", "status", "packs")
    /\ status' = [status EXCEPT !["server"] = "Initializing"]
    /\ UNCHANGED <<config, crypto, queue, wire, joined, sent, serverVars,
                   clientVars, first>>

SendPacksInfo ==
    /\ Step("server", "packs", "idle") /\ ServerSend("resource_packs_info")
    /\ UNCHANGED <<config, enc, ready, recvCtr, queue, status, joined, sent,
                   serverVars, clientVars>>

ResourcePackResponse ==
    /\ Handle("server", "resource_pack_client_response",
              IF stack THEN "idle" ELSE "stack")
    /\ IF stack
       THEN /\ joined' = [joined EXCEPT !["server"] = TRUE]
            /\ UNCHANGED <<wire, sendCtr, first>>
       ELSE ServerSend("resource_pack_stack") /\ UNCHANGED joined
    /\ UNCHANGED <<config, enc, ready, recvCtr, queue, status, sent,
                   serverVars, clientVars>>

\* Mutant: that the stack was sent is not recorded.
StackSentMutant ==
    /\ Step("server", "stack", "idle")
    /\ UNCHANGED <<config, crypto, queue, wire, status, joined, sent,
                   serverVars, clientVars, first>>

StackSent ==
    /\ Step("server", "stack", "idle")
    /\ stack' = TRUE
    /\ UNCHANGED <<config, crypto, queue, wire, status, joined, sent, settings,
                   staged, game, spawns, clientVars, first>>

Initialized ==
    /\ Handle("server", "set_local_player_as_initialized", "idle")
    /\ status' = [status EXCEPT !["server"] = "Initialized"]
    /\ spawns' = spawns + 1
    /\ UNCHANGED <<config, crypto, queue, wire, joined, sent, settings, stack,
                   staged, game, clientVars, first>>

ServerData ==
    /\ \E n \in {"data", "client_cache_status"} : Handle("server", n, "idle")
    /\ UNCHANGED <<config, crypto, queue, wire, status, joined, sent,
                   serverVars, clientVars, first>>

ServerWorker ==
    \/ Receive("server") \/ RequestNetworkSettings \/ NetworkSettingsSent \/ Login
    \/ EnableEncryption \/ LateNetworkSettings \/ ClientHandshake
    \/ TransitionStatus \/ SendPacksInfo \/ ResourcePackResponse \/ StackSent
    \/ Initialized \/ ServerData

-----------------------------------------------------------------------------
(* The server's application and its queue scheduler.                       *)

\* The batch is encoded while outboundMutex is held ...
Stage(pkts) ==
    /\ OutboundFree
    /\ staged' = Encode("server", pkts)
    /\ Count("server")

\* ... and then given to RakNet.
PutStaged ==
    /\ ~OutboundFree
    /\ Put("server", staged)
    /\ staged' = NoBatch
    /\ UNCHANGED <<config, crypto, queue, inbox, pc, status, joined, sent,
                   settings, stack, game, spawns, clientVars>>

\* The packets the application may send now.
Offers ==
    (IF MaySend("server") /\ sent["server"] < MaxData THEN {"data"} ELSE {})
        \cup (IF joined["server"] THEN game ELSE {})

Take(n) ==
    /\ n \in Offers
    /\ game' = game \ {n}
    /\ sent' = IF n = "data" THEN [sent EXCEPT !["server"] = @ + 1] ELSE sent

ServerWrite ==
    /\ \E n \in Offers : Take(n) /\ Stage(<<n>>)
    /\ UNCHANGED <<config, enc, ready, recvCtr, queue, wire, inbox, pc, status,
                   joined, settings, stack, spawns, clientVars, first>>

ServerQueue ==
    /\ OutboundFree
    /\ \E n \in Offers :
         Take(n) /\ queue' = [queue EXCEPT !["server"] = Append(@, n)]
    /\ UNCHANGED <<config, crypto, wire, inbox, pc, status, joined, settings,
                   stack, staged, spawns, clientVars, first>>

ServerFlush ==
    /\ queue["server"] # <<>> /\ pc["server"] # "failed"
    /\ Stage(queue["server"])
    /\ queue' = [queue EXCEPT !["server"] = <<>>]
    /\ UNCHANGED <<config, enc, ready, recvCtr, wire, inbox, pc, status,
                   joined, sent, settings, stack, game, spawns, clientVars,
                   first>>

-----------------------------------------------------------------------------
Next ==
    \/ ClientWorker \/ ClientQueue \/ ClientPump
    \/ ServerWorker \/ ServerWrite \/ ServerQueue \/ ServerFlush \/ PutStaged

\* Workers, the pump and the scheduler run, and the server's application sends
\* start_game and the spawn status once the player has joined.  The server's
\* worker shares outboundMutex with the other senders and gets it in the end.
Fairness ==
    /\ WF_vars(ClientWorker) /\ SF_vars(ServerWorker)
    /\ WF_vars(ClientPump) /\ WF_vars(ServerFlush) /\ WF_vars(PutStaged)
    /\ WF_vars(joined["server"] /\ (ServerWrite \/ ServerQueue))

Spec == Init /\ [][Next]_vars /\ Fairness

-----------------------------------------------------------------------------
\* Every batch can be read when it is received: both sides switch to the
\* compressor byte, to encryption and to fresh counters at the same place of
\* both streams, however the queues are flushed around the switch.  Only an
\* application that sends before the join can break that, and only before the
\* player has joined: no batch left over from a switch is read after it.
BatchesDecode == \A s \in Sides : pc[s] = "failed" => early # {} /\ ~joined["server"]

\* "The handshake must be the first encrypted packet": no flush of the pump
\* overtakes it, whenever the application queues.
HandshakeFirst == first \in {"", "client_to_server_handshake"}

\* The sides go through the session in step: the server admits a player only
\* after the client has joined and answered both resource pack packets, and
\* counts it as spawned only when the client is.
StagesAgree ==
    /\ status["server"] # "Authenticating" => enc["client"] /\ enc["server"]
    /\ joined["server"] => joined["client"] /\ packs = "done"
    /\ status["server"] = "Initialized" => status["client"] = "Initialized"

\* A player spawns once, whichever of start_game and the spawn status the
\* server sends first, directly or through its queue.
SpawnOnce == spawns <= 1

\* The sides keep step through the session, up to a single spawn.
InStep == TypeOK /\ StagesAgree /\ SpawnOnce

\* Every session whose applications wait for the join comes to the spawn.
Spawns == early = {} => <>(spawns = 1)
=============================================================================
