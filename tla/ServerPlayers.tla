---------------------------- MODULE ServerPlayers ----------------------------
(***************************************************************************)
(* The player registry of BedrockServer (include/bedrock/server/           *)
(* BedrockServer.hpp) on top of the peer table of RakNetServer             *)
(* (src/server/RakNetServer.cpp): opening and closing of players by the    *)
(* network, by disconnect() and close() of a player, and by Server#close.  *)
(*                                                                         *)
(* Three kinds of threads run it: the RakNet worker, the application's     *)
(* threads, and the fallback timer of scheduled player closes.  A step is  *)
(* one critical section of peersMutex_, serverStateMutex_,                 *)
(* playerLifecycleMutex_ or lifecycleMutex_, or one call of the listeners. *)
(* A session number stands for one BedrockServerConnection and its         *)
(* SessionState; a key is what playerKey() makes of it, its endpoint and   *)
(* its GUID.  Delays are reduced to "may happen from now on".              *)
(***************************************************************************)
EXTENDS Integers, FiniteSets

CONSTANTS
    Apps,         \* application threads
    Endpoints,    \* address:port of a peer
    Guids,        \* RakNet GUIDs
    None,         \* no GUID
    MaxSessions,  \* bound on connections
    MaxListens    \* bound on listen() after Server#close

Worker == "worker"
Timer == "timer"
Threads == Apps \cup {Worker, Timer}
Sessions == 1..MaxSessions
Keys == Endpoints \X Guids
NoKey == <<>>

ASSUME ThreadAssumption == Worker \notin Apps /\ Timer \notin Apps
ASSUME GuidAssumption == None \notin Guids
ASSUME BoundAssumption == MaxSessions \in Nat /\ MaxListens \in Nat
ASSUME FiniteAssumption == IsFiniteSet(Apps) /\ IsFiniteSet(Endpoints)

VARIABLES
    link,       \* the GUID natively connected at each endpoint
    peers,      \* RakNetServer::peers_
    running,    \* RakNetServer::running_
    shutdown,   \* RakNetServer::shutdownScheduled_
    sched,      \* keys in RakNetServer::scheduledPeerCloses_
    closing,    \* BedrockServer::closing_
    conn,       \* connections_ and sessions_: session at each endpoint, or 0
    count,      \* clientCount_
    status,     \* SessionState::status: live or not
    closedP,    \* closedPlayers_
    detached,   \* keys of detachedPlayerStatuses_
    timed,      \* sessions in scheduledPlayerCloses_
    key,        \* the endpoint and GUID of each session
    opened,     \* how many sessions there have been
    listens,    \* how many times listen() was called again
    pc,         \* position of each thread
    ret,        \* where disconnect() or closePlayer() returns to
    back,       \* where closePeerNow() or handlePeerClosed() returns to
    sess,       \* the session a thread works on
    peer,       \* the peer a thread works on
    todo,       \* Server#close: clients not yet disconnected
    cut,        \* Server#close: detachedStatuses
    heard,      \* history: how often a session's close listeners ran
    cause,      \* history: sessions that somebody ended
    cleared,    \* history: Server#close emptied the registry
    overtaken   \* history: a close was overtaken (see CountExact)

net == <<link, peers, running, shutdown, sched>>
registry == <<conn, count, status, key, opened>>
lifecycle == <<closedP, detached, timed>>
server == <<closing, listens>>
locals == <<ret, back, sess, peer, todo, cut>>
history == <<heard, cause, cleared, overtaken>>
vars == <<net, registry, lifecycle, server, pc, locals, history>>

Labels == {"idle", "off", "openErase", "openRegister",
           "peerErase", "pcFind", "pcMark", "pcEmit", "pcDetach", "pcErase",
           "pcCount", "plMark", "plEmit", "plPeer", "plStatus", "plDetach",
           "dcRoute", "dcNative", "dcTimer",
           "scSnap", "scNext", "scClear", "scDetach", "scShutdown", "scJoin"}

\* The type invariant.
TypeOK ==
    /\ link \in [Endpoints -> Guids \cup {None}]
    /\ peers \in [Endpoints -> Guids \cup {None}]
    /\ running \in BOOLEAN /\ shutdown \in BOOLEAN /\ sched \subseteq Keys
    /\ closing \in BOOLEAN /\ listens \in 0..MaxListens
    /\ conn \in [Endpoints -> 0..MaxSessions] /\ count \in Int
    /\ status \in [Sessions -> {"Live", "Disconnected"}]
    /\ key \in [Sessions -> Keys \cup {NoKey}] /\ opened \in 0..MaxSessions
    /\ closedP \subseteq Keys /\ detached \subseteq Keys
    /\ timed \subseteq Sessions
    /\ pc \in [Threads -> Labels]
    /\ ret \in [Threads -> {"idle", "scNext"}]
    /\ back \in [Threads -> {"idle", "plStatus"}]
    /\ sess \in [Threads -> 0..MaxSessions] 
    /\ peer \in [Threads -> Keys \cup {NoKey}]
    /\ todo \in [Threads -> SUBSET Sessions] /\ cut \in [Threads -> SUBSET Sessions]
    /\ heard \in [Sessions -> 0..2] /\ cause \subseteq Sessions
    /\ cleared \in BOOLEAN /\ overtaken \in BOOLEAN

\* A server that listens; nobody has connected.
Init ==
    /\ link = [e \in Endpoints |-> None] /\ peers = [e \in Endpoints |-> None]
    /\ running = TRUE /\ shutdown = FALSE /\ sched = {}
    /\ closing = FALSE /\ listens = 0
    /\ conn = [e \in Endpoints |-> 0] /\ count = 0
    /\ status = [s \in Sessions |-> "Live"]
    /\ key = [s \in Sessions |-> NoKey] /\ opened = 0
    /\ closedP = {} /\ detached = {} /\ timed = {}
    /\ pc = [t \in Threads |-> "idle"]
    /\ ret = [t \in Threads |-> "idle"] /\ back = [t \in Threads |-> "idle"]
    /\ sess = [t \in Threads |-> 0]
    /\ peer = [t \in Threads |-> NoKey]
    /\ todo = [t \in Threads |-> {}] /\ cut = [t \in Threads |-> {}]
    /\ heard = [s \in Sessions |-> 0] /\ cause = {}
    /\ cleared = FALSE /\ overtaken = FALSE

-----------------------------------------------------------------------------
Goto(t, l) == pc' = [pc EXCEPT ![t] = l]
Step(t, from, to) == pc[t] = from /\ Goto(t, to)

\* The end of a call: back to l, where only closePlayer still needs the peer.
Return(t, l) ==
    /\ Goto(t, l)
    /\ sess' = IF l = "plStatus" THEN sess ELSE [sess EXCEPT ![t] = 0]
    /\ peer' = IF l = "plStatus" THEN peer ELSE [peer EXCEPT ![t] = NoKey]

\* sessionSnapshot and playerSnapshot: the session registered under key k.
Registered(k) ==
    LET s == conn[k[1]] IN IF s # 0 /\ key[s] = k THEN s ELSE 0

\* hasWritablePlayer.
Writable(s) == Registered(key[s]) # 0 /\ status[Registered(key[s])] = "Live"

\* A listener that runs now: application threads call the server at any time,
\* the worker from packet listeners.
Known == 1..opened

-----------------------------------------------------------------------------
(* The worker: handleNativePacket and the onOpenConnection handler.        *)

\* A client connects, and ID_NEW_INCOMING_CONNECTION is received.
NewIncoming(e, g) ==
    /\ pc[Worker] = "idle" /\ running /\ opened < MaxSessions
    /\ link[e] = None
    /\ \A s \in Known : key[s][2] # g  \* every connection draws a new GUID
    /\ link' = [link EXCEPT ![e] = g]
    /\ IF peers[e] = g
       THEN UNCHANGED <<peers, pc, peer>>
       ELSE /\ peers' = [peers EXCEPT ![e] = g]
            /\ IF closing
               THEN UNCHANGED <<pc, peer>>
               ELSE /\ peer' = [peer EXCEPT ![Worker] = <<e, g>>]
                    /\ Goto(Worker, "openErase")
    /\ UNCHANGED <<running, shutdown, sched, registry, lifecycle, server,
                   ret, back, sess, todo, cut, history>>

OpenErase ==
    /\ Step(Worker, "openErase", "openRegister")
    /\ closedP' = closedP \ {peer[Worker]}
    /\ detached' = detached \ {peer[Worker]}
    /\ UNCHANGED <<net, registry, timed, server, locals, history>>

Register(e, s) ==
    /\ opened' = s
    /\ key' = [key EXCEPT ![s] = peer[Worker]]
    /\ status' = [status EXCEPT ![s] = "Live"]
    /\ conn' = [conn EXCEPT ![e] = s]
    /\ count' = count + 1
    /\ overtaken' = (overtaken \/ conn[e] # 0)

\* Mutant: closing_ is not looked at again under serverStateMutex_.
OpenRegisterMutant ==
    /\ pc[Worker] = "openRegister" /\ Return(Worker, "idle")
    /\ Register(peer[Worker][1], opened + 1)
    /\ UNCHANGED <<net, lifecycle, server, ret, back, todo, cut, heard, cause,
                   cleared>>

\* closing_ is read again under serverStateMutex_.  The connect listeners that
\* follow may call the server: see Known.
OpenRegister ==
    /\ pc[Worker] = "openRegister" /\ Return(Worker, "idle")
    /\ IF closing
       THEN UNCHANGED <<registry, overtaken>>
       ELSE Register(peer[Worker][1], opened + 1)
    /\ UNCHANGED <<net, lifecycle, server, ret, back, todo, cut, heard, cause,
                   cleared>>

\* A peer goes away; its disconnect message is handled if the peer is known.
PeerLost(e) ==
    /\ pc[Worker] = "idle" /\ running /\ link[e] # None
    /\ link' = [link EXCEPT ![e] = None]
    /\ IF peers[e] = link[e]
       THEN /\ peers' = [peers EXCEPT ![e] = None]
            /\ peer' = [peer EXCEPT ![Worker] = <<e, link[e]>>]
            /\ back' = [back EXCEPT ![Worker] = "idle"]
            /\ cause' = cause \cup ({Registered(<<e, link[e]>>)} \ {0})
            /\ Goto(Worker, "pcFind")
       ELSE UNCHANGED <<peers, peer, back, cause, pc>>
    /\ UNCHANGED <<running, shutdown, sched, registry, lifecycle, server,
                   ret, sess, todo, cut, heard, cleared, overtaken>>

\* processLifecycleDeadlines: a scheduled close is due ...
CloseDue(k) ==
    /\ pc[Worker] = "idle" /\ running /\ k \in sched
    /\ sched' = sched \ {k}
    /\ peer' = [peer EXCEPT ![Worker] = k]
    /\ back' = [back EXCEPT ![Worker] = "idle"]
    /\ Goto(Worker, "peerErase")
    /\ UNCHANGED <<link, peers, running, shutdown, registry, lifecycle, server,
                   ret, sess, todo, cut, history>>

\* ... or the shutdown is: finishShutdown, and the worker ends.
ShutdownDue ==
    /\ Step(Worker, "idle", "off") /\ running /\ shutdown
    /\ running' = FALSE /\ shutdown' = FALSE /\ sched' = {}
    /\ link' = [e \in Endpoints |-> None]
    /\ peers' = [e \in Endpoints |-> None]
    /\ UNCHANGED <<registry, lifecycle, server, locals, history>>

RunWorker ==
    \/ \E e \in Endpoints : PeerLost(e) \/ \E g \in Guids : NewIncoming(e, g)
    \/ OpenErase \/ OpenRegister
    \/ \E k \in sched : CloseDue(k)
    \/ ShutdownDue

-----------------------------------------------------------------------------
(* RakNetServer::closePeerNow and BedrockServer::handlePeerClosed.         *)

\* Mutant: whoever is at the endpoint is closed.
PeerEraseMutant(t) ==
    LET e == peer[t][1] IN
    /\ pc[t] = "peerErase"
    /\ IF peers[e] # None
       THEN /\ peers' = [peers EXCEPT ![e] = None]
            /\ link' = [link EXCEPT ![e] = None]
            /\ peer' = [peer EXCEPT ![t] = <<e, peers[e]>>]
            /\ Goto(t, "pcFind")
            /\ UNCHANGED sess
       ELSE Return(t, back[t]) /\ UNCHANGED <<peers, link>>
    /\ UNCHANGED <<running, shutdown, sched, registry, lifecycle, server,
                   ret, back, todo, cut, history>>

\* peers_ is compared by GUID, and the native connection is closed.
PeerErase(t) ==
    LET e == peer[t][1]  g == peer[t][2] IN
    /\ pc[t] = "peerErase"
    /\ IF peers[e] = g
       THEN /\ peers' = [peers EXCEPT ![e] = None]
            /\ link' = [link EXCEPT ![e] = IF @ = g THEN None ELSE @]
            /\ Goto(t, "pcFind") /\ UNCHANGED <<sess, peer>>
       ELSE Return(t, back[t]) /\ UNCHANGED <<peers, link>>
    /\ UNCHANGED <<running, shutdown, sched, registry, lifecycle, server,
                   ret, back, todo, cut, history>>

PcFind(t) ==
    /\ pc[t] = "pcFind"
    /\ IF Registered(peer[t]) = 0
       THEN Return(t, back[t])
       ELSE /\ Goto(t, "pcMark") /\ UNCHANGED peer
            /\ sess' = [sess EXCEPT ![t] = Registered(peer[t])]
    /\ UNCHANGED <<net, registry, lifecycle, server, ret, back, todo, cut,
                   history>>

PcMark(t) ==
    /\ pc[t] = "pcMark"
    /\ Goto(t, IF peer[t] \in closedP THEN "pcDetach" ELSE "pcEmit")
    /\ closedP' = closedP \cup {peer[t]}
    /\ UNCHANGED <<net, registry, detached, timed, server, locals, history>>

Hear(t) == heard' = [heard EXCEPT ![sess[t]] = @ + 1]

\* Mutant: the player's listeners are cleared without being called.
PcEmitMutant(t) ==
    /\ Step(t, "pcEmit", "pcDetach")
    /\ UNCHANGED <<net, registry, lifecycle, server, locals, history>>

PcEmit(t) ==
    /\ Step(t, "pcEmit", "pcDetach") /\ Hear(t)
    /\ UNCHANGED <<net, registry, lifecycle, server, locals, cause, cleared,
                   overtaken>>

PcDetach(t) ==
    /\ Step(t, "pcDetach", "pcErase")
    /\ detached' = detached \ {peer[t]}
    /\ UNCHANGED <<net, registry, closedP, timed, server, locals, history>>

PcErase(t) ==
    /\ pc[t] = "pcErase"
    /\ IF Registered(peer[t]) # 0
       THEN /\ conn' = [conn EXCEPT ![peer[t][1]] = 0]
            /\ Goto(t, "pcCount") /\ UNCHANGED <<sess, peer>>
       ELSE UNCHANGED conn /\ Return(t, back[t])
    /\ UNCHANGED <<net, count, status, key, opened, lifecycle, server, ret, back,
                   todo, cut, history>>

\* --clientCount_, outside serverStateMutex_.
PcCount(t) ==
    /\ pc[t] = "pcCount" /\ Return(t, back[t])
    /\ count' = count - 1
    /\ UNCHANGED <<net, conn, status, key, opened, lifecycle, server, ret, back,
                   todo, cut, history>>

PeerClosed(t) ==
    \/ PeerErase(t) \/ PcFind(t) \/ PcMark(t) \/ PcEmit(t) \/ PcDetach(t)
    \/ PcErase(t) \/ PcCount(t)

-----------------------------------------------------------------------------
(* Player#close: closeConnection, sendDisconnectStatus, closePlayer.       *)

BeginClosePlayer(t, s) ==
    /\ pc[t] = "idle" /\ Writable(s) /\ Goto(t, "plMark")
    /\ sess' = [sess EXCEPT ![t] = s]
    /\ peer' = [peer EXCEPT ![t] = key[s]]
    /\ ret' = [ret EXCEPT ![t] = "idle"]
    /\ cause' = cause \cup {s}
    /\ UNCHANGED <<net, registry, lifecycle, server, back, todo, cut, heard,
                   cleared, overtaken>>

\* runPlayerCloseScheduler: a deadline has passed.
TimerDue(s) ==
    /\ Step(Timer, "idle", "plMark") /\ s \in timed
    /\ timed' = timed \ {s}
    /\ sess' = [sess EXCEPT ![Timer] = s]
    /\ peer' = [peer EXCEPT ![Timer] = key[s]]
    /\ UNCHANGED <<net, registry, closedP, detached, server, ret, back, todo, cut,
                   history>>

PlMark(t) ==
    /\ pc[t] = "plMark"
    /\ IF peer[t] \in closedP
       THEN Return(t, ret[t])
       ELSE Goto(t, "plEmit") /\ UNCHANGED <<sess, peer>>
    /\ closedP' = closedP \cup {peer[t]}
    /\ UNCHANGED <<net, registry, detached, timed, server, ret, back, todo, cut,
                   history>>

PlEmit(t) ==
    /\ Step(t, "plEmit", "plPeer") /\ Hear(t)
    /\ UNCHANGED <<net, registry, lifecycle, server, locals, cause, cleared,
                   overtaken>>

\* RakNetServer::closePeer does nothing once the backend has stopped.
PlPeer(t) ==
    /\ Step(t, "plPeer", IF running THEN "peerErase" ELSE "plStatus")
    /\ back' = [back EXCEPT ![t] = "plStatus"]
    /\ UNCHANGED <<net, registry, lifecycle, server, ret, sess, peer, todo, cut,
                   history>>

PlStatus(t) ==
    /\ Step(t, "plStatus", "plDetach")
    /\ back' = [back EXCEPT ![t] = "idle"]
    /\ status' = IF Registered(peer[t]) # 0
                 THEN [status EXCEPT ![Registered(peer[t])] = "Disconnected"]
                 ELSE status
    /\ UNCHANGED <<net, conn, count, key, opened, lifecycle, server, ret, sess,
                   peer, todo, cut, history>>

PlDetach(t) ==
    /\ pc[t] = "plDetach" /\ Return(t, ret[t])
    /\ detached' = detached \ {peer[t]}
    /\ UNCHANGED <<net, registry, closedP, timed, server, ret, back, todo, cut,
                   history>>

ClosePlayer(t) ==
    \/ PlMark(t) \/ PlEmit(t) \/ PlPeer(t) \/ PlStatus(t) \/ PlDetach(t)

-----------------------------------------------------------------------------
(* Player#disconnect: the packet is sent and a close is scheduled.         *)

BeginDisconnect(t, s) ==
    /\ pc[t] = "idle" /\ Writable(s) /\ Goto(t, "dcRoute")
    /\ sess' = [sess EXCEPT ![t] = s]
    /\ ret' = [ret EXCEPT ![t] = "idle"]
    /\ cause' = cause \cup {s}
    /\ UNCHANGED <<net, registry, lifecycle, server, back, peer, todo, cut, heard,
                   cleared, overtaken>>

\* schedulePlayerClose: on the worker while the server listens.
DcRoute(t) ==
    /\ Step(t, "dcRoute", IF running /\ ~closing THEN "dcNative" ELSE "dcTimer")
    /\ UNCHANGED <<net, registry, lifecycle, server, locals, history>>

\* RakNetServer::closePeerAfter drops the request once the backend stopped.
DcNative(t) ==
    /\ pc[t] = "dcNative" /\ Return(t, ret[t])
    /\ sched' = IF running THEN sched \cup {key[sess[t]]} ELSE sched
    /\ UNCHANGED <<link, peers, running, shutdown, registry, lifecycle, server,
                   ret, back, todo, cut, history>>

DcTimer(t) ==
    /\ pc[t] = "dcTimer" /\ Return(t, ret[t])
    /\ timed' = timed \cup {sess[t]}
    /\ UNCHANGED <<net, registry, closedP, detached, server, ret, back, todo, cut,
                   history>>

Disconnect(t) == DcRoute(t) \/ DcNative(t) \/ DcTimer(t)

-----------------------------------------------------------------------------
(* Server#close and listen().                                              *)

InServerClose(t) ==
    \/ pc[t] \in {"scSnap", "scNext", "scClear", "scDetach", "scShutdown",
                  "scJoin"}
    \/ ret[t] = "scNext" /\ pc[t] # "idle"

BeginServerClose(t) ==
    /\ Step(t, "idle", "scSnap")
    /\ closing' = TRUE
    /\ UNCHANGED <<net, registry, lifecycle, listens, locals, history>>

ScSnap(t) ==
    /\ Step(t, "scSnap", "scNext")
    /\ todo' = [todo EXCEPT ![t] = {conn[e] : e \in Endpoints} \ {0}]
    /\ cut' = [cut EXCEPT ![t] = {conn[e] : e \in Endpoints} \ {0}]
    /\ UNCHANGED <<net, registry, lifecycle, server, ret, back, sess, peer,
                   history>>

\* disconnect() of one client; a client that is gone is skipped.
ScNext(t, s) ==
    /\ pc[t] = "scNext" /\ s \in todo[t]
    /\ todo' = [todo EXCEPT ![t] = @ \ {s}]
    /\ IF Writable(s)
       THEN /\ Goto(t, "dcRoute")
            /\ sess' = [sess EXCEPT ![t] = s]
            /\ ret' = [ret EXCEPT ![t] = "scNext"]
            /\ cause' = cause \cup {s}
       ELSE UNCHANGED <<pc, sess, ret, cause>>
    /\ UNCHANGED <<net, registry, lifecycle, server, back, peer, cut, heard,
                   cleared, overtaken>>

ScDone(t) ==
    /\ Step(t, "scNext", "scClear") /\ todo[t] = {}
    /\ ret' = [ret EXCEPT ![t] = "idle"]
    /\ UNCHANGED <<net, registry, lifecycle, server, back, sess, peer, todo, cut,
                   history>>

ScClear(t) ==
    /\ Step(t, "scClear", "scDetach")
    /\ cut' = [cut EXCEPT ![t] = {s \in @ : conn[key[s][1]] # 0}]
    /\ conn' = [e \in Endpoints |-> 0]
    /\ count' = 0
    /\ cleared' = TRUE
    /\ overtaken' = (overtaken \/ \E u \in Threads : pc[u] = "pcCount")
    /\ UNCHANGED <<net, status, key, opened, lifecycle, server, ret, back, sess,
                   peer, todo, heard, cause>>

\* Mutant: players that were closed meanwhile get their old status back.
ScDetachMutant(t) ==
    /\ Step(t, "scDetach", "scShutdown")
    /\ cut' = [cut EXCEPT ![t] = {}]
    /\ detached' = detached \cup {key[s] : s \in cut[t]}
    /\ UNCHANGED <<net, registry, closedP, timed, server, ret, back, sess, peer,
                   todo, history>>

ScDetach(t) ==
    /\ Step(t, "scDetach", "scShutdown")
    /\ cut' = [cut EXCEPT ![t] = {}]
    /\ detached' = detached \cup ({key[s] : s \in cut[t]} \ closedP)
    /\ UNCHANGED <<net, registry, closedP, timed, server, ret, back, sess, peer,
                   todo, history>>

ScShutdown(t) ==
    /\ Step(t, "scShutdown", IF t = Worker THEN "idle" ELSE "scJoin")
    /\ shutdown' = (shutdown \/ running)
    /\ UNCHANGED <<link, peers, running, sched, registry, lifecycle, server,
                   locals, history>>

ScJoin(t) ==
    /\ Step(t, "scJoin", "idle") /\ pc[Worker] = "off"
    /\ UNCHANGED <<net, registry, lifecycle, server, locals, history>>

ServerClose(t) ==
    \/ ScSnap(t) \/ (\E s \in todo[t] : ScNext(t, s)) \/ ScDone(t) \/ ScClear(t)
    \/ ScDetach(t) \/ ScShutdown(t) \/ ScJoin(t)

\* listen() again, when no Server#close is under way.  RakNetServer::listen
\* returns at once while the backend still runs.
Listen(t) ==
    /\ pc[t] = "idle" /\ closing /\ listens < MaxListens
    /\ \A u \in Threads : ~InServerClose(u)
    /\ running \/ pc[Worker] = "off"
    /\ listens' = listens + 1
    /\ closing' = FALSE /\ cleared' = FALSE
    /\ IF running
       THEN UNCHANGED <<net, pc>>
       ELSE /\ peers' = [e \in Endpoints |-> None] /\ sched' = {}
            /\ shutdown' = FALSE /\ running' = TRUE
            /\ pc' = [pc EXCEPT ![Worker] = "idle"]
            /\ UNCHANGED link
    /\ UNCHANGED <<registry, lifecycle, locals, heard, cause, overtaken>>

-----------------------------------------------------------------------------
Work(t) == PeerClosed(t) \/ ClosePlayer(t) \/ Disconnect(t) \/ ServerClose(t)

Next ==
    \/ RunWorker
    \/ \E s \in timed : TimerDue(s)
    \/ \E t \in Threads : Work(t)
    \/ \E t \in Apps \cup {Worker} :
         \/ \E s \in Known : BeginClosePlayer(t, s) \/ BeginDisconnect(t, s)
         \/ BeginServerClose(t)
    \/ \E t \in Apps : Listen(t)

\* Threads are scheduled and deadlines pass; nobody is obliged to call.  The
\* worker looks at its deadlines after at most 256 packets (maxReceiveBatch),
\* whatever listeners do on it: strong fairness.
Fairness ==
    /\ \A t \in Threads : WF_vars(Work(t))
    /\ WF_vars(OpenErase \/ OpenRegister)
    /\ SF_vars(\E k \in sched : CloseDue(k)) /\ SF_vars(ShutdownDue)
    /\ WF_vars(\E s \in timed : TimerDue(s))

Spec == Init /\ [][Next]_vars /\ Fairness

-----------------------------------------------------------------------------
\* A player's close event is emitted at most once, although the worker, the
\* timer, application threads and Server#close may all close it.
CloseOnce == \A s \in Sessions : heard[s] <= 1

\* Nobody is closed for somebody else: a session whose close listeners ran was
\* itself lost, disconnected or closed; a scheduled close that outlives its
\* session does not end the next one at the same endpoint.
NoSpuriousClose == \A s \in Sessions : heard[s] > 0 => s \in cause

\* A close event is for the player it is emitted for, and for it alone.
CloseIsOwn == CloseOnce /\ NoSpuriousClose

\* After Server#close has emptied the registry no player appears in it until
\* the server listens again, however the open handler was interleaved.
ClosedRegistryEmpty == cleared => \A e \in Endpoints : conn[e] = 0

\* clientCount_ is the number of registered players, up to the decrements
\* still to come, unless a connection took the place of one whose close was
\* under way or Server#close reset the count before such a decrement.
CountExact ==
    ~overtaken =>
        count = Cardinality({e \in Endpoints : conn[e] # 0})
                  + Cardinality({t \in Threads : pc[t] = "pcCount"})

\* The registry and the count say who is there.
RegistryExact == TypeOK /\ ClosedRegistryEmpty /\ CountExact

\* A player that is closed, and not just being closed, is not remembered with
\* the status it had when Server#close detached it.
DetachedNotClosed ==
    \A k \in detached \cap closedP : \E t \in Threads :
        /\ peer[t] = k
        /\ pc[t] \in {"plEmit", "plPeer", "peerErase", "pcFind", "pcMark",
                      "pcEmit", "pcDetach", "pcErase", "pcCount", "plStatus",
                      "plDetach"}

\* The server listens, but the backend has stopped: listen() came between a
\* close on the worker and the shutdown that close had scheduled.
Abandoned == ~closing /\ ~running

\* Whoever was disconnected, closed or lost hears of it: the close listeners
\* run, also when Server#close stops the backend before a scheduled close,
\* unless listen() was swallowed by that shutdown.
EndIsHeard == \A s \in Sessions : s \in cause ~> heard[s] > 0 \/ Abandoned
=============================================================================
