------------------------------ MODULE LiveRelay ------------------------------
(***************************************************************************)
(* One session of BedrockLiveRelay (src/relay/BedrockLiveRelay.cpp): the   *)
(* downstream player, the upstream client that is opened for it, the       *)
(* queues between them and resetRelaySession(), which takes them down.     *)
(*                                                                         *)
(* Threads: the worker of the downstream server (Srv), an application      *)
(* thread (App), and for every upstream g the worker of its transport      *)
(* (Up(g)) and upstreamThread (Run(g)).  A step is one critical section of *)
(* the session's mutex; handlerDispatchMutex_ is the variable `dispatch'.  *)
(* The upstream client is reduced to what NetworkClient.tla shows of it:   *)
(* close() holds a latch, stops the transport and waits for its worker     *)
(* unless the worker itself calls; then closed_ is set and run() notified. *)
(***************************************************************************)
EXTENDS Naturals, Sequences, SequencesExt

CONSTANTS
    MaxUpstreams,   \* bound on logins that open an upstream
    Loads,          \* the traffic a behaviour may have: how many upstreams and
                    \* the kinds of the packets of each direction, in order
    Policies        \* what a packet handler may do: "cancel", "disconnect"

Gens == 1..MaxUpstreams
None == <<"none", 0>>
Srv == <<"srv", 0>>
App == <<"app", 0>>
Up(g) == <<"up", g>>
Run(g) == <<"run", g>>
Threads == {Srv, App} \cup {Up(g) : g \in Gens} \cup {Run(g) : g \in Gens}
Serverbound == {"plain", "radius", "cache"}
Clientbound == {"plain", "start", "chunk", "spawn"}

ASSUME BoundAssumption == MaxUpstreams \in Nat \ {0}
ASSUME LoadAssumption ==
    \A l \in Loads : /\ l.up \in Gens
                     /\ l.serverbound \in Seq(Serverbound)
                     /\ l.clientbound \in Seq(Clientbound)
ASSUME PolicyAssumption == Policies \subseteq {"cancel", "disconnect"}

VARIABLES
    load,       \* the traffic of this behaviour
    life,       \* Session::lifecycle
    down,       \* downstreamPhase
    upPhase,    \* upstreamPhase
    cur,        \* upstream: the number of the client, or 0
    thr,        \* upstreamThread: whose run() it runs, or 0
    requested,  \* upstreamDisconnectRequested
    listed,     \* the session is in sessions_
    closed,     \* BedrockLiveRelay::closed_
    pendS, pendSpawn, pendC, heldC,     \* the four queues
    started,    \* clientboundStartGameSent
    due,        \* now >= clientboundChunkReleaseAt
    spawned,    \* clientboundPlayerSpawnSeen
    dispatch,   \* owner of handlerDispatchMutex_
    client,     \* the upstream clients created so far
    pc,         \* position of each thread
    job,        \* packets a thread has still to forward
    batch,      \* packets forwardClientbound is about to queue
    after,      \* where a thread goes when its job is done
    reset,      \* the resetRelaySession call of a thread
    leave,      \* where disconnectDownstream returns to
    nS, nC,     \* packets that arrived so far
    toServer,   \* history: packets handed to the upstream
    toClient,   \* history: packets queued for the downstream player
    kicked,     \* history: the downstream player was disconnected
    lost,       \* history: upstreams that ended on their own
    overlap     \* history: a packet met the flush of pendingServerbound

phases == <<life, down, upPhase, cur, thr, requested>>
relay == <<listed, closed>>
queues == <<pendS, pendSpawn, pendC, heldC, started, due, spawned>>
locals == <<job, batch, after, reset, leave>>
arrivals == <<load, nS, nC>>
history == <<toServer, toClient, kicked, lost, overlap>>
vars == <<phases, relay, queues, dispatch, client, pc, locals, arrivals, history>>

Labels == {"off", "idle", "start", "resolve", "install", "joinFlush",
           "handS", "handC", "handler", "handEnd", "routeS", "pushS",
           "fwdS", "sendS", "fwdC", "sendC", "sendHeld", "upTake", "upReady", "upEnter",
           "upNotify",
           "spawn", "lost", "dcFind", "dcKick", "rsMark", "rsDrain", "rsClose",
           "rsJoinUp", "rsJoin", "connect", "check", "blocking", "sleep",
           "stopServer"}
NoReset == [keep |-> FALSE, up |-> 0, thr |-> 0, ret |-> "idle"]
Packets == [gen : 0..MaxUpstreams, n : Nat, kind : Serverbound \cup Clientbound]

\* The type invariant.
TypeOK ==
    /\ life \in {"Open", "Resetting", "Closing", "Closed"}
    /\ down \in {"Negotiating", "Game", "Closed"}
    /\ upPhase \in {"Idle", "Negotiating", "Game", "Closed"}
    /\ cur \in 0..MaxUpstreams /\ thr \in 0..MaxUpstreams
    /\ {requested, listed, closed, started, due, spawned, kicked, overlap}
         \subseteq BOOLEAN
    /\ {pendS, pendSpawn, pendC, heldC, toServer, toClient} \subseteq Seq(Packets)
    /\ dispatch \in Threads \cup {None} /\ pc \in [Threads -> Labels]
    /\ client \in [Gens -> {"none", "new", "up", "joined", "losing", "closed"}]
    /\ job \in [Threads -> Seq(Packets)] /\ batch \in [Threads -> Seq(Packets)]
    /\ after \in [Threads -> Labels] /\ leave \in [Threads -> Labels]
    /\ reset \in [Threads -> [keep : BOOLEAN, up : 0..MaxUpstreams,
                              thr : 0..MaxUpstreams, ret : Labels]]
    /\ load \in Loads /\ nS \in 0..Len(load.serverbound)
    /\ nC \in 0..Len(load.clientbound)
    /\ lost \subseteq Gens

\* onConnect has made the session; the player has not logged in.
Init ==
    /\ life = "Open" /\ down = "Negotiating" /\ upPhase = "Idle"
    /\ cur = 0 /\ thr = 0 /\ requested = FALSE
    /\ listed = TRUE /\ closed = FALSE
    /\ pendS = <<>> /\ pendSpawn = <<>> /\ pendC = <<>> /\ heldC = <<>>
    /\ started = FALSE /\ due = FALSE /\ spawned = FALSE
    /\ dispatch = None /\ client = [g \in Gens |-> "none"]
    /\ pc = [t \in Threads |-> IF t \in {Srv, App} THEN "idle" ELSE "off"]
    /\ job = [t \in Threads |-> <<>>] /\ batch = [t \in Threads |-> <<>>]
    /\ after = [t \in Threads |-> "idle"] /\ leave = [t \in Threads |-> "idle"]
    /\ reset = [t \in Threads |-> NoReset]
    /\ load \in Loads /\ nS = 0 /\ nC = 0
    /\ toServer = <<>> /\ toClient = <<>> /\ kicked = FALSE /\ lost = {}
    /\ overlap = FALSE

-----------------------------------------------------------------------------
Goto(t, l) == pc' = [pc EXCEPT ![t] = l]
Step(t, from, to) == pc[t] = from /\ Goto(t, to)
AcceptsPackets == life = "Open"
UpstreamStarted == upPhase \in {"Negotiating", "Game"}
Ready == cur # 0 /\ upPhase = "Game"

\* The loop over a list of packets with one of the forward functions.
Forward(t, f, packets, then) ==
    /\ job' = [job EXCEPT ![t] = packets]
    /\ after' = [after EXCEPT ![t] = then]
    /\ Goto(t, IF packets = <<>> THEN then ELSE f)

\* The current packet is done.
Forwarded(t) ==
    /\ job' = [job EXCEPT ![t] = Tail(@)]
    /\ Goto(t, IF Len(job[t]) = 1 THEN after[t] ELSE pc[t])

\* The call of resetRelaySession(session, reason, keep).
CallReset(t, keep, ret) ==
    /\ Goto(t, "rsMark")
    /\ reset' = [reset EXCEPT ![t] = [NoReset EXCEPT !.keep = keep, !.ret = ret]]

\* The call of disconnectDownstream(), when the relay is not closed.
CallDisconnect(t, ret) ==
    /\ Goto(t, IF closed THEN ret ELSE "dcFind")
    /\ leave' = [leave EXCEPT ![t] = IF closed THEN "idle" ELSE ret]

\* Someone else is inside upstream->close() of g: the close latch is held.
ClosedBy(g, u) ==
    \/ pc[u] = "rsJoinUp" /\ reset[u].up = g
    \/ client[g] = "losing" /\ u = Up(g)
LatchHeld(g, t) == \E u \in Threads \ {t} : ClosedBy(g, u)

\* closedCv_.notify_all(): only a run() that already sleeps is woken.
Notify(p, g) == [p EXCEPT ![Run(g)] = IF @ = "sleep" THEN "off" ELSE @]

-----------------------------------------------------------------------------
(* resetRelaySession().                                                    *)

\* The session is marked and emptied; its upstream and its thread are taken.
ResetMark(t) ==
    /\ pc[t] = "rsMark"
    /\ IF (IF reset[t].keep THEN life # "Open" ELSE life \in {"Closing", "Closed"})
       THEN /\ Goto(t, reset[t].ret)
            /\ reset' = [reset EXCEPT ![t] = NoReset]
            /\ UNCHANGED <<phases, queues>>
       ELSE /\ Goto(t, "rsDrain")
            /\ life' = IF reset[t].keep THEN "Resetting" ELSE "Closing"
            /\ down' = IF reset[t].keep THEN down ELSE "Closed"
            /\ reset' = [reset EXCEPT ![t].up = cur, ![t].thr = thr]
            /\ upPhase' = "Closed" /\ thr' = 0 /\ requested' = TRUE
            /\ pendS' = <<>> /\ pendSpawn' = <<>> /\ pendC' = <<>> /\ heldC' = <<>>
            /\ started' = FALSE /\ due' = FALSE /\ spawned' = FALSE
            /\ UNCHANGED cur
    /\ UNCHANGED <<relay, dispatch, client, job, batch, after, leave, arrivals,
                   history>>

\* The dispatch mutex is taken and released: callbacks in progress end.
ResetDrain(t) ==
    /\ Step(t, "rsDrain", IF reset[t].up = 0 THEN "rsJoin" ELSE "rsClose")
    /\ dispatch \in {None, t}
    /\ UNCHANGED <<phases, relay, queues, dispatch, client, locals, arrivals, history>>

\* upstream->close(): the latch; its worker does not wait for itself.
ResetClose(t) ==
    LET g == reset[t].up IN
    /\ pc[t] = "rsClose" /\ ~LatchHeld(g, t)
    /\ IF t = Up(g)
       THEN /\ pc' = Notify([pc EXCEPT ![t] = "rsJoin"], g)
            /\ client' = [client EXCEPT ![g] = "closed"]
       ELSE Goto(t, "rsJoinUp") /\ UNCHANGED client
    /\ UNCHANGED <<phases, relay, queues, dispatch, locals, arrivals, history>>

\* Mutant: close() does not wait for the worker.
ResetJoinUpMutant(t) ==
    LET g == reset[t].up IN
    /\ pc[t] = "rsJoinUp"
    /\ pc[Run(g)] # "connect"
    /\ client' = [client EXCEPT ![g] = "closed"]
    /\ pc' = Notify([pc EXCEPT ![t] = "rsJoin"], g)
    /\ UNCHANGED <<phases, relay, queues, dispatch, locals, arrivals, history>>

ResetJoinUp(t) ==
    LET g == reset[t].up IN
    /\ pc[t] = "rsJoinUp"
    /\ pc[Up(g)] = "off"
    /\ pc[Run(g)] # "connect"
    /\ client' = [client EXCEPT ![g] = "closed"]
    /\ pc' = Notify([pc EXCEPT ![t] = "rsJoin"], g)
    /\ UNCHANGED <<phases, relay, queues, dispatch, locals, arrivals, history>>

\* Mutant: the thread joins itself.
ResetEndMutant(t) ==
    /\ Step(t, "rsJoin", reset[t].ret)
    /\ reset[t].thr # 0 => pc[Run(reset[t].thr)] = "off"
    /\ cur' = IF cur = reset[t].up THEN 0 ELSE cur
    /\ IF reset[t].keep /\ life = "Resetting"
       THEN life' = "Open" /\ upPhase' = "Idle" /\ requested' = FALSE
       ELSE /\ life' = IF ~reset[t].keep /\ life = "Closing" THEN "Closed" ELSE life
            /\ UNCHANGED <<upPhase, requested>>
    /\ reset' = [reset EXCEPT ![t] = NoReset]
    /\ UNCHANGED <<down, thr, relay, queues, dispatch, client, job, batch, after,
                   leave, arrivals, history>>

\* upstreamThread.join(), or detach() on the thread itself, and the end.
ResetEnd(t) ==
    /\ Step(t, "rsJoin", reset[t].ret)
    /\ LET g == reset[t].thr IN g # 0 /\ t # Run(g) => pc[Run(g)] = "off"
    /\ cur' = IF cur = reset[t].up THEN 0 ELSE cur
    /\ IF reset[t].keep /\ life = "Resetting"
       THEN life' = "Open" /\ upPhase' = "Idle" /\ requested' = FALSE
       ELSE /\ life' = IF ~reset[t].keep /\ life = "Closing" THEN "Closed" ELSE life
            /\ UNCHANGED <<upPhase, requested>>
    /\ reset' = [reset EXCEPT ![t] = NoReset]
    /\ UNCHANGED <<down, thr, relay, queues, dispatch, client, job, batch, after,
                   leave, arrivals, history>>

Reset(t) == ResetMark(t) \/ ResetDrain(t) \/ ResetClose(t) \/ ResetJoinUp(t)
              \/ ResetEnd(t)

\* disconnectDownstream(): find the session, reset it, disconnect the player.
DisconnectFind(t) ==
    /\ pc[t] = "dcFind"
    /\ IF listed THEN CallReset(t, FALSE, "dcKick") /\ UNCHANGED leave
                 ELSE /\ Goto(t, leave[t]) /\ UNCHANGED reset
                      /\ leave' = [leave EXCEPT ![t] = "idle"]
    /\ UNCHANGED <<phases, relay, queues, dispatch, client, job, batch, after,
                   arrivals, history>>

DisconnectKick(t) ==
    /\ Step(t, "dcKick", leave[t])
    /\ leave' = [leave EXCEPT ![t] = "idle"]
    /\ kicked' = TRUE
    /\ UNCHANGED <<phases, relay, queues, dispatch, client, job, batch, after, reset,
                   arrivals, toServer, toClient, lost, overlap>>

DisconnectDownstream(t) == DisconnectFind(t) \/ DisconnectKick(t)

-----------------------------------------------------------------------------
(* applyHandlers(), forwardServerbound() and forwardClientbound().         *)

HandlersEnter(t) ==
    /\ pc[t] \in {"handS", "handC"} /\ dispatch = None
    /\ IF AcceptsPackets
       THEN dispatch' = t /\ Goto(t, "handler") /\ UNCHANGED job
       ELSE /\ Goto(t, after[t]) /\ UNCHANGED dispatch
            /\ job' = [job EXCEPT ![t] = <<>>]
    /\ UNCHANGED <<phases, relay, queues, client, batch, after, reset, leave, arrivals,
                   history>>

\* The handlers let the packet pass, cancel it, or end the session from inside
\* the dispatch mutex, as Relay::handleLivePacket does after a parse error.
Handlers(t) ==
    /\ pc[t] = "handler"
    /\ \/ /\ AcceptsPackets
          /\ Goto(t, IF t = Srv THEN "routeS" ELSE "fwdC")
          /\ dispatch' = None /\ UNCHANGED <<job, leave>>
       \/ /\ ~AcceptsPackets \/ "cancel" \in Policies
          /\ Goto(t, after[t]) /\ job' = [job EXCEPT ![t] = <<>>]
          /\ dispatch' = None /\ UNCHANGED leave
       \/ /\ "disconnect" \in Policies
          /\ Goto(t, "dcFind") /\ leave' = [leave EXCEPT ![t] = "handEnd"]
          /\ UNCHANGED <<job, dispatch>>
    /\ UNCHANGED <<phases, relay, queues, client, batch, after, reset, arrivals,
                   history>>

HandlersEnd(t) ==
    /\ Step(t, "handEnd", after[t])
    /\ dispatch' = None /\ job' = [job EXCEPT ![t] = <<>>]
    /\ UNCHANGED <<phases, relay, queues, client, batch, after, reset, leave, arrivals,
                   history>>

\* Up(g) has taken pendingServerbound and not yet sent all of it.
Flushing == \E g \in Gens : pc[Up(g)] \in {"fwdS", "sendS"} /\ after[Up(g)] = "upReady"

ForwardServerbound(t) ==
    /\ pc[t] = "fwdS" /\ dispatch = None
    /\ IF AcceptsPackets /\ Ready
       THEN /\ dispatch' = t /\ Goto(t, "sendS") /\ UNCHANGED <<pendS, job>>
            /\ overlap' = (overlap \/ (t = Srv /\ Flushing))
       ELSE /\ pendS' = IF AcceptsPackets THEN Append(pendS, Head(job[t])) ELSE pendS
            /\ Forwarded(t) /\ UNCHANGED <<dispatch, overlap>>
    /\ UNCHANGED <<phases, relay, pendSpawn, pendC, heldC, started, due, spawned,
                   client, batch, after, reset, leave, arrivals, toServer, toClient,
                   kicked, lost>>

\* sendPacket() or sendBuffer(), outside the session's mutex.
SendServerbound(t) ==
    /\ pc[t] = "sendS"
    /\ toServer' = Append(toServer, Head(job[t]))
    /\ dispatch' = None
    /\ job' = [job EXCEPT ![t] = Tail(@)]
    /\ Goto(t, IF Len(job[t]) = 1 THEN after[t] ELSE "fwdS")
    /\ UNCHANGED <<phases, relay, queues, client, batch, after, reset, leave, arrivals,
                   toClient, kicked, lost, overlap>>

ForwardClientbound(t) ==
    LET p == Head(job[t]) IN
    /\ pc[t] = "fwdC" /\ dispatch = None
    /\ \/ /\ ~AcceptsPackets
          /\ Forwarded(t) /\ UNCHANGED <<pendC, heldC, started, due, dispatch, batch>>
       \/ /\ AcceptsPackets /\ down # "Game"
          /\ pendC' = Append(pendC, p)
          /\ Forwarded(t) /\ UNCHANGED <<heldC, started, due, dispatch, batch>>
       \/ /\ AcceptsPackets /\ down = "Game"
          /\ p.kind = "chunk" /\ (~started \/ ~due)
          /\ heldC' = Append(heldC, p)
          /\ Forwarded(t) /\ UNCHANGED <<pendC, started, due, dispatch, batch>>
       \/ /\ AcceptsPackets /\ down = "Game"
          /\ p.kind = "chunk" => started /\ due
          /\ started' = (started \/ p.kind = "start")
          /\ due' = (due /\ p.kind # "start")
          /\ LET release == started' /\ due' IN
             /\ batch' = [batch EXCEPT ![t] = <<p>> \o (IF release THEN heldC ELSE <<>>)]
             /\ heldC' = IF release THEN <<>> ELSE heldC
          /\ dispatch' = t /\ Goto(t, "sendC") /\ UNCHANGED <<pendC, job>>
    /\ UNCHANGED <<phases, relay, pendS, pendSpawn, spawned, client, after, reset,
                   leave, arrivals, history>>

\* The end of forwardClientbound(): the dispatch mutex is released.
ClientboundDone(t) ==
    /\ dispatch' = None
    /\ batch' = [batch EXCEPT ![t] = <<>>]
    /\ job' = [job EXCEPT ![t] = Tail(@)]
    /\ Goto(t, IF Len(job[t]) = 1 THEN after[t] ELSE "fwdC")

\* queuePacket(), after the session was looked at again.
SendClientbound(t) ==
    /\ pc[t] = "sendC"
    /\ LET sends == AcceptsPackets /\ down = "Game" IN
       /\ toClient' = IF sends THEN Append(toClient, Head(batch[t])) ELSE toClient
       /\ IF sends /\ Len(batch[t]) > 1
          THEN /\ Goto(t, "sendHeld") /\ batch' = [batch EXCEPT ![t] = Tail(@)]
               /\ UNCHANGED <<dispatch, job>>
          ELSE ClientboundDone(t)
    /\ UNCHANGED <<phases, relay, queues, client, after, reset, leave, arrivals,
                   toServer, kicked, lost, overlap>>

\* queuePackets() with the chunks that were held, after yet another look.
SendHeld(t) ==
    /\ pc[t] = "sendHeld"
    /\ toClient' = IF AcceptsPackets /\ down = "Game" THEN toClient \o batch[t]
                                                     ELSE toClient
    /\ ClientboundDone(t)
    /\ UNCHANGED <<phases, relay, queues, client, after, reset, leave, arrivals,
                   toServer, kicked, lost, overlap>>

Forwarding(t) ==
    \/ HandlersEnter(t) \/ Handlers(t) \/ HandlersEnd(t)
    \/ ForwardServerbound(t) \/ SendServerbound(t)
    \/ ForwardClientbound(t) \/ SendClientbound(t) \/ SendHeld(t)

\* 500 ms after start_game.
ChunkDelayPasses ==
    /\ started /\ ~due /\ due' = TRUE
    /\ UNCHANGED <<phases, relay, pendS, pendSpawn, pendC, heldC, started, spawned,
                   dispatch, client, pc, locals, arrivals, history>>

-----------------------------------------------------------------------------
(* The worker of the downstream server.                                    *)

\* onLogin: an upstream that was already started is taken down first.
Login ==
    /\ pc[Srv] = "idle" /\ listed /\ client[load.up] = "none"
    /\ down' = "Negotiating"
    /\ IF UpstreamStarted \/ cur # 0
       THEN CallReset(Srv, TRUE, "start")
       ELSE Goto(Srv, "start") /\ UNCHANGED reset
    /\ UNCHANGED <<life, upPhase, cur, thr, requested, relay, queues, dispatch, client,
                   job, batch, after, leave, arrivals, history>>

StartUpstream ==
    /\ pc[Srv] = "start"
    /\ IF AcceptsPackets /\ ~UpstreamStarted
       THEN Goto(Srv, "resolve") /\ upPhase' = "Negotiating"
       ELSE Goto(Srv, "idle") /\ UNCHANGED upPhase
    /\ UNCHANGED <<life, down, cur, thr, requested, relay, queues, dispatch, client,
                   locals, arrivals, history>>

\* resolveUpstreamRealm() takes its time and may fail.
ResolveRealm ==
    /\ pc[Srv] = "resolve"
    /\ \/ /\ Goto(Srv, "idle")
          /\ upPhase' = IF AcceptsPackets THEN "Idle" ELSE upPhase
       \/ closed /\ Goto(Srv, "idle") /\ upPhase' = "Closed"
       \/ ~closed /\ Goto(Srv, "install") /\ UNCHANGED upPhase
    /\ UNCHANGED <<life, down, cur, thr, requested, relay, queues, dispatch, client,
                   locals, arrivals, history>>

\* Mutant: the session is not looked at again after the realm was resolved.
InstallUpstreamMutant ==
    LET g == CHOOSE n \in Gens : client[n] = "none"
                 /\ \A m \in Gens : client[m] = "none" => n <= m
    IN
    /\ pc[Srv] = "install"
    /\ cur' = g /\ thr' = g
    /\ client' = [client EXCEPT ![g] = "new"]
    /\ pc' = [pc EXCEPT ![Srv] = "idle", ![Run(g)] = "connect"]
    /\ UNCHANGED <<life, down, upPhase, requested, relay, queues, dispatch, locals,
                   arrivals, history>>

\* The client is made, its handlers are registered and, if the session still
\* accepts packets, it is published together with its thread.
InstallUpstream ==
    LET g == CHOOSE n \in Gens : client[n] = "none"
                 /\ \A m \in Gens : client[m] = "none" => n <= m
    IN
    /\ pc[Srv] = "install"
    /\ IF AcceptsPackets
       THEN /\ cur' = g /\ thr' = g
            /\ client' = [client EXCEPT ![g] = "new"]
            /\ pc' = [pc EXCEPT ![Srv] = "idle", ![Run(g)] = "connect"]
            /\ UNCHANGED upPhase
       ELSE /\ upPhase' = "Closed" /\ Goto(Srv, "idle")
            /\ UNCHANGED <<cur, thr, client>>
    /\ UNCHANGED <<life, down, requested, relay, queues, dispatch, locals, arrivals,
                   history>>

\* handleDownstreamJoin(): the phase changes, the join handlers run, and only
\* then the queued packets are taken and forwarded.
DownstreamJoin ==
    /\ pc[Srv] = "idle" /\ listed /\ down = "Negotiating"
    /\ IF AcceptsPackets THEN down' = "Game" /\ Goto(Srv, "joinFlush")
                         ELSE UNCHANGED <<down, pc>>
    /\ UNCHANGED <<life, upPhase, cur, thr, requested, relay, queues, dispatch, client,
                   locals, arrivals, history>>

DownstreamFlush ==
    /\ pc[Srv] = "joinFlush"
    /\ Forward(Srv, "fwdC", pendC, "idle")
    /\ pendC' = <<>>
    /\ UNCHANGED <<phases, relay, pendS, pendSpawn, heldC, started, due, spawned,
                   dispatch, client, batch, reset, leave, arrivals, history>>

\* handleDownstreamPacket(), of a player that has joined.
DownstreamPacket ==
    /\ pc[Srv] = "idle" /\ listed /\ down # "Negotiating" /\ nS < Len(load.serverbound)
    /\ nS' = nS + 1
    /\ IF AcceptsPackets
       THEN Forward(Srv, "handS",
                    <<[gen |-> 0, n |-> nS', kind |-> load.serverbound[nS']]>>, "idle")
       ELSE UNCHANGED <<pc, job, after>>
    /\ UNCHANGED <<phases, relay, queues, dispatch, client, batch, reset, leave, load,
                   nC, history>>

\* Where a packet of the player goes: client_cache_status is dropped while the
\* upstream is not ready and request_chunk_radius waits for the spawn.
RouteServerbound ==
    LET p == Head(job[Srv])
        Drop == Goto(Srv, "idle") /\ job' = [job EXCEPT ![Srv] = <<>>]
    IN
    /\ pc[Srv] = "routeS"
    /\ \/ ~AcceptsPackets /\ Drop /\ UNCHANGED pendSpawn
       \/ /\ AcceptsPackets /\ p.kind = "cache" /\ ~Ready
          /\ Drop /\ UNCHANGED pendSpawn
       \/ /\ AcceptsPackets /\ p.kind = "radius" /\ ~spawned
          /\ Drop /\ pendSpawn' = Append(pendSpawn, p)
       \/ /\ AcceptsPackets /\ (p.kind = "radius" => spawned)
          /\ p.kind = "cache" => Ready
          /\ Goto(Srv, IF Ready THEN "fwdS" ELSE "pushS")
          /\ UNCHANGED <<job, pendSpawn>>
    /\ UNCHANGED <<phases, relay, pendS, pendC, heldC, started, due, spawned, dispatch,
                   client, batch, after, reset, leave, arrivals, history>>

\* The packet is queued in a critical section of its own.
PushServerbound ==
    /\ Step(Srv, "pushS", "idle")
    /\ pendS' = IF AcceptsPackets THEN pendS \o job[Srv] ELSE pendS
    /\ job' = [job EXCEPT ![Srv] = <<>>]
    /\ overlap' = (overlap \/ Ready)
    /\ UNCHANGED <<phases, relay, pendSpawn, pendC, heldC, started, due, spawned,
                   dispatch, client, batch, after, reset, leave, arrivals, toServer,
                   toClient, kicked, lost>>

\* onDisconnect of the server: removeRelaySession().
DownstreamLost ==
    /\ pc[Srv] = "idle" /\ listed
    /\ listed' = FALSE
    /\ CallReset(Srv, FALSE, "idle")
    /\ UNCHANGED <<phases, closed, queues, dispatch, client, job, batch, after, leave,
                   arrivals, history>>

Server ==
    \/ StartUpstream \/ ResolveRealm \/ InstallUpstream \/ DownstreamFlush
    \/ RouteServerbound \/ PushServerbound

-----------------------------------------------------------------------------
(* The worker of an upstream transport.                                    *)

Current(g) == AcceptsPackets /\ cur = g

\* onJoin: client_cache_status is written outside the session's mutex.
UpstreamJoin(g) ==
    /\ pc[Up(g)] = "idle" /\ client[g] = "up"
    /\ client' = [client EXCEPT ![g] = "joined"]
    /\ Goto(Up(g), IF Current(g) /\ upPhase = "Negotiating" THEN "upTake" ELSE "idle")
    /\ UNCHANGED <<phases, relay, queues, dispatch, locals, arrivals, history>>

\* Mutant: the upstream becomes ready and its queue is left alone.
UpstreamTakeMutant(g) ==
    /\ pc[Up(g)] = "upTake"
    /\ Goto(Up(g), IF Current(g) THEN "upReady" ELSE "idle")
    /\ upPhase' = IF Current(g) THEN "Game" ELSE upPhase
    /\ UNCHANGED <<life, down, cur, thr, requested, relay, queues, dispatch, client,
                   locals, arrivals, history>>

\* The upstream becomes ready and the queue is taken; it is sent afterwards.
UpstreamTake(g) ==
    /\ pc[Up(g)] = "upTake"
    /\ IF Current(g)
       THEN /\ upPhase' = "Game" /\ pendS' = <<>>
            /\ Forward(Up(g), "fwdS", pendS, "upReady")
       ELSE Goto(Up(g), "idle") /\ UNCHANGED <<upPhase, pendS, job, after>>
    /\ UNCHANGED <<life, down, cur, thr, requested, relay, pendSpawn, pendC, heldC,
                   started, due, spawned, dispatch, client, batch, reset, leave,
                   arrivals, history>>

\* stillReady is read before the dispatch mutex is taken.
UpstreamReady(g) ==
    /\ Step(Up(g), "upReady",
            IF Current(g) /\ upPhase = "Game" THEN "upEnter" ELSE "idle")
    /\ after' = [after EXCEPT ![Up(g)] = "idle"]
    /\ UNCHANGED <<phases, relay, queues, dispatch, client, job, batch, reset, leave,
                   arrivals, history>>

\* The upstreamJoin handlers run.
UpstreamEnter(g) ==
    /\ Step(Up(g), "upEnter", "upNotify")
    /\ dispatch = None /\ dispatch' = Up(g)
    /\ UNCHANGED <<phases, relay, queues, client, locals, arrivals, history>>

UpstreamNotified(g) ==
    /\ Step(Up(g), "upNotify", "idle")
    /\ dispatch' = None
    /\ UNCHANGED <<phases, relay, queues, client, locals, arrivals, history>>

\* onAny and handleUpstreamPacket().
UpstreamPacket(g) ==
    /\ pc[Up(g)] = "idle" /\ client[g] = "joined" /\ nC < Len(load.clientbound)
    /\ nC' = nC + 1
    /\ LET k == load.clientbound[nC'] IN
       IF Current(g)
       THEN Forward(Up(g), "handC", <<[gen |-> g, n |-> nC', kind |-> k]>>,
                    IF k = "spawn" THEN "spawn" ELSE "idle")
       ELSE UNCHANGED <<pc, job, after>>
    /\ UNCHANGED <<phases, relay, queues, dispatch, client, batch, reset, leave, load,
                   nS, history>>

\* play_status player_spawn, also when a handler cancelled it: the packets
\* that waited for the spawn are taken and forwarded.
PlayerSpawn(g) ==
    /\ pc[Up(g)] = "spawn"
    /\ IF AcceptsPackets
       THEN /\ spawned' = TRUE /\ pendSpawn' = <<>>
            /\ Forward(Up(g), "fwdS", pendSpawn, "idle")
       ELSE /\ Goto(Up(g), "idle") /\ UNCHANGED <<spawned, pendSpawn, job>>
            /\ after' = [after EXCEPT ![Up(g)] = "idle"]
    /\ UNCHANGED <<phases, relay, pendS, pendC, heldC, started, due, dispatch, client,
                   batch, reset, leave, arrivals, history>>

\* onError of the upstream, from its worker.
UpstreamError(g) ==
    /\ pc[Up(g)] = "idle" /\ client[g] \in {"up", "joined"} /\ ~LatchHeld(g, Up(g))
    /\ Current(g) /\ ~requested
    /\ requested' = TRUE
    /\ CallDisconnect(Up(g), "idle")
    /\ UNCHANGED <<life, down, upPhase, cur, thr, relay, queues, dispatch, client, job,
                   batch, after, reset, arrivals, history>>

\* Mutant: only the loss of an upstream that has joined is reported.
UpstreamLostMutant(g) ==
    /\ pc[Up(g)] = "idle" /\ client[g] \in {"up", "joined"} /\ ~LatchHeld(g, Up(g))
    /\ client' = [client EXCEPT ![g] = "losing"]
    /\ lost' = IF Current(g) /\ ~closed THEN lost \cup {g} ELSE lost
    /\ upPhase' = IF Current(g) THEN "Idle" ELSE upPhase
    /\ IF Current(g) /\ ~requested /\ client[g] = "joined"
       THEN requested' = TRUE /\ CallDisconnect(Up(g), "lost")
       ELSE Goto(Up(g), "lost") /\ UNCHANGED <<requested, leave>>
    /\ UNCHANGED <<life, down, cur, thr, relay, queues, dispatch, job, batch, after,
                   reset, arrivals, toServer, toClient, kicked, overlap>>

\* The connection ends: onClose runs inside the client's emitClose().
UpstreamLost(g) ==
    /\ pc[Up(g)] = "idle" /\ client[g] \in {"up", "joined"} /\ ~LatchHeld(g, Up(g))
    /\ client' = [client EXCEPT ![g] = "losing"]
    /\ lost' = IF Current(g) /\ ~closed THEN lost \cup {g} ELSE lost
    /\ upPhase' = IF Current(g) THEN "Idle" ELSE upPhase
    /\ IF Current(g) /\ ~requested
       THEN requested' = TRUE /\ CallDisconnect(Up(g), "lost")
       ELSE Goto(Up(g), "lost") /\ UNCHANGED <<requested, leave>>
    /\ UNCHANGED <<life, down, cur, thr, relay, queues, dispatch, job, batch, after,
                   reset, arrivals, toServer, toClient, kicked, overlap>>

\* The rest of emitClose(), after which the worker ends.
UpstreamClosed(g) ==
    /\ pc[Up(g)] = "lost"
    /\ client' = [client EXCEPT ![g] = "closed"]
    /\ pc' = Notify([pc EXCEPT ![Up(g)] = "off"], g)
    /\ UNCHANGED <<phases, relay, queues, dispatch, locals, arrivals, history>>

\* The worker leaves its loop when the transport is stopped.
UpstreamStops(g) ==
    /\ Step(Up(g), "idle", "off")
    /\ client[g] = "closed" \/ LatchHeld(g, Up(g))
    /\ UNCHANGED <<phases, relay, queues, dispatch, client, locals, arrivals, history>>

Upstream(g) ==
    \/ UpstreamTake(g) \/ UpstreamReady(g) \/ UpstreamEnter(g) \/ UpstreamNotified(g)
    \/ PlayerSpawn(g) \/ UpstreamClosed(g) \/ UpstreamStops(g)

-----------------------------------------------------------------------------
(* upstreamThread: upstream->run().                                        *)

RunConnected(g) ==
    /\ pc[Run(g)] = "connect" /\ client[g] = "new" /\ ~LatchHeld(g, Run(g))
    /\ client' = [client EXCEPT ![g] = "up"]
    /\ pc' = [pc EXCEPT ![Run(g)] = "check", ![Up(g)] = "idle"]
    /\ UNCHANGED <<phases, relay, queues, dispatch, locals, arrivals, history>>

\* connect() fails and reports an error, or throws out of run().
RunFailed(g) ==
    /\ pc[Run(g)] = "connect" /\ client[g] = "new" /\ ~LatchHeld(g, Run(g))
    /\ client' = [client EXCEPT ![g] = "closed"]
    /\ lost' = IF Current(g) /\ ~closed THEN lost \cup {g} ELSE lost
    /\ \/ IF Current(g) /\ ~requested
          THEN requested' = TRUE /\ CallDisconnect(Run(g), "off")
          ELSE Goto(Run(g), "off") /\ UNCHANGED <<requested, leave>>
       \/ IF Current(g)
          THEN UNCHANGED requested /\ CallDisconnect(Run(g), "off")
          ELSE Goto(Run(g), "off") /\ UNCHANGED <<requested, leave>>
    /\ UNCHANGED <<life, down, upPhase, cur, thr, relay, queues, dispatch, job, batch,
                   after, reset, arrivals, toServer, toClient, kicked, overlap>>

\* onMsaCode without a callback: signing in asks for a code, the player is told
\* it with a disconnect, and connect() goes on.
RunMsaCode(g) ==
    /\ pc[Run(g)] = "connect" /\ client[g] = "new"
    /\ ~closed /\ AcceptsPackets /\ upPhase # "Idle"
    /\ CallDisconnect(Run(g), "connect")
    /\ UNCHANGED <<phases, relay, queues, dispatch, client, job, batch, after, reset,
                   arrivals, history>>

\* connect() of a client that is being closed returns false.
RunStopped(g) ==
    /\ Step(Run(g), "connect", "off")
    /\ client[g] = "closed" \/ LatchHeld(g, Run(g))
    /\ UNCHANGED <<phases, relay, queues, dispatch, client, locals, arrivals, history>>

\* closedCv_.wait(): the predicate is read, then the thread blocks; closed_ is
\* stored and notified without the mutex that would join the two.
RunCheck(g) ==
    /\ Step(Run(g), "check", IF client[g] = "closed" THEN "off" ELSE "blocking")
    /\ UNCHANGED <<phases, relay, queues, dispatch, client, locals, arrivals, history>>

RunBlock(g) ==
    /\ Step(Run(g), "blocking", "sleep")
    /\ UNCHANGED <<phases, relay, queues, dispatch, client, locals, arrivals, history>>

RunThread(g) ==
    \/ RunConnected(g) \/ RunFailed(g) \/ RunMsaCode(g) \/ RunStopped(g)
    \/ RunCheck(g) \/ RunBlock(g)

-----------------------------------------------------------------------------
(* The application.                                                        *)

CloseUpstreamConnection ==
    /\ pc[App] = "idle" /\ listed /\ cur # 0
    /\ leave' = [leave EXCEPT ![App] = "off"]
    /\ CallReset(App, FALSE, "dcKick")
    /\ UNCHANGED <<phases, relay, queues, dispatch, client, job, batch, after,
                   arrivals, history>>

\* close(): the sessions are reset, then the server is closed and joined.
CloseRelay ==
    /\ pc[App] = "idle"
    /\ closed' = TRUE
    /\ IF listed THEN CallReset(App, FALSE, "stopServer")
                 ELSE Goto(App, "stopServer") /\ UNCHANGED reset
    /\ UNCHANGED <<phases, listed, queues, dispatch, client, job, batch, after, leave,
                   arrivals, history>>

StopServer ==
    /\ pc[App] = "stopServer" /\ pc[Srv] = "idle"
    /\ pc' = [pc EXCEPT ![App] = "off", ![Srv] = "off"]
    /\ listed' = FALSE
    /\ UNCHANGED <<phases, closed, queues, dispatch, client, locals, arrivals, history>>

-----------------------------------------------------------------------------
\* What a thread does inside a call it has begun.
Work(t) == Reset(t) \/ DisconnectDownstream(t) \/ Forwarding(t)

ServerWork == Work(Srv) \/ Server
OtherWork ==
    \/ \E t \in Threads \ {Srv} : Work(t)
    \/ StopServer
    \/ \E g \in Gens : Upstream(g) \/ RunThread(g)

Next ==
    \/ ServerWork \/ OtherWork
    \/ Login \/ DownstreamJoin \/ DownstreamPacket \/ DownstreamLost
    \/ \E g \in Gens :
         UpstreamJoin(g) \/ UpstreamPacket(g) \/ UpstreamError(g) \/ UpstreamLost(g)
    \/ CloseUpstreamConnection \/ CloseRelay
    \/ ChunkDelayPasses

\* The server's worker goes on inside a call when it can, and as long as some
\* other thread can go on inside a call, one of them does.  Neither the player
\* nor the servers nor the application must act.
Fairness == WF_vars(ServerWork) /\ WF_vars(OtherWork)

Spec == Init /\ [][Next]_vars /\ Fairness

-----------------------------------------------------------------------------
(* Waits that never end.                                                   *)

\* A thread that runs handlers waits for an upstream worker that waits for the
\* dispatch mutex.
HandlerJoinsWaiter ==
    \E t \in Threads :
        /\ pc[t] = "rsJoinUp" /\ dispatch = t
        /\ pc[Up(reset[t].up)] \in {"handC", "fwdC", "fwdS", "upEnter", "rsDrain"}

\* The worker calls close() while the owner of the latch waits for the worker.
LatchJoinsWaiter ==
    \E t \in Threads : pc[t] = "rsJoinUp" /\ pc[Up(reset[t].up)] = "rsClose"

\* run() sleeps although its client is closed: the notification was lost.
WakeupLost == \E g \in Gens : pc[Run(g)] = "sleep" /\ client[g] = "closed"

Stuck == HandlerJoinsWaiter \/ LatchJoinsWaiter \/ WakeupLost

Resetting(t) == pc[t] \in {"rsMark", "rsDrain", "rsClose", "rsJoinUp", "rsJoin"}
Drained == \E t \in Threads :
    ~reset[t].keep /\ pc[t] \in {"rsClose", "rsJoinUp", "rsJoin"}

-----------------------------------------------------------------------------
\* Nothing passes a session that is down: once a final reset has drained the
\* dispatch mutex no packet reaches the upstream or the player any more ("so
\* no backend packet can race that delay").
QuietAfterDrain ==
    Drained \/ life = "Closed"
    => \A t \in Threads : pc[t] \notin {"sendS", "sendC", "sendHeld"}

\* A player that logs in again never gets packets of its former upstream: what
\* is queued, held or about to be sent for an open session comes from the
\* upstream it has.
FreshClientbound ==
    AcceptsPackets =>
        /\ \A p \in ToSet(pendC \o heldC) : p.gen = cur
        /\ \A t \in Threads : \A p \in ToSet(batch[t]) : p.gen = cur

\* A closed session owns nothing: no upstream, no thread, and every client that
\* was opened for it is closed, wherever startUpstream() was meanwhile.
NoOrphan ==
    life = "Closed" =>
        /\ cur = 0 /\ thr = 0
        /\ \A g \in Gens : client[g] \in {"none", "closed"} \/ pc[Up(g)] = "lost"

\* A session that is down is down: nothing passes it and it owns nothing.
DownIsQuiet == TypeOK /\ QuietAfterDrain /\ NoOrphan

\* Ordinary packets of the player reach the upstream in their order and none
\* stays behind in the queue of a ready upstream, unless one met the flush of
\* that queue.
ServerboundInOrder ==
    ~overlap =>
        /\ LET plain == SelectSeq(toServer, LAMBDA p : p.kind = "plain")
           IN \A i, j \in DOMAIN plain : i < j => plain[i].n < plain[j].n
        /\ AcceptsPackets /\ Ready /\ ~Flushing => pendS = <<>>

\* No level_chunk reaches the player before the start_game of its upstream.
ChunksAfterStart ==
    \A j \in DOMAIN toClient : toClient[j].kind = "chunk" =>
        \E i \in 1..(j - 1) : toClient[i].kind = "start"
                                /\ toClient[i].gen = toClient[j].gen

\* The order that matters is kept in both directions.
PacketsInOrder == ServerboundInOrder /\ ChunksAfterStart

\* Resets end, whoever calls them and however they overlap, unless one is in
\* one of the three waits above.
ResetsEnd ==
    (\E t \in Threads : Resetting(t)) ~> Stuck \/ \A t \in Threads : ~Resetting(t)

\* The player of an upstream that failed or went away is disconnected, unless
\* the session or the relay is closed otherwise or a reset is stuck.
PlayerTold == lost # {} ~> kicked \/ ~listed \/ closed \/ Stuck
=============================================================================
