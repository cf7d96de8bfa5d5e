------------------------------ MODULE QueuePump ------------------------------
(***************************************************************************)
(* The send queue of BedrockNetworkClient (src/client/                     *)
(* BedrockNetworkClient.cpp): queue() and sendQueued(), the pump thread    *)
(* that drains the queue at every batching interval (queueLoop), and the   *)
(* operations that start, resume, pause and stop it, as connect() and      *)
(* emitClose() call them from several threads.  sendPacketsLocked() and    *)
(* RakNetClient::sendReliable() return without a word when there is no     *)
(* connected transport, so of the transport the module has whether it is   *)
(* installed and connected.                                                *)
(*                                                                         *)
(* A step is one critical section of queueMutex_, queueLifecycleMutex_,    *)
(* closingMutex_ or sendMutex_.  Deadlines are reduced to whether they are *)
(* set: a deadline that is set may pass at any time.  Packets are numbered *)
(* in the order in which queue() accepts them.  The packets that the pump  *)
(* itself makes go out behind a batch and are in none of the lists.        *)
(***************************************************************************)
EXTENDS Naturals, Sequences, FiniteSets, SequencesExt

CONSTANTS
    Callers,     \* threads that use the client
    NoThread,    \* the null std::thread::id
    MaxPackets,  \* bound on calls of queue()
    MaxDepth,    \* bound on close() calls nested in close listeners
    Timers       \* the deadlines the session sets

ASSUME ThreadAssumption == NoThread \notin Callers
ASSUME BoundAssumption == MaxPackets \in Nat /\ MaxDepth \in Nat \ {0}

ASSUME TimerAssumption == Timers \subseteq {"chunkRadius", "keepAlive"}

VARIABLES
    stopQ,      \* stopQueue_
    requested,  \* queuePumpRequested_
    enabled,    \* queuePumpEnabled_
    inFlight,   \* queuePumpInFlight_
    resumeDue,  \* queuePumpResumeDue_.has_value()
    timers,     \* which of chunkRadiusDue_ and keepAliveDue_ are set
    queued,     \* queuedPackets_
    lifecycle,  \* owner of queueLifecycleMutex_
    stopReq,    \* rakNetStopRequested_
    raknet,     \* raknet_: none (or ended), installed, or connected
    closing,    \* closingThreadId_; closing_ is "not NoThread"
    depth,      \* closingDepth_
    committed,  \* closingCommitted_
    pump,       \* queueThread_: none, its position, or ended and not joined
    batch,      \* packets the pump has taken and not yet sent
    pc,         \* position of each caller
    back,       \* where startQueue() or stopQueue() returns to
    late,       \* startQueue()'s allowAfterTransportStop
    taken,      \* packets sendQueued() has taken and not yet sent
    wire,       \* history: packets sent, in order
    dropped,    \* history: packets cleared by a stop
    lost,       \* history: packets given to a send without a connection
    exposed,    \* history: packets, waiting or lost, that were without one
    accepted,   \* history: how many packets queue() has accepted
    overlap     \* history: two threads have held taken packets at once

flags == <<stopQ, requested, enabled, inFlight, resumeDue>>
latch == <<closing, depth, committed>>
locals == <<pc, back, late, taken>>
history == <<wire, dropped, lost, exposed, accepted, overlap>>
vars == <<flags, timers, queued, lifecycle, stopReq, raknet, latch, pump, batch,
          locals, history>>

Labels == {"idle", "startLock", "startStop", "startJoin", "startArm",
           "startSpawn", "stopLock", "stopIfRunning", "stopFlag", "stopJoin",
           "flush", "stopTransport", "pause", "pauseWait", "listen",
           "closeStop", "closeCommit", "closeTransport", "release"}
Packets == 1..MaxPackets

\* The type invariant.
TypeOK ==
    /\ stopQ \in BOOLEAN /\ requested \in BOOLEAN /\ enabled \in BOOLEAN
    /\ inFlight \in BOOLEAN /\ resumeDue \in BOOLEAN
    /\ timers \subseteq Timers /\ queued \in Seq(Packets)
    /\ lifecycle \in Callers \cup {NoThread} /\ stopReq \in BOOLEAN
    /\ raknet \in {"none", "installed", "connected"}
    /\ closing \in Callers \cup {NoThread} /\ depth \in 0..MaxDepth
    /\ committed \in BOOLEAN
    /\ pump \in {"none", "loop", "send", "sent", "ended"}
    /\ batch \in Seq(Packets)
    /\ pc \in [Callers -> Labels]
    /\ back \in [Callers -> {"idle", "listen", "closeCommit"}]
    /\ late \in [Callers -> BOOLEAN] /\ taken \in [Callers -> Seq(Packets)]
    /\ wire \in Seq(Packets) /\ dropped \subseteq Packets
    /\ lost \subseteq Packets /\ exposed \subseteq Packets
    /\ accepted \in 0..MaxPackets /\ overlap \in BOOLEAN

Init ==
    /\ stopQ = TRUE /\ requested = FALSE /\ enabled = FALSE
    /\ inFlight = FALSE /\ resumeDue = FALSE
    /\ timers = {} /\ queued = <<>> /\ lifecycle = NoThread /\ stopReq = FALSE
    /\ raknet = "none"
    /\ closing = NoThread /\ depth = 0 /\ committed = FALSE
    /\ pump = "none" /\ batch = <<>>
    /\ pc = [t \in Callers |-> "idle"] /\ back = [t \in Callers |-> "idle"]
    /\ late = [t \in Callers |-> FALSE] /\ taken = [t \in Callers |-> <<>>]
    /\ wire = <<>> /\ dropped = {} /\ lost = {} /\ exposed = {}
    /\ accepted = 0 /\ overlap = FALSE

-----------------------------------------------------------------------------
Goto(t, l) == pc' = [pc EXCEPT ![t] = l]
Step(t, from, to) == pc[t] = from /\ Goto(t, to)

\* startQueue() or stopQueue() returns; its locals are forgotten.
Return(t) ==
    /\ Goto(t, back[t])
    /\ back' = [back EXCEPT ![t] = "idle"]
    /\ late' = [late EXCEPT ![t] = FALSE]

\* A caller is between calls, or inside a close listener, where it may call
\* the client again.
Free(t) == pc[t] \in {"idle", "listen"}
Home(t) == IF closing = t THEN "listen" ELSE "idle"

Holding == batch # <<>> \/ \E t \in Callers : taken[t] # <<>>

-----------------------------------------------------------------------------
(* queue() and sendQueued().                                               *)

Queue(t) ==
    /\ Free(t) /\ accepted < MaxPackets
    /\ accepted' = accepted + 1
    /\ queued' = Append(queued, accepted')
    /\ exposed' = IF raknet = "connected" THEN exposed
                  ELSE exposed \cup {accepted'}
    /\ UNCHANGED <<flags, timers, lifecycle, stopReq, raknet, latch, pump,
                   batch, locals, wire, dropped, lost, overlap>>

\* sendPacketsLocked() and sendReliable(): without a connected transport the
\* packets are gone.
SendPacketsLocked(packets) ==
    IF raknet = "connected"
    THEN /\ wire' = wire \o packets /\ exposed' = exposed \ ToSet(packets)
         /\ UNCHANGED lost
    ELSE lost' = lost \cup ToSet(packets) /\ UNCHANGED <<wire, exposed>>

\* sendQueued() takes the queue under queueMutex_ ...
SendQueuedTake(t) ==
    /\ Free(t) /\ Goto(t, "flush")
    /\ taken' = [taken EXCEPT ![t] = queued]
    /\ queued' = <<>>
    /\ overlap' = (overlap \/ (Holding /\ queued # <<>>))
    /\ UNCHANGED <<flags, timers, lifecycle, stopReq, raknet, latch, pump,
                   batch, back, late, wire, dropped, lost, exposed, accepted>>

\* ... and sends it under sendMutex_.
SendQueuedSend(t) ==
    /\ Step(t, "flush", Home(t))
    /\ SendPacketsLocked(taken[t])
    /\ taken' = [taken EXCEPT ![t] = <<>>]
    /\ UNCHANGED <<flags, timers, queued, lifecycle, stopReq, raknet, latch,
                   pump, batch, back, late, dropped, accepted,
                   overlap>>

\* handleResourcePacksInfo and handlePlayStatus set the pump's own deadlines.
ArmTimer(k) ==
    /\ k \notin timers
    /\ timers' = timers \cup {k}
    /\ UNCHANGED <<flags, queued, lifecycle, stopReq, raknet, latch, pump,
                   batch, locals, history>>

-----------------------------------------------------------------------------
(* The transport.                                                          *)

Waiting ==
    ToSet(queued) \cup ToSet(batch) \cup UNION {ToSet(taken[t]) : t \in Callers}

Disconnect == raknet' = "none" /\ exposed' = exposed \cup Waiting

\* connect() installs the transport after it has resumed the pump, unless a
\* stop was published.
InstallTransport ==
    /\ raknet = "none" /\ ~stopReq
    /\ raknet' = "installed"
    /\ UNCHANGED <<flags, timers, queued, lifecycle, stopReq, latch, pump,
                   batch, locals, history>>

\* The server accepts the connection.
TransportConnected ==
    /\ raknet = "installed"
    /\ raknet' = "connected"
    /\ UNCHANGED <<flags, timers, queued, lifecycle, stopReq, latch, pump,
                   batch, locals, history>>

\* The attempt fails, or the connection ends.
TransportLost ==
    /\ raknet # "none" /\ Disconnect
    /\ UNCHANGED <<flags, timers, queued, lifecycle, stopReq, latch, pump,
                   batch, locals, wire, dropped, lost, accepted, overlap>>

\* requestRakNetStop() publishes the stop without touching the queue ...
RequestStop(t) ==
    /\ Free(t) /\ Goto(t, "stopTransport")
    /\ stopReq' = TRUE
    /\ UNCHANGED <<flags, timers, queued, lifecycle, raknet, latch, pump,
                   batch, back, late, taken, history>>

\* ... and stops the transport that it finds under sendMutex_.
RequestStopTransport(t) ==
    /\ Step(t, "stopTransport", Home(t))
    /\ Disconnect
    /\ UNCHANGED <<flags, timers, queued, lifecycle, stopReq, latch, pump,
                   batch, back, late, taken, wire, dropped, lost, accepted,
                   overlap>>

-----------------------------------------------------------------------------
(* startQueue() and resumeQueuePump().                                     *)

\* A rejected authentication starts the queue even after the transport stop.
BeginStart(t) ==
    /\ Free(t) /\ Goto(t, "startLock")
    /\ back' = [back EXCEPT ![t] = pc[t]]
    /\ \E l \in BOOLEAN : (l => stopReq) /\ late' = [late EXCEPT ![t] = l]
    /\ UNCHANGED <<flags, timers, queued, lifecycle, stopReq, raknet, latch,
                   pump, batch, taken, history>>

Refused(t) == stopReq /\ ~late[t]

StartLock(t) ==
    /\ pc[t] = "startLock" /\ lifecycle = NoThread
    /\ IF Refused(t)
       THEN Return(t) /\ UNCHANGED lifecycle
       ELSE Goto(t, "startStop") /\ lifecycle' = t /\ UNCHANGED <<back, late>>
    /\ UNCHANGED <<flags, timers, queued, stopReq, raknet, latch, pump, batch,
                   taken, history>>

\* The first half of stopQueueLocked(preserveRollbackDeadline).
StopFlags(preserve) ==
    /\ stopQ' = TRUE /\ requested' = FALSE /\ enabled' = FALSE
    /\ resumeDue' = (resumeDue /\ preserve)
    /\ queued' = <<>> /\ timers' = {}
    /\ dropped' = dropped \cup ToSet(queued) /\ exposed' = exposed \ ToSet(queued)

StartStop(t) ==
    /\ Step(t, "startStop", "startJoin")
    /\ StopFlags(TRUE)
    /\ UNCHANGED <<inFlight, lifecycle, stopReq, raknet, latch, pump, batch,
                   back, late, taken, wire, lost, accepted, overlap>>

StartJoin(t) ==
    /\ Step(t, "startJoin", "startArm")
    /\ pump \in {"none", "ended"} /\ pump' = "none"
    /\ UNCHANGED <<flags, timers, queued, lifecycle, stopReq, raknet, latch,
                   batch, back, late, taken, history>>

\* Mutant: a queue started during a close enables its pump.
StartArmMutant(t) ==
    /\ pc[t] = "startArm"
    /\ IF Refused(t)
       THEN Return(t) /\ lifecycle' = NoThread /\ UNCHANGED flags
       ELSE /\ Goto(t, "startSpawn")
            /\ \E on \in BOOLEAN : requested' = on /\ enabled' = (on /\ ~resumeDue)
            /\ stopQ' = FALSE /\ inFlight' = FALSE
            /\ resumeDue' = (resumeDue /\ closing = NoThread)
            /\ UNCHANGED <<lifecycle, back, late>>
    /\ UNCHANGED <<timers, queued, stopReq, raknet, latch, pump, batch, taken,
                   history>>

\* The pump is armed unless a close is emitting or was rolled back just now;
\* a factory's queue starts paused.
StartArm(t) ==
    /\ pc[t] = "startArm"
    /\ IF Refused(t)
       THEN Return(t) /\ lifecycle' = NoThread /\ UNCHANGED flags
       ELSE /\ Goto(t, "startSpawn")
            /\ \E on \in BOOLEAN :
                 /\ requested' = on
                 /\ enabled' = (on /\ closing = NoThread /\ ~resumeDue)
            /\ stopQ' = FALSE /\ inFlight' = FALSE
            /\ resumeDue' = (resumeDue /\ closing = NoThread)
            /\ UNCHANGED <<lifecycle, back, late>>
    /\ UNCHANGED <<timers, queued, stopReq, raknet, latch, pump, batch, taken,
                   history>>

\* std::thread's constructor succeeds, or throws.
StartSpawn(t) ==
    /\ pc[t] = "startSpawn" /\ Return(t)
    /\ lifecycle' = NoThread
    /\ \/ pump' = "loop" /\ UNCHANGED flags
       \/ /\ stopQ' = TRUE /\ requested' = FALSE /\ enabled' = FALSE
          /\ inFlight' = FALSE
          /\ UNCHANGED <<pump, resumeDue>>
    /\ UNCHANGED <<timers, queued, stopReq, raknet, latch, batch, taken,
                   history>>

\* resumeQueuePump() keeps the demand and enables the pump unless a close is
\* emitting or its rollback is pending.
Resume(t) ==
    /\ Free(t) /\ ~stopQ
    /\ requested' = TRUE
    /\ enabled' = (closing = NoThread /\ ~resumeDue)
    /\ UNCHANGED <<stopQ, inFlight, resumeDue, timers, queued, lifecycle,
                   stopReq, raknet, latch, pump, batch, locals, history>>

Start(t) ==
    \/ StartLock(t) \/ StartStop(t) \/ StartJoin(t) \/ StartArm(t)
    \/ StartSpawn(t)

-----------------------------------------------------------------------------
(* stopQueue() and stopQueueIfRunning().                                   *)

\* connect() stops the queue when the attempt fails or was stopped.
BeginStop(t) ==
    /\ Free(t)
    /\ Goto(t, "stopLock") \/ Goto(t, "stopIfRunning")
    /\ back' = [back EXCEPT ![t] = pc[t]]
    /\ UNCHANGED <<flags, timers, queued, lifecycle, stopReq, raknet, latch,
                   pump, batch, late, taken, history>>

StopLock(t) ==
    /\ pc[t] \in {"stopLock", "stopIfRunning"} /\ lifecycle = NoThread
    /\ IF pc[t] = "stopIfRunning" /\ stopQ
       THEN Return(t) /\ UNCHANGED lifecycle
       ELSE Goto(t, "stopFlag") /\ lifecycle' = t /\ UNCHANGED <<back, late>>
    /\ UNCHANGED <<flags, timers, queued, stopReq, raknet, latch, pump, batch,
                   taken, history>>

StopFlag(t) ==
    /\ Step(t, "stopFlag", "stopJoin")
    /\ StopFlags(FALSE)
    /\ UNCHANGED <<inFlight, lifecycle, stopReq, raknet, latch, pump, batch,
                   back, late, taken, wire, lost, accepted, overlap>>

StopJoin(t) ==
    /\ pc[t] = "stopJoin" /\ Return(t)
    /\ pump \in {"none", "ended"} /\ pump' = "none"
    /\ lifecycle' = NoThread
    /\ UNCHANGED <<flags, timers, queued, stopReq, raknet, latch, batch,
                   taken, history>>

Stop(t) == StopLock(t) \/ StopFlag(t) \/ StopJoin(t)

-----------------------------------------------------------------------------
(* emitClose(): the latch, the pause, the listeners, the stop.             *)

\* A close on another thread waits for the latch: no disjunct is enabled.
CloseAdmit(t) ==
    /\ \/ /\ pc[t] = "idle" /\ closing = NoThread
          /\ closing' = t /\ depth' = 1 /\ committed' = FALSE
       \/ /\ pc[t] = "listen" /\ depth < MaxDepth
          /\ depth' = depth + 1 /\ UNCHANGED <<closing, committed>>
    /\ Goto(t, "pause")
    /\ UNCHANGED <<flags, timers, queued, lifecycle, stopReq, raknet, pump,
                   batch, back, late, taken, history>>

\* pauseQueuePump() disables the pump ...
ClosePause(t) ==
    /\ Step(t, "pause", "pauseWait")
    /\ enabled' = FALSE /\ resumeDue' = FALSE
    /\ UNCHANGED <<stopQ, requested, inFlight, timers, queued, lifecycle,
                   stopReq, raknet, latch, pump, batch, back, late, taken,
                   history>>

\* ... and waits for the batch in flight.
ClosePauseWait(t) ==
    /\ Step(t, "pauseWait", "listen") /\ ~inFlight
    /\ UNCHANGED <<flags, timers, queued, lifecycle, stopReq, raknet, latch,
                   pump, batch, back, late, taken, history>>

\* The listeners return and close() goes on, or one throws and leaves it.
CloseListened(t) ==
    /\ pc[t] = "listen"
    /\ \/ Goto(t, "closeStop") /\ stopReq' = TRUE
       \/ Goto(t, "release") /\ UNCHANGED stopReq
    /\ UNCHANGED <<flags, timers, queued, lifecycle, raknet, latch, pump,
                   batch, back, late, taken, history>>

CloseStop(t) ==
    /\ Step(t, "closeStop", "stopLock")
    /\ back' = [back EXCEPT ![t] = "closeCommit"]
    /\ UNCHANGED <<flags, timers, queued, lifecycle, stopReq, raknet, latch,
                   pump, batch, late, taken, history>>

CloseCommit(t) ==
    /\ Step(t, "closeCommit", "closeTransport")
    /\ committed' = TRUE
    /\ UNCHANGED <<flags, timers, queued, lifecycle, stopReq, raknet, closing,
                   depth, pump, batch, back, late, taken, history>>

\* close() takes the transport and closes it; beginDeferredClose() leaves it.
CloseTransport(t) ==
    /\ Step(t, "closeTransport", "release")
    /\ Disconnect \/ UNCHANGED <<raknet, exposed>>
    /\ UNCHANGED <<flags, timers, queued, lifecycle, stopReq, latch, pump,
                   batch, back, late, taken, wire, dropped, lost, accepted,
                   overlap>>

\* Mutant: a rollback opens the latch without a deadline for the pump.
CloseReleaseMutant(t) ==
    /\ pc[t] = "release"
    /\ depth' = depth - 1
    /\ IF depth = 1
       THEN /\ closing' = NoThread /\ committed' = FALSE /\ Goto(t, "idle")
            /\ enabled' = (enabled /\ committed)
       ELSE UNCHANGED <<closing, committed, enabled>> /\ Goto(t, "listen")
    /\ UNCHANGED <<stopQ, requested, inFlight, resumeDue, timers, queued,
                   lifecycle, stopReq, raknet, pump, batch, back, late, taken,
                   history>>

\* closingReset: the outermost frame opens the latch and, when the close was
\* not committed, gives the pump a deadline to resume at.
CloseRelease(t) ==
    /\ pc[t] = "release"
    /\ depth' = depth - 1
    /\ IF depth = 1
       THEN /\ closing' = NoThread /\ committed' = FALSE /\ Goto(t, "idle")
            /\ enabled' = (enabled /\ committed)
            /\ resumeDue' = (resumeDue \/ ~committed)
       ELSE /\ UNCHANGED <<closing, committed, enabled, resumeDue>>
            /\ Goto(t, "listen")
    /\ UNCHANGED <<stopQ, requested, inFlight, timers, queued, lifecycle,
                   stopReq, raknet, pump, batch, back, late, taken, history>>

Close(t) ==
    \/ ClosePause(t) \/ ClosePauseWait(t) \/ CloseListened(t) \/ CloseStop(t)
    \/ CloseCommit(t) \/ CloseTransport(t) \/ CloseRelease(t)

-----------------------------------------------------------------------------
(* queueLoop().                                                            *)

PumpExit ==
    /\ pump = "loop" /\ stopQ
    /\ pump' = "ended"
    /\ UNCHANGED <<flags, timers, queued, lifecycle, stopReq, raknet, latch,
                   batch, locals, history>>

\* The rollback deadline passes.
PumpResume ==
    /\ pump = "loop" /\ ~stopQ /\ ~enabled /\ resumeDue
    /\ enabled' = (requested /\ closing = NoThread)
    /\ resumeDue' = FALSE
    /\ UNCHANGED <<stopQ, requested, inFlight, timers, queued, lifecycle,
                   stopReq, raknet, latch, pump, batch, locals, history>>

\* Mutant: the batch goes out newest first.
PumpTickMutant ==
    /\ pump = "loop" /\ ~stopQ /\ enabled
    /\ batch' = Reverse(queued)
    /\ queued' = <<>>
    /\ inFlight' = TRUE /\ pump' = "send"
    /\ overlap' = (overlap \/ (Holding /\ queued # <<>>))
    /\ UNCHANGED <<stopQ, requested, enabled, resumeDue, timers, lifecycle,
                   stopReq, raknet, latch, locals, wire, dropped, lost,
                   exposed, accepted>>

\* An interval passes: the whole queue is taken, and each deadline that has
\* passed adds its packet behind it.  keepAliveDue_ sets itself again.
PumpTick ==
    /\ pump = "loop" /\ ~stopQ /\ enabled
    /\ \E fired \in SUBSET timers : timers' = timers \ (fired \ {"keepAlive"})
    /\ batch' = queued
    /\ queued' = <<>>
    /\ inFlight' = TRUE /\ pump' = "send"
    /\ overlap' = (overlap \/ (Holding /\ queued # <<>>))
    /\ UNCHANGED <<stopQ, requested, enabled, resumeDue, lifecycle, stopReq,
                   raknet, latch, locals, wire, dropped, lost, exposed,
                   accepted>>

\* sendPackets() outside queueMutex_, under sendMutex_.
PumpSend ==
    /\ pump = "send" /\ pump' = "sent"
    /\ SendPacketsLocked(batch)
    /\ batch' = <<>>
    /\ UNCHANGED <<flags, timers, queued, lifecycle, stopReq, raknet, latch,
                   locals, dropped, accepted, overlap>>

\* Mutant: a finished batch is never reported.
PumpSentMutant ==
    /\ pump = "sent" /\ pump' = "loop"
    /\ UNCHANGED <<flags, timers, queued, lifecycle, stopReq, raknet, latch,
                   batch, locals, history>>

PumpSent ==
    /\ pump = "sent" /\ pump' = "loop"
    /\ inFlight' = FALSE
    /\ UNCHANGED <<stopQ, requested, enabled, resumeDue, timers, queued,
                   lifecycle, stopReq, raknet, latch, batch, locals, history>>

Pump == PumpExit \/ PumpResume \/ PumpTick \/ PumpSend \/ PumpSent

-----------------------------------------------------------------------------
Next ==
    \/ \E t \in Callers :
         \/ Queue(t) \/ SendQueuedTake(t) \/ SendQueuedSend(t)
         \/ BeginStart(t) \/ Start(t) \/ Resume(t)
         \/ BeginStop(t) \/ Stop(t)
         \/ RequestStop(t) \/ RequestStopTransport(t)
         \/ CloseAdmit(t) \/ Close(t)
    \/ \E k \in Timers : ArmTimer(k)
    \/ InstallTransport \/ TransportConnected \/ TransportLost
    \/ Pump

\* Threads inside a call are scheduled, listeners end, and the pump thread
\* runs when its condition variable or a deadline wakes it.
Fairness ==
    /\ \A t \in Callers :
         WF_vars(SendQueuedSend(t) \/ RequestStopTransport(t) \/ Start(t)
                 \/ Stop(t) \/ Close(t))
    /\ WF_vars(Pump)

Spec == Init /\ [][Next]_vars /\ Fairness

-----------------------------------------------------------------------------
\* Close listeners run with the pump at rest: no batch is in flight and none
\* can be taken while they run, whatever startQueue() and resumeQueuePump() do
\* meanwhile ("They cannot enable a native tick inside the listener stack").
QuietListeners ==
    \A t \in Callers :
        closing = t /\ pc[t] \notin {"pause", "pauseWait"}
        => ~enabled /\ ~inFlight /\ pump \notin {"send", "sent"}

\* Demand is never lost: a running queue that is wanted, outside a close and
\* before the final stop, has its pump enabled or a deadline to enable it,
\* after any number of throwing closes, restarts and resumes.
DemandArmed ==
    ~stopQ /\ requested /\ closing = NoThread /\ ~stopReq => enabled \/ resumeDue

\* One pump: outside a start or a stop the pump thread exists exactly when the
\* queue runs, so a returned stop leaves no thread that could still send.
OnePump ==
    lifecycle = NoThread =>
        (IF stopQ THEN pump = "none" ELSE pump \in {"loop", "send", "sent"})

\* The pump runs when and only when it may: never inside a close listener, and
\* in one thread.
PumpUnderControl == TypeOK /\ QuietListeners /\ OnePump

InHand(p) == \/ p \in ToSet(batch) \/ \E t \in Callers : p \in ToSet(taken[t])

\* Every packet queue() accepted is in exactly one place: still queued, taken
\* by the pump or by sendQueued(), sent once, cleared by a stop, or lost to a
\* send without a connected transport.
EachPacketOnce ==
    /\ \A p \in 1..accepted :
         Cardinality({s \in {"queued", "hand", "sent", "dropped", "lost"} :
             CASE s = "queued" -> p \in ToSet(queued)
               [] s = "hand" -> InHand(p)
               [] s = "sent" -> p \in ToSet(wire)
               [] s = "dropped" -> p \in dropped
               [] s = "lost" -> p \in lost}) = 1
    /\ IsInjective(wire)

\* Packets go out in the order in which they were queued, also across
\* restarts, unless sendQueued() and another sender held packets at once.
SentInOrder ==
    ~overlap => \A i, j \in DOMAIN wire : i < j => wire[i] < wire[j]

\* A packet is lost only if the transport was not connected at some time
\* between queue() and its send: before connect() has its connection, or
\* after the connection has ended.
LostOnlyExposed == lost \subseteq exposed

\* Between queue(), the pump, sendQueued() and a stop no packet is doubled or
\* overtaken, and none disappears while the transport stays connected, except
\* those that a stop clears.
PacketsOnce == EachPacketOnce /\ SentInOrder /\ LostOnlyExposed

\* Callers and their listeners eventually stop making calls.
CallsEnd ==
    <>[][\A t \in Callers :
            Free(t) => pc'[t] \in {pc[t], "closeStop", "release"}]_vars

\* Once callers are done every call has returned, because the pause, the joins
\* and the latch end, and the packets of a running and wanted queue are taken:
\* they do not wait for ever for a pump that a close has paused.
Settles ==
    CallsEnd =>
        <>[](/\ \A t \in Callers : pc[t] = "idle"
             /\ queued = <<>> \/ stopQ \/ ~requested \/ stopReq)
=============================================================================
