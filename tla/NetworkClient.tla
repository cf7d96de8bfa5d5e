---------------------------- MODULE NetworkClient ----------------------------
(***************************************************************************)
(* The lifecycle of BedrockNetworkClient (src/client/                      *)
(* BedrockNetworkClient.cpp): connect() and prepareConnectLifecycle() with *)
(* their phases, emitClose() with its close latch, requestRakNetStop() and *)
(* setStatus(), called by application threads and by the callbacks of the  *)
(* RakNet worker.                                                          *)
(*                                                                         *)
(* The RakNetClient it owns is reduced to what RakNetClient.tla shows of   *)
(* it: `link' is its connection, the thread Rak is its worker, close()     *)
(* waits for a running connect() and for the worker unless the worker      *)
(* itself calls it, and a failed connect() makes no callback.  The send    *)
(* queue is reduced to whether it runs; QueuePump.tla has the rest.        *)
(***************************************************************************)
EXTENDS Naturals, Sequences

CONSTANTS
    Apps,       \* application threads
    NoThread,   \* the null std::thread::id
    Behaviours, \* what listeners and the server are allowed to do
    MaxDepth    \* bound on close() calls nested in close listeners

Rak == "rak"
Threads == Apps \cup {Rak}
AllBehaviours == {"listenerCloses", "listenerThrows", "serverDisconnects",
                  "authRejects", "requestStop"}

ASSUME ThreadAssumption == Rak \notin Apps /\ NoThread \notin Threads
ASSUME BehaviourAssumption == Behaviours \subseteq AllBehaviours
ASSUME DepthAssumption == MaxDepth \in Nat \ {0}

VARIABLES
    phase,      \* connectLifecyclePhase_
    owner,      \* connectLifecycleOwnerThreadId_
    rejected,   \* authenticationRejected_
    stopReq,    \* rakNetStopRequested_
    closedFlag, \* closed_
    status,     \* status_
    closing,    \* closingThreadId_; closing_ is "not NoThread"
    depth,      \* closingDepth_
    committed,  \* closingCommitted_
    queueOn,    \* ~stopQueue_
    held,       \* raknet_ is set
    link,       \* the RakNetClient last created
    accepted,   \* its connectAccepted_
    pc, stack,  \* position and emitClose frames of each thread
    rej,        \* local authenticationRejected of the running attempt
    late,       \* local queueStartedAfterTransportStop
    prepRet,    \* where prepareConnectLifecycle returns to
    target,     \* setStatus' argument on the worker
    emitted,    \* history: outermost close emissions that completed
    lateQueue,  \* history: a queue was started after the transport stop
    done        \* history: a close() by an application thread has returned

conn == <<phase, owner, rejected, rej, late, prepRet>>
latch == <<closing, depth, committed>>
transport == <<held, link, accepted>>
history == <<emitted, lateQueue, done>>
vars == <<conn, latch, transport, stopReq, closedFlag, status, queueOn,
          pc, stack, target, history>>

Phases == {"Idle", "Preparing", "Prepared", "Connecting", "Active"}
Statuses == {"Disconnected", "Connecting", "Initialized"}
PrepareLabels == {"prepare", "auth", "allow", "startQueue", "prepFail",
                  "prepCommit", "prepStop"}
ConnectLabels == {"decide", "waitPhase", "resume", "login", "recheck", "reset",
                  "install", "postInstall", "rakConnect", "rakWait", "rakReap",
                  "failed", "failedStatus", "commitOk", "commit"}
CloseLabels == {"admit", "listen", "stopFlag", "stopQueue", "commitClose",
                "take", "rakClose", "rakJoin", "finish", "finishPhase",
                "release", "abort"}
StopLabels == {"stopLink"}
RakLabels == {"off", "loop", "batch", "statusEmit", "statusStore"}
Labels == {"idle"} \cup PrepareLabels \cup ConnectLabels \cup CloseLabels
            \cup StopLabels \cup RakLabels
Frames == [ret : Labels, trans : BOOLEAN, origin : {"Public", "Transport"}]

\* The type invariant.
TypeOK ==
    /\ phase \in Phases /\ owner \in Apps \cup {NoThread}
    /\ rejected \in BOOLEAN /\ rej \in [Threads -> BOOLEAN]
    /\ late \in [Threads -> BOOLEAN] /\ prepRet \in [Threads -> Labels]
    /\ closing \in Threads \cup {NoThread} /\ depth \in Nat
    /\ committed \in BOOLEAN
    /\ held \in BOOLEAN /\ accepted \in BOOLEAN
    /\ link \in {"none", "new", "connecting", "up", "stopped", "dead"}
    /\ stopReq \in BOOLEAN /\ closedFlag \in BOOLEAN /\ queueOn \in BOOLEAN
    /\ status \in Statuses /\ target \in Statuses
    /\ pc \in [Threads -> Labels] /\ stack \in [Threads -> Seq(Frames)]
    /\ emitted \in 0..2 /\ lateQueue \in BOOLEAN /\ done \in BOOLEAN

Init ==
    /\ phase = "Idle" /\ owner = NoThread /\ rejected = FALSE
    /\ rej = [t \in Threads |-> FALSE] /\ late = [t \in Threads |-> FALSE]
    /\ prepRet = [t \in Threads |-> "idle"]
    /\ closing = NoThread /\ depth = 0 /\ committed = FALSE
    /\ held = FALSE /\ link = "none" /\ accepted = FALSE
    /\ stopReq = FALSE /\ closedFlag = TRUE /\ queueOn = FALSE
    /\ status = "Disconnected" /\ target = "Connecting"
    /\ pc = [t \in Threads |-> IF t = Rak THEN "off" ELSE "idle"]
    /\ stack = [t \in Threads |-> <<>>]
    /\ emitted = 0 /\ lateQueue = FALSE /\ done = FALSE

-----------------------------------------------------------------------------
Goto(t, l) == pc' = [pc EXCEPT ![t] = l]
Step(t, from, to) == pc[t] = from /\ Goto(t, to)

\* emitClose(reason, trans, origin), returning to label r.
EmitClose(t, r, trans, origin) ==
    /\ Goto(t, "admit")
    /\ stack' = [stack EXCEPT ![t] =
           Append(@, [ret |-> r, trans |-> trans, origin |-> origin])]

Frame(t) == stack[t][Len(stack[t])]
Return(t) ==
    /\ Goto(t, Frame(t).ret)
    /\ stack' = [stack EXCEPT ![t] = SubSeq(@, 1, Len(@) - 1)]

\* A listener runs and returns, or calls close() before it returns.
Listener(t, r) ==
    \/ Goto(t, r) /\ UNCHANGED stack
    \/ "listenerCloses" \in Behaviours /\ EmitClose(t, r, TRUE, "Public")

\* RakNetClient::requestStop and the first half of RakNetClient::close.
Stopped(l) == IF l \in {"connecting", "up"} THEN "stopped"
              ELSE IF l = "new" THEN "dead" ELSE l

RakConnectActive == \E u \in Apps : pc[u] \in {"rakWait", "rakReap"}

-----------------------------------------------------------------------------
(* prepareConnectLifecycle, directly or from connect().                    *)

BeginPrepare(t) ==
    /\ Step(t, "idle", "prepare")
    /\ prepRet' = [prepRet EXCEPT ![t] = "idle"]
    /\ UNCHANGED <<phase, owner, rejected, rej, late, latch, transport, stopReq,
                   closedFlag, status, queueOn, stack, target, history>>

\* Another thread's Preparing is waited for: no disjunct is enabled.
PrepareAdmit(t) ==
    /\ pc[t] = "prepare"
    /\ \/ stopReq /\ Goto(t, "idle") /\ UNCHANGED <<phase, owner>>
       \/ /\ ~stopReq /\ phase \in {"Prepared", "Connecting", "Active"}
          /\ Goto(t, prepRet[t]) /\ UNCHANGED <<phase, owner>>
       \/ /\ ~stopReq /\ phase = "Idle"
          /\ phase' = "Preparing" /\ owner' = t
          /\ Goto(t, "auth")
    /\ UNCHANGED <<rejected, rej, late, prepRet, latch, transport, stopReq,
                   closedFlag, status, queueOn, stack, target, history>>

\* Synchronous authentication: session or error listeners may run; an
\* exception ends the preparation.
PrepareAuth(t) ==
    /\ pc[t] = "auth"
    /\ \/ \E r \in BOOLEAN :
            /\ r => "authRejects" \in Behaviours
            /\ rej' = [rej EXCEPT ![t] = r]
            /\ Listener(t, "allow")
       \/ Goto(t, "prepFail") /\ UNCHANGED <<rej, stack>>
    /\ UNCHANGED <<phase, owner, rejected, late, prepRet, latch, transport,
                   stopReq, closedFlag, status, queueOn, target, history>>

PrepareAllow(t) ==
    /\ Step(t, "allow", "startQueue")
    /\ late' = [late EXCEPT ![t] = rej[t] /\ stopReq]
    /\ UNCHANGED <<phase, owner, rejected, rej, prepRet, latch, transport,
                   stopReq, closedFlag, status, queueOn, stack, target, history>>

\* startQueue() under queueLifecycleMutex_.
PrepareStartQueue(t) ==
    /\ pc[t] = "startQueue"
    /\ IF stopReq /\ ~late[t]
       THEN Goto(t, "prepFail") /\ UNCHANGED <<queueOn, lateQueue>>
       ELSE /\ Goto(t, "prepCommit")
            /\ queueOn' = TRUE
            /\ lateQueue' = (lateQueue \/ late[t])
    /\ UNCHANGED <<conn, latch, transport, stopReq, closedFlag, status,
                   stack, target, emitted, done>>

PrepareFail(t) ==
    /\ Step(t, "prepFail", "idle")
    /\ phase' = "Idle" /\ owner' = NoThread /\ rejected' = FALSE
    /\ UNCHANGED <<rej, late, prepRet, latch, transport, stopReq, closedFlag,
                   status, queueOn, stack, target, history>>

PrepareCommit(t) ==
    /\ pc[t] = "prepCommit"
    /\ rejected' = rej[t]
    /\ owner' = NoThread
    /\ IF stopReq
       THEN phase' = "Idle" /\ Goto(t, "prepStop")
       ELSE phase' = "Prepared" /\ Goto(t, prepRet[t])
    /\ UNCHANGED <<rej, late, prepRet, latch, transport, stopReq, closedFlag,
                   status, queueOn, stack, target, history>>

PrepareStop(t) ==
    /\ Step(t, "prepStop", "idle")
    /\ queueOn' = (queueOn /\ late[t])
    /\ UNCHANGED <<conn, latch, transport, stopReq, closedFlag, status,
                   stack, target, history>>

Prepare(t) ==
    \/ BeginPrepare(t) \/ PrepareAdmit(t) \/ PrepareAuth(t) \/ PrepareAllow(t)
    \/ PrepareStartQueue(t) \/ PrepareFail(t) \/ PrepareCommit(t)
    \/ PrepareStop(t)

-----------------------------------------------------------------------------
(* connect().                                                              *)

BeginConnect(t) ==
    /\ Step(t, "idle", "decide")
    /\ UNCHANGED <<conn, latch, transport, stopReq, closedFlag, status, queueOn,
                   stack, target, history>>

ConnectDecide(t) ==
    /\ pc[t] = "decide"
    /\ \/ /\ stopReq \/ phase = "Active"
          /\ Goto(t, "idle") /\ UNCHANGED conn
       \/ /\ ~stopReq /\ phase = "Connecting"
          /\ Goto(t, "waitPhase") /\ UNCHANGED conn
       \/ /\ ~stopReq /\ phase = "Idle"
          /\ Goto(t, "prepare")
          /\ prepRet' = [prepRet EXCEPT ![t] = "decide"]
          /\ UNCHANGED <<phase, owner, rejected, rej, late>>
       \/ /\ ~stopReq /\ phase = "Prepared"
          /\ phase' = "Connecting" /\ owner' = t
          /\ rej' = [rej EXCEPT ![t] = rejected]
          /\ Goto(t, "resume")
          /\ UNCHANGED <<rejected, late, prepRet>>
    /\ UNCHANGED <<latch, transport, stopReq, closedFlag, status, queueOn,
                   stack, target, history>>

\* Another thread connects: its outcome is this call's result.
ConnectWaitPhase(t) ==
    /\ Step(t, "waitPhase", "idle") /\ phase # "Connecting"
    /\ UNCHANGED <<conn, latch, transport, stopReq, closedFlag, status, queueOn,
                   stack, target, history>>

ConnectResume(t) ==
    /\ pc[t] = "resume"
    /\ Goto(t, IF stopReq \/ rej[t] THEN "commit" ELSE "login")
    /\ queueOn' = (queueOn /\ ~stopReq)
    /\ UNCHANGED <<conn, latch, transport, stopReq, closedFlag, status,
                   stack, target, history>>

\* prepareLoginPacket and the session event, or the error event.
ConnectLogin(t) ==
    /\ pc[t] = "login"
    /\ Listener(t, "recheck") \/ Listener(t, "commit")
    /\ UNCHANGED <<conn, latch, transport, stopReq, closedFlag, status, queueOn,
                   target, history>>

ConnectRecheck(t) ==
    /\ pc[t] = "recheck"
    /\ Goto(t, IF stopReq THEN "commit" ELSE "reset")
    /\ queueOn' = (queueOn /\ ~stopReq)
    /\ closedFlag' = (closedFlag \/ stopReq)
    /\ UNCHANGED <<conn, latch, transport, stopReq, status, stack, target,
                   history>>

ConnectReset(t) ==
    /\ Step(t, "reset", "install")
    /\ closedFlag' = FALSE
    /\ UNCHANGED <<conn, latch, transport, stopReq, status, queueOn, stack,
                   target, history>>

\* The new transport is published under sendMutex_; the one it replaces is
\* destroyed, which waits for its worker.
ConnectInstall(t) ==
    /\ pc[t] = "install"
    /\ IF stopReq
       THEN /\ Goto(t, "commit")
            /\ queueOn' = FALSE /\ closedFlag' = TRUE
            /\ UNCHANGED transport
       ELSE /\ pc[Rak] = "off"
            /\ Goto(t, "postInstall")
            /\ held' = TRUE /\ link' = "new" /\ accepted' = FALSE
            /\ UNCHANGED <<queueOn, closedFlag>>
    /\ UNCHANGED <<conn, latch, stopReq, status, stack, target, history>>

ConnectPostInstall(t) ==
    /\ pc[t] = "postInstall"
    /\ IF stopReq
       THEN /\ Goto(t, "commit")
            /\ link' = Stopped(link) /\ held' = FALSE
            /\ queueOn' = FALSE /\ closedFlag' = TRUE
       ELSE /\ Goto(t, "rakConnect")
            /\ UNCHANGED <<link, held, queueOn, closedFlag>>
    /\ UNCHANGED <<conn, latch, accepted, stopReq, status, stack, target, history>>

\* RakNetClient::connect starts its worker, or fails before it does.
ConnectRak(t) ==
    /\ pc[t] = "rakConnect"
    /\ \/ /\ link = "new"
          /\ link' = "connecting"
          /\ pc' = [pc EXCEPT ![t] = "rakWait", ![Rak] = "loop"]
       \/ /\ link' = Stopped(link)
          /\ Goto(t, "failed")
    /\ UNCHANGED <<conn, latch, held, accepted, stopReq, closedFlag, status,
                   queueOn, stack, target, history>>

\* Accepted, stopped by somebody (with or without reaping), or timed out.
ConnectRakWait(t) ==
    /\ pc[t] = "rakWait"
    /\ \/ accepted /\ Goto(t, "commitOk") /\ UNCHANGED link
       \/ link \in {"stopped", "dead"} /\ Goto(t, "rakReap") /\ UNCHANGED link
       \/ link \in {"stopped", "dead"} /\ ~accepted
            /\ Goto(t, "failed") /\ UNCHANGED link
       \/ link = "connecting" /\ Goto(t, "rakReap") /\ link' = "stopped"
    /\ UNCHANGED <<conn, latch, held, accepted, stopReq, closedFlag, status,
                   queueOn, stack, target, history>>

ConnectRakReap(t) ==
    /\ Step(t, "rakReap", "failed") /\ pc[Rak] = "off"
    /\ UNCHANGED <<conn, latch, transport, stopReq, closedFlag, status, queueOn,
                   stack, target, history>>

ConnectFailed(t) ==
    /\ Step(t, "failed", "failedStatus")
    /\ queueOn' = FALSE /\ closedFlag' = TRUE
    /\ UNCHANGED <<conn, latch, transport, stopReq, status, stack, target,
                   history>>

ConnectFailedStatus(t) ==
    /\ pc[t] = "failedStatus"
    /\ IF stopReq
       THEN Goto(t, "commit") /\ UNCHANGED <<status, stack>>
       ELSE status' = "Disconnected" /\ Listener(t, "commit")
    /\ UNCHANGED <<conn, latch, transport, stopReq, closedFlag, queueOn, target,
                   history>>

\* Mutant: the phase is committed from the value read before the lock.
ConnectCommitMutant(t) ==
    /\ pc[t] \in {"commitOk", "commit"} /\ Goto(t, "idle")
    /\ phase' = IF pc[t] = "commitOk" THEN "Active" ELSE "Idle"
    /\ owner' = NoThread
    /\ UNCHANGED <<rejected, rej, late, prepRet, latch, transport, stopReq,
                   closedFlag, status, queueOn, stack, target, history>>

\* phaseCompletion: terminal state is read under connectLifecycleMutex_.
ConnectCommit(t) ==
    /\ pc[t] \in {"commitOk", "commit"} /\ Goto(t, "idle")
    /\ phase' = IF pc[t] = "commitOk" /\ ~stopReq /\ ~closedFlag
                THEN "Active" ELSE "Idle"
    /\ owner' = NoThread
    /\ UNCHANGED <<rejected, rej, late, prepRet, latch, transport, stopReq,
                   closedFlag, status, queueOn, stack, target, history>>

Connect(t) ==
    \/ BeginConnect(t) \/ ConnectDecide(t) \/ ConnectWaitPhase(t)
    \/ ConnectResume(t) \/ ConnectLogin(t) \/ ConnectRecheck(t)
    \/ ConnectReset(t) \/ ConnectInstall(t) \/ ConnectPostInstall(t)
    \/ ConnectRak(t) \/ ConnectRakWait(t) \/ ConnectRakReap(t)
    \/ ConnectFailed(t) \/ ConnectFailedStatus(t) \/ ConnectCommit(t)

-----------------------------------------------------------------------------
(* emitClose: close(), beginDeferredClose() and the transport's close.     *)

BeginClose(t) ==
    /\ pc[t] = "idle"
    /\ \E trans \in BOOLEAN : EmitClose(t, "idle", trans, "Public")
    /\ UNCHANGED <<conn, latch, transport, stopReq, closedFlag, status, queueOn,
                   target, history>>

\* The latch.  The transport's close inside this thread's own close is that
\* same close; after another thread's commit it has nothing to do.
CloseAdmit(t) ==
    /\ pc[t] = "admit"
    /\ \/ /\ Frame(t).origin = "Transport"
          /\ closing = t \/ (closing # NoThread /\ committed)
          /\ Return(t)
          /\ UNCHANGED latch
       \/ /\ Frame(t).origin = "Public" /\ closing = t
          /\ depth' = depth + 1
          /\ Goto(t, "listen")
          /\ UNCHANGED <<closing, committed, stack>>
       \/ /\ closing = NoThread
          /\ closing' = t /\ depth' = 1 /\ committed' = FALSE
          /\ Goto(t, "listen")
          /\ UNCHANGED stack
    /\ UNCHANGED <<conn, transport, stopReq, closedFlag, status, queueOn,
                   target, history>>

\* The close listeners, with the old status; one may close again or throw.
CloseListen(t) ==
    /\ pc[t] = "listen"
    /\ IF status = "Disconnected"
       THEN Goto(t, "stopFlag") /\ UNCHANGED <<stack, emitted>>
       ELSE \/ /\ Goto(t, "stopFlag")
               /\ emitted' = IF depth = 1 /\ emitted < 2
                             THEN emitted + 1 ELSE emitted
               /\ UNCHANGED stack
            \/ /\ "listenerCloses" \in Behaviours /\ depth < MaxDepth
               /\ EmitClose(t, "stopFlag", TRUE, "Public")
               /\ emitted' = IF depth = 1 /\ emitted < 2
                             THEN emitted + 1 ELSE emitted
            \/ /\ "listenerThrows" \in Behaviours
               /\ Goto(t, "abort")
               /\ UNCHANGED <<stack, emitted>>
    /\ UNCHANGED <<conn, latch, transport, stopReq, closedFlag, status, queueOn,
                   target, lateQueue, done>>

CloseStopFlag(t) ==
    /\ Step(t, "stopFlag", "stopQueue")
    /\ stopReq' = TRUE
    /\ UNCHANGED <<conn, latch, transport, closedFlag, status, queueOn, stack,
                   target, history>>

CloseStopQueue(t) ==
    /\ Step(t, "stopQueue", "commitClose")
    /\ queueOn' = FALSE
    /\ UNCHANGED <<conn, latch, transport, stopReq, closedFlag, status, stack,
                   target, history>>

\* Mutant: the commit is not published before the transport is joined.
CloseCommitMutant(t) ==
    /\ Step(t, "commitClose", "take")
    /\ UNCHANGED <<conn, latch, transport, stopReq, closedFlag, status,
                   queueOn, stack, target, history>>

CloseCommit(t) ==
    /\ Step(t, "commitClose", "take")
    /\ committed' = TRUE
    /\ UNCHANGED <<conn, closing, depth, transport, stopReq, closedFlag, status,
                   queueOn, stack, target, history>>

\* The transport moves out of raknet_, unless its own callback is closing.
CloseTake(t) ==
    /\ pc[t] = "take"
    /\ IF Frame(t).trans /\ held
       THEN Goto(t, "rakClose") /\ held' = (t = Rak)
       ELSE Goto(t, "finish") /\ UNCHANGED held
    /\ UNCHANGED <<conn, latch, link, accepted, stopReq, closedFlag, status,
                   queueOn, stack, target, history>>

CloseRak(t) ==
    /\ Step(t, "rakClose", "rakJoin")
    /\ link' = Stopped(link)
    /\ UNCHANGED <<conn, latch, held, accepted, stopReq, closedFlag, status,
                   queueOn, stack, target, history>>

CloseRakJoin(t) ==
    /\ Step(t, "rakJoin", "finish")
    /\ ~RakConnectActive
    /\ t = Rak \/ pc[Rak] = "off"
    /\ UNCHANGED <<conn, latch, transport, stopReq, closedFlag, status, queueOn,
                   stack, target, history>>

\* clearEventHandlers and setStatus(Disconnected), which no listener sees.
CloseFinish(t) ==
    /\ Step(t, "finish", "finishPhase")
    /\ status' = "Disconnected"
    /\ UNCHANGED <<conn, latch, transport, stopReq, closedFlag, queueOn, stack,
                   target, history>>

\* Mutant: the phase is taken from a connect() that still runs.
CloseFinishPhaseMutant(t) ==
    /\ Step(t, "finishPhase", "release")
    /\ closedFlag' = TRUE
    /\ phase' = "Idle"
    /\ UNCHANGED <<owner, rejected, rej, late, prepRet, latch, transport,
                   stopReq, status, queueOn, stack, target, history>>

CloseFinishPhase(t) ==
    /\ Step(t, "finishPhase", "release")
    /\ closedFlag' = TRUE
    /\ phase' = IF phase = "Connecting" THEN phase ELSE "Idle"
    /\ UNCHANGED <<owner, rejected, rej, late, prepRet, latch, transport,
                   stopReq, status, queueOn, stack, target, history>>

\* closingReset: the outermost frame opens the latch.
CloseRelease(t) ==
    /\ pc[t] \in {"release", "abort"} /\ Return(t)
    /\ depth' = depth - 1
    /\ closing' = IF depth = 1 THEN NoThread ELSE closing
    /\ committed' = (committed /\ depth # 1)
    /\ done' = (done \/ (pc[t] = "release" /\ t \in Apps /\ Frame(t).trans))
    /\ UNCHANGED <<conn, transport, stopReq, closedFlag, status, queueOn,
                   target, emitted, lateQueue>>

Close(t) ==
    \/ CloseAdmit(t) \/ CloseListen(t) \/ CloseStopFlag(t) \/ CloseStopQueue(t)
    \/ CloseCommit(t) \/ CloseTake(t) \/ CloseRak(t) \/ CloseRakJoin(t)
    \/ CloseFinish(t) \/ CloseFinishPhase(t) \/ CloseRelease(t)

-----------------------------------------------------------------------------
(* requestRakNetStop().                                                    *)

BeginRequestStop(t) ==
    /\ "requestStop" \in Behaviours
    /\ Step(t, "idle", "stopLink")
    /\ stopReq' = TRUE
    /\ UNCHANGED <<conn, latch, transport, closedFlag, status, queueOn, stack,
                   target, history>>

RequestStopLink(t) ==
    /\ Step(t, "stopLink", "idle")
    /\ link' = IF held THEN Stopped(link) ELSE link
    /\ UNCHANGED <<conn, latch, held, accepted, stopReq, closedFlag, status,
                   queueOn, stack, target, history>>

-----------------------------------------------------------------------------
(* The RakNet worker and the handlers it runs.                             *)

RakAccepted ==
    /\ Step(Rak, "loop", "statusEmit") /\ link = "connecting"
    /\ link' = "up" /\ accepted' = TRUE /\ target' = "Connecting"
    /\ UNCHANGED <<conn, latch, held, stopReq, closedFlag, status, queueOn,
                   stack, history>>

RakPayload ==
    /\ Step(Rak, "loop", "batch") /\ link = "up"
    /\ UNCHANGED <<conn, latch, transport, stopReq, closedFlag, status, queueOn,
                   stack, target, history>>

\* One packet of a batch: a play_status that ends the login, a disconnect,
\* or the end of the batch.  A close does not cut the batch short.
RakPacket ==
    /\ pc[Rak] = "batch"
    /\ \/ Goto(Rak, "statusEmit") /\ target' = "Initialized" /\ UNCHANGED stack
       \/ /\ "serverDisconnects" \in Behaviours
          /\ EmitClose(Rak, "batch", TRUE, "Public")
          /\ UNCHANGED target
       \/ Goto(Rak, "loop") /\ UNCHANGED <<stack, target>>
    /\ UNCHANGED <<conn, latch, transport, stopReq, closedFlag, status, queueOn,
                   history>>

\* setStatus: listeners first, under the old value ...
RakStatusEmit ==
    /\ pc[Rak] = "statusEmit" /\ Listener(Rak, "statusStore")
    /\ UNCHANGED <<conn, latch, transport, stopReq, closedFlag, status, queueOn,
                   target, history>>

\* Mutant: the store does not look for a close that overtook it.
RakStatusStoreMutant ==
    /\ Step(Rak, "statusStore", IF target = "Connecting" THEN "loop" ELSE "batch")
    /\ status' = target
    /\ UNCHANGED <<conn, latch, transport, stopReq, closedFlag, queueOn, stack,
                   target, history>>

\* ... then the store, which never resurrects a closed client.
RakStatusStore ==
    /\ Step(Rak, "statusStore", IF target = "Connecting" THEN "loop" ELSE "batch")
    /\ status' = IF stopReq /\ status = "Disconnected" THEN status ELSE target
    /\ UNCHANGED <<conn, latch, transport, stopReq, closedFlag, queueOn, stack,
                   target, history>>

\* The peer goes away: RakNetClient stops itself and calls the close handler
\* when there was a session.
RakLost ==
    /\ pc[Rak] = "loop" /\ link \in {"connecting", "up"}
    /\ link' = "stopped"
    /\ IF link = "up"
       THEN EmitClose(Rak, "loop", FALSE, "Transport")
       ELSE UNCHANGED <<pc, stack>>
    /\ UNCHANGED <<conn, latch, held, accepted, stopReq, closedFlag, status,
                   queueOn, target, history>>

RakExit ==
    /\ Step(Rak, "loop", "off") /\ link \in {"stopped", "dead"}
    /\ link' = "dead"
    /\ UNCHANGED <<conn, latch, held, accepted, stopReq, closedFlag, status,
                   queueOn, stack, target, history>>

RunRak ==
    \/ RakAccepted \/ RakPayload \/ RakPacket \/ RakStatusEmit
    \/ RakStatusStore \/ RakLost \/ RakExit

-----------------------------------------------------------------------------
Begin(t) == BeginPrepare(t) \/ BeginConnect(t) \/ BeginClose(t)
              \/ BeginRequestStop(t)

Next ==
    \/ \E t \in Apps : Prepare(t) \/ Connect(t) \/ BeginClose(t)
                         \/ BeginRequestStop(t) \/ RequestStopLink(t)
    \/ \E t \in Threads : Close(t)
    \/ RunRak

\* Threads inside a call are scheduled; the worker is, and it leaves its loop
\* once the transport is stopped; nobody is obliged to begin a call.
Progress(t) ==
    /\ pc[t] # "idle"
    /\ \/ t \in Apps /\ (Prepare(t) \/ Connect(t) \/ RequestStopLink(t))
       \/ Close(t)
       \/ t = Rak /\ RunRak

Fairness ==
    /\ \A t \in Threads : WF_vars(Progress(t))
    /\ SF_vars(pc[Rak] = "batch" /\ RakPacket /\ pc'[Rak] = "loop")

Spec == Init /\ [][Next]_vars /\ Fairness

-----------------------------------------------------------------------------
\* After close() has returned to an application thread the client is closed
\* for good, whatever connect(), prepareConnectLifecycle() and the worker were
\* doing: the status stays Disconnected, no transport is installed or runs,
\* the phase is neither Prepared nor Active, closed_ is set once no connect()
\* is in flight, and the queue runs only if a rejected authentication started
\* it on purpose.
ClosedStaysClosed ==
    done =>
        /\ stopReq /\ status = "Disconnected"
        /\ ~held /\ link \notin {"connecting", "up"} /\ pc[Rak] = "off"
        /\ phase \notin {"Prepared", "Active"}
        /\ phase # "Connecting" => closedFlag
        /\ queueOn => lateQueue

\* The close event is emitted by one close: closers on other threads and the
\* transport's own close wait behind the latch and then find the client
\* Disconnected, and setStatus() cannot re-open it in between.
CloseEmittedOnce == emitted <= 1

\* The latch is owned: while it is closed exactly its owner is between
\* admission and release, nested closes included.
LatchOwned ==
    \A t \in Threads :
        pc[t] \in CloseLabels \ {"admit"} => closing = t /\ depth >= 1

\* One attempt at a time: from taking the Connecting phase to giving it up,
\* listeners' closes included, a thread owns it, so two connect() calls never
\* install transports over each other.
OneAttempt ==
    \A t \in Apps :
        pc[t] \in ConnectLabels \ {"decide", "waitPhase"}
            \/ (\E i \in DOMAIN stack[t] :
                    stack[t][i].ret \in {"recheck", "commit"})
        => phase = "Connecting" /\ owner = t

\* What serialises the threads has one owner: the close latch and the
\* Connecting phase.
OneOwner == TypeOK /\ LatchOwned /\ OneAttempt

(* Deadlock.                                                               *)

\* "A remote Rak worker cannot wait through the later transport join": the
\* worker never waits for the close latch of a thread that joins the worker.
WorkerDoesNotWaitThroughJoin ==
    ~ \E t \in Apps :
        /\ pc[t] = "rakJoin" /\ closing = t
        /\ pc[Rak] = "admit"
        /\ Frame(Rak).origin = "Public" \/ ~committed

\* Callers eventually stop making new calls.
CallsEnd == <>[][\A t \in Apps : pc[t] # "idle" \/ pc'[t] = "idle"]_vars

\* Every connect(), prepareConnectLifecycle(), close() and requestRakNetStop()
\* returns, when no listener and no server packet closes on the worker.
CallsReturn ==
    CallsEnd => \A t \in Apps : pc[t] # "idle" ~> pc[t] = "idle"
=============================================================================
