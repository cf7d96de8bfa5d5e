---------------------------- MODULE RakNetClient ----------------------------
(***************************************************************************)
(* The client transport of the library: src/client/RakNetClient.cpp.       *)
(*                                                                         *)
(* One RakNetClient object is shared by the application threads that call  *)
(* connect(), close() and requestStop(), and by the worker thread that     *)
(* connect() starts and that runs the application's callbacks.  A callback *)
(* may itself call close().  Each thread has a program counter; a step is  *)
(* one critical section of threadMutex_ or nativeMutex_, or one access to  *)
(* the atomics between two of them.                                        *)
(*                                                                         *)
(* RakPeer (the vendored RakNet) is external: `peer' is the lifetime of    *)
(* the native object and `link' what its next notification may be.         *)
(***************************************************************************)
EXTENDS Naturals

CONSTANTS
    Callers,        \* application threads that use the client
    NoThread,       \* the null std::thread::id
    CallbackCloses  \* the callbacks in which the application calls close()

Worker == "worker"
Callbacks == {"connected", "closed", "encapsulated"}
Threads == Callers \cup {Worker}

ASSUME ThreadAssumption ==
    /\ Worker \notin Callers
    /\ NoThread \notin Threads

ASSUME CallbackAssumption == CallbackCloses \subseteq Callbacks

VARIABLES
    running,          \* running_
    connected,        \* connected_
    connectAccepted,  \* connectAccepted_
    closeRequested,   \* closeRequested_
    workerActive,     \* workerActive_
    joinInProgress,   \* joinInProgress_
    connectOwner,     \* connectThreadId_; connectActive_ is "not NoThread"
    joinable,         \* thread_.joinable()
    peer,             \* native_->peer: none, up, or shut down
    failed,           \* ~error_.empty()
    lease,            \* what the callback lifetime provider answers
    link,             \* the native connection, seen through Receive()
    pc,               \* where each thread is
    back,             \* where close() or requestStop() returns to
    first,            \* close()'s local firstClose
    live,             \* close()'s local wasRunning || wasConnected
    event,            \* the packet the worker handles
    completed,        \* connect()'s local: what wait_for returned
    hadSession,       \* handleNativePacket's local
    opened,           \* history: the connected handler was called
    announced,        \* history: the close handler was called
    stopped,          \* history: a requestStop() not caused by the network
    closed            \* history: a close() from outside has returned

flags == <<running, connected, connectAccepted, closeRequested, failed>>
activity == <<workerActive, joinInProgress, connectOwner, joinable>>
native == <<peer, link, lease>>
locals == <<back, first, live, event, completed, hadSession>>
history == <<opened, announced, stopped, closed>>
vars == <<flags, activity, native, pc, locals, history>>

ConnectLabels == {"check", "install", "precheck", "attempt", "commit", "spawn",
                  "spawnFailed", "postcheck", "await", "outcome", "decide",
                  "reap", "leave"}
CloseLabels == {"flag", "shut", "claim", "join", "joined", "drain", "destroy",
                "notify"}
StopLabels == {"stop", "stopRunning", "stopPeer"}
WorkerLabels == {"none", "started", "loop", "receive", "handle", "accept",
                 "connectedCallback", "closeCallback", "dataCallback", "next",
                 "ending", "endingPeer", "endingActive", "done"}
Labels == {"idle"} \cup ConnectLabels \cup CloseLabels \cup StopLabels
            \cup WorkerLabels

Events == {"accepted", "failure", "refused", "disconnect", "data"}

\* Keeps one field per history and local variable: the type invariant.
TypeOK ==
    /\ running \in BOOLEAN
    /\ connected \in BOOLEAN
    /\ connectAccepted \in BOOLEAN
    /\ closeRequested \in BOOLEAN
    /\ workerActive \in BOOLEAN
    /\ joinInProgress \in BOOLEAN
    /\ connectOwner \in Callers \cup {NoThread}
    /\ joinable \in BOOLEAN
    /\ peer \in {"none", "up", "shut"}
    /\ failed \in BOOLEAN
    /\ lease \in BOOLEAN
    /\ link \in {"idle", "attempting", "connected", "gone"}
    /\ pc \in [Threads -> Labels]
    /\ back \in [Threads -> Labels]
    /\ first \in [Threads -> BOOLEAN]
    /\ live \in [Threads -> BOOLEAN]
    /\ event \in Events
    /\ completed \in BOOLEAN
    /\ hadSession \in BOOLEAN
    /\ opened \in BOOLEAN
    /\ announced \in BOOLEAN
    /\ stopped \in BOOLEAN
    /\ closed \in BOOLEAN

Init ==
    /\ running = FALSE /\ connected = FALSE
    /\ connectAccepted = FALSE /\ closeRequested = FALSE /\ failed = FALSE
    /\ workerActive = FALSE /\ joinInProgress = FALSE
    /\ connectOwner = NoThread /\ joinable = FALSE
    /\ peer = "none" /\ link = "idle" /\ lease = TRUE
    /\ pc = [t \in Threads |-> IF t = Worker THEN "none" ELSE "idle"]
    /\ back = [t \in Threads |-> "idle"]
    /\ first = [t \in Threads |-> FALSE]
    /\ live = [t \in Threads |-> FALSE]
    /\ event = "data" /\ completed = FALSE /\ hadSession = FALSE
    /\ opened = FALSE /\ announced = FALSE /\ stopped = FALSE /\ closed = FALSE

-----------------------------------------------------------------------------
(* Control helpers.                                                        *)

Goto(t, l) == pc' = [pc EXCEPT ![t] = l]

Step(t, from, to) == pc[t] = from /\ Goto(t, to)

\* A call of close() or requestStop() that returns to label r.
CallClose(t, r) ==
    /\ Goto(t, "flag")
    /\ back' = [back EXCEPT ![t] = r]
    /\ UNCHANGED <<first, live, event, completed, hadSession>>

CallRequestStop(t, r) ==
    /\ Goto(t, "stop")
    /\ back' = [back EXCEPT ![t] = r]
    /\ UNCHANGED <<first, live, event, completed>>

\* connect() holds threadMutex_ from reading closeRequested_ to starting the
\* worker; only requestStop() and the atomics can get in between.
ThreadMutexFree == \A t \in Threads : pc[t] # "spawn"

\* RakPeer::Shutdown under nativeMutex_.
shutdownPeer == peer' = IF peer = "up" THEN "shut" ELSE peer

-----------------------------------------------------------------------------
(* connect(), by an application thread.                                    *)

\* Mutant: beginConnectActivity that does not look for another activity.
BeginConnectMutant(t) ==
    /\ pc[t] = "idle" /\ lease /\ ThreadMutexFree
    /\ ~running
    /\ connectOwner' = t
    /\ Goto(t, "check")
    /\ UNCHANGED <<flags, native, locals, history,
                   workerActive, joinInProgress, joinable>>

\* Already running, or another activity owns the client: the call returns
\* without touching anything.  The owner's lease is held during a call.
BeginConnect(t) ==
    /\ pc[t] = "idle" /\ lease /\ ThreadMutexFree
    /\ ~running
    /\ connectOwner = NoThread /\ ~workerActive /\ ~joinInProgress
    /\ connectOwner' = t
    /\ Goto(t, "check")
    /\ UNCHANGED <<flags, native, locals, history,
                   workerActive, joinInProgress, joinable>>

ConnectCheck(t) ==
    /\ pc[t] = "check"
    /\ IF closeRequested
       THEN Goto(t, "leave") /\ UNCHANGED connectAccepted
       ELSE Goto(t, "install") /\ connectAccepted' = FALSE
    /\ UNCHANGED <<running, connected, closeRequested, failed,
                   activity, native, locals, history>>

\* Address parsing, allocation and Startup may fail; nothing is kept then.
ConnectInstall(t) ==
    /\ pc[t] = "install"
    /\ \/ /\ failed' = TRUE /\ Goto(t, "leave")
          /\ UNCHANGED peer
       \/ /\ peer' = "up" /\ Goto(t, "precheck")
          /\ UNCHANGED failed
    /\ UNCHANGED <<running, connected, connectAccepted, closeRequested,
                   activity, link, lease, locals, history>>

ConnectPrecheck(t) ==
    /\ pc[t] = "precheck"
    /\ IF closeRequested
       THEN Goto(t, "leave") /\ peer' = "none"
       ELSE Goto(t, "attempt") /\ UNCHANGED peer
    /\ UNCHANGED <<flags, activity, link, lease, locals, history>>

\* RakPeer::Connect under nativeMutex_.  The early return keeps the peer.
ConnectAttempt(t) ==
    /\ pc[t] = "attempt"
    /\ \/ /\ closeRequested \/ peer = "none"
          /\ Goto(t, "leave")
          /\ UNCHANGED <<failed, link, locals>>
       \/ /\ ~closeRequested /\ peer # "none"
          /\ Goto(t, "commit")
          /\ link' = "attempting"
          /\ UNCHANGED <<failed, locals>>
       \/ /\ ~closeRequested /\ peer # "none"
          /\ failed' = TRUE
          /\ CallClose(t, "leave")
          /\ UNCHANGED link
    /\ UNCHANGED <<running, connected, connectAccepted, closeRequested,
                   activity, peer, lease, history>>

\* Takes threadMutex_ and reads closeRequested_.
ConnectCommit(t) ==
    /\ pc[t] = "commit" /\ ThreadMutexFree
    /\ IF closeRequested
       THEN CallClose(t, "leave") /\ UNCHANGED workerActive
       ELSE Goto(t, "spawn") /\ UNCHANGED <<locals, workerActive>>
    /\ UNCHANGED <<flags, joinInProgress, connectOwner, joinable,
                   native, history>>

\* Still under threadMutex_: publish running_ and start the worker.
ConnectSpawn(t) ==
    /\ pc[t] = "spawn"
    /\ running' = TRUE
    /\ \/ /\ workerActive' = TRUE
          /\ joinable' = TRUE
          /\ pc' = [pc EXCEPT ![t] = "postcheck", ![Worker] = "started"]
       \/ /\ UNCHANGED <<workerActive, joinable>>
          /\ Goto(t, "spawnFailed")
    /\ UNCHANGED <<connected, connectAccepted, closeRequested, failed,
                   joinInProgress, connectOwner, native, locals, history>>

ConnectSpawnFailed(t) ==
    /\ Step(t, "spawnFailed", "leave")
    /\ running' = FALSE /\ failed' = TRUE /\ peer' = "none"
    /\ UNCHANGED <<connected, connectAccepted, closeRequested,
                   activity, link, lease, locals, history>>

ConnectPostcheck(t) ==
    /\ pc[t] = "postcheck"
    /\ IF closeRequested
       THEN CallClose(t, "leave")
       ELSE Goto(t, "await") /\ UNCHANGED locals
    /\ UNCHANGED <<flags, activity, native, history>>

\* wait_for returns the predicate's value, on a wake-up or on the timeout.
Settled == connectAccepted \/ closeRequested \/ ~running

ConnectAwait(t) ==
    /\ Step(t, "await", "outcome") /\ ThreadMutexFree
    /\ completed' = Settled
    /\ UNCHANGED <<flags, activity, native, history,
                   back, first, live, event, hadSession>>

ConnectOutcome(t) ==
    /\ pc[t] = "outcome"
    /\ Goto(t, IF connectAccepted THEN "leave" ELSE "decide")
    /\ UNCHANGED <<flags, activity, native, locals, history>>

\* Mutant: the timeout goes to close() without requestStop().
ConnectDecideMutant(t) ==
    /\ pc[t] = "decide"
    /\ Goto(t, IF closeRequested /\ ~failed THEN "leave" ELSE "reap")
    /\ failed' = (failed \/ ~completed)
    /\ UNCHANGED <<running, connected, connectAccepted, closeRequested,
                   activity, native, locals, history>>

ConnectDecide(t) ==
    /\ pc[t] = "decide"
    /\ IF ~completed /\ ~closeRequested
       THEN /\ failed' = TRUE
            /\ stopped' = TRUE
            /\ CallRequestStop(t, "reap")
            /\ UNCHANGED hadSession
       ELSE /\ Goto(t, IF closeRequested /\ failed THEN "reap" ELSE "leave")
            /\ UNCHANGED <<failed, stopped, locals>>
    /\ UNCHANGED <<running, connected, connectAccepted, closeRequested,
                   activity, native, opened, announced, closed>>

ConnectReap(t) ==
    /\ pc[t] = "reap"
    /\ CallClose(t, "leave")
    /\ UNCHANGED <<flags, activity, native, history>>

\* endConnectActivity
EndConnect(t) ==
    /\ Step(t, "leave", "idle") /\ ThreadMutexFree
    /\ connectOwner' = NoThread
    /\ UNCHANGED <<flags, workerActive, joinInProgress, joinable,
                   native, locals, history>>

Connect(t) ==
    \/ BeginConnect(t) \/ ConnectCheck(t) \/ ConnectInstall(t)
    \/ ConnectPrecheck(t) \/ ConnectAttempt(t) \/ ConnectCommit(t)
    \/ ConnectSpawn(t) \/ ConnectSpawnFailed(t) \/ ConnectPostcheck(t)
    \/ ConnectAwait(t) \/ ConnectOutcome(t) \/ ConnectDecide(t)
    \/ ConnectReap(t) \/ EndConnect(t)

-----------------------------------------------------------------------------
(* close(), by an application thread, by connect() or by a callback.       *)

BeginClose(t) ==
    /\ t \in Callers /\ pc[t] = "idle"
    /\ CallClose(t, "idle")
    /\ UNCHANGED <<flags, activity, native, history>>

CloseFlag(t) ==
    /\ Step(t, "flag", "shut") /\ ThreadMutexFree
    /\ first' = [first EXCEPT ![t] = ~closeRequested]
    /\ live' = [live EXCEPT ![t] = ~closeRequested /\ (running \/ connected)]
    /\ closeRequested' = TRUE
    /\ running' = (running /\ closeRequested)
    /\ connected' = (connected /\ closeRequested)
    /\ UNCHANGED <<connectAccepted, failed, activity, native,
                   back, event, completed, hadSession, history>>

CloseShutdown(t) ==
    /\ Step(t, "shut", "claim")
    /\ shutdownPeer
    /\ UNCHANGED <<flags, activity, link, lease, locals, history>>

\* Mutant: close() does not wait for connect() to end.
CloseClaimMutant(t) ==
    /\ pc[t] = "claim" /\ ThreadMutexFree
    /\ \/ /\ joinable /\ t = Worker
          /\ joinable' = FALSE
          /\ Goto(t, "destroy")
          /\ UNCHANGED joinInProgress
       \/ /\ joinable /\ t # Worker /\ ~joinInProgress
          /\ joinable' = FALSE /\ joinInProgress' = TRUE
          /\ Goto(t, "join")
       \/ /\ ~joinable \/ (t # Worker /\ joinInProgress)
          /\ Goto(t, IF t = Worker THEN "destroy" ELSE "drain")
          /\ UNCHANGED <<joinable, joinInProgress>>
    /\ UNCHANGED <<flags, workerActive, connectOwner, native, locals, history>>

\* The locked section that decides who joins the worker.  Everyone but the
\* connecting thread itself first waits for connect() to end.
CloseClaim(t) ==
    /\ pc[t] = "claim" /\ ThreadMutexFree
    /\ connectOwner \in {NoThread, t}
    /\ \/ /\ joinable /\ t = Worker
          /\ joinable' = FALSE
          /\ Goto(t, "destroy")
          /\ UNCHANGED joinInProgress
       \/ /\ joinable /\ t # Worker /\ ~joinInProgress
          /\ joinable' = FALSE /\ joinInProgress' = TRUE
          /\ Goto(t, "join")
       \/ /\ ~joinable \/ (t # Worker /\ joinInProgress)
          /\ Goto(t, IF t = Worker THEN "destroy" ELSE "drain")
          /\ UNCHANGED <<joinable, joinInProgress>>
    /\ UNCHANGED <<flags, workerActive, connectOwner, native, locals, history>>

\* std::thread::join returns when the worker's function has returned.
CloseJoin(t) ==
    /\ Step(t, "join", "joined")
    /\ pc[Worker] = "done"
    /\ UNCHANGED <<flags, activity, native, locals, history>>

CloseJoined(t) ==
    /\ Step(t, "joined", "destroy") /\ ThreadMutexFree
    /\ joinInProgress' = FALSE
    /\ UNCHANGED <<flags, workerActive, connectOwner, joinable,
                   native, locals, history>>

\* Mutant: the closer that lost the race for the join does not wait.
CloseDrainMutant(t) ==
    /\ Step(t, "drain", "destroy") /\ ThreadMutexFree
    /\ UNCHANGED <<flags, activity, native, locals, history>>

CloseDrain(t) ==
    /\ Step(t, "drain", "destroy") /\ ThreadMutexFree
    /\ ~workerActive /\ ~joinInProgress
    /\ UNCHANGED <<flags, activity, native, locals, history>>

CloseDestroy(t) ==
    /\ Step(t, "destroy", "notify")
    /\ peer' = IF t = Worker THEN peer ELSE "none"
    /\ UNCHANGED <<flags, activity, link, lease, locals, history>>

CloseNotify(t) ==
    /\ pc[t] = "notify" /\ Goto(t, back[t])
    /\ announced' = (announced \/ (first[t] /\ live[t] /\ lease))
    /\ closed' = (closed \/ back[t] = "idle")
    /\ UNCHANGED <<flags, activity, native, locals, opened, stopped>>

Close(t) ==
    \/ BeginClose(t) \/ CloseFlag(t) \/ CloseShutdown(t) \/ CloseClaim(t)
    \/ CloseJoin(t) \/ CloseJoined(t) \/ CloseDrain(t) \/ CloseDestroy(t)
    \/ CloseNotify(t)

-----------------------------------------------------------------------------
(* requestStop(): no lock but the one of shutdownPeer.                     *)

BeginRequestStop(t) ==
    /\ t \in Callers /\ pc[t] = "idle"
    /\ stopped' = TRUE
    /\ CallRequestStop(t, "idle") /\ UNCHANGED hadSession
    /\ UNCHANGED <<flags, activity, native, opened, announced, closed>>

StopRequested(t) ==
    /\ Step(t, "stop", "stopRunning")
    /\ closeRequested' = TRUE
    /\ UNCHANGED <<running, connected, connectAccepted, failed,
                   activity, native, locals, history>>

StopRunning(t) ==
    /\ Step(t, "stopRunning", "stopPeer")
    /\ running' = FALSE /\ connected' = FALSE
    /\ UNCHANGED <<connectAccepted, closeRequested, failed,
                   activity, native, locals, history>>

StopPeer(t) ==
    /\ pc[t] = "stopPeer" /\ Goto(t, back[t])
    /\ shutdownPeer
    /\ UNCHANGED <<flags, activity, link, lease, locals, history>>

RequestStop(t) ==
    BeginRequestStop(t) \/ StopRequested(t) \/ StopRunning(t) \/ StopPeer(t)

-----------------------------------------------------------------------------
(* The worker: runLoop, handleNativePacket, endWorkerActivity.             *)

\* Without a lease from the owner the worker does not enter its loop.
WorkerStart ==
    /\ pc[Worker] = "started" /\ ThreadMutexFree
    /\ Goto(Worker, IF lease THEN "loop" ELSE "ending")
    /\ UNCHANGED <<flags, activity, native, locals, history>>

WorkerLoop ==
    /\ pc[Worker] = "loop"
    /\ Goto(Worker, IF running THEN "receive" ELSE "ending")
    /\ UNCHANGED <<flags, activity, native, locals, history>>

\* What RakPeer may deliver next, and the state it is in afterwards.
Deliver(e) ==
    \/ e = "accepted" /\ link \in {"attempting", "connected"}
         /\ link' = "connected"
    \/ e \in {"failure", "refused"} /\ link = "attempting" /\ link' = "gone"
    \/ e = "disconnect" /\ link \in {"attempting", "connected"}
         /\ link' = "gone"
    \/ e = "data" /\ link = "connected" /\ UNCHANGED link

WorkerReceive ==
    /\ pc[Worker] = "receive"
    /\ \/ /\ peer # "up"
          /\ Goto(Worker, "ending")
          /\ UNCHANGED <<event, link>>
       \/ /\ peer = "up"
          /\ \E e \in Events : Deliver(e) /\ event' = e
          /\ Goto(Worker, "handle")
       \/ /\ peer = "up"   \* nothing queued: sleep and look again
          /\ Goto(Worker, "loop")
          /\ UNCHANGED <<event, link>>
    /\ UNCHANGED <<flags, activity, peer, lease, history,
                   back, first, live, completed, hadSession>>

\* ID_CONNECTION_REQUEST_ACCEPTED and ID_ALREADY_CONNECTED: the exchange ...
HandleAccepted ==
    /\ pc[Worker] = "handle" /\ event = "accepted"
    /\ connected' = TRUE
    /\ Goto(Worker, IF connected THEN "next" ELSE "accept")
    /\ UNCHANGED <<running, connectAccepted, closeRequested, failed,
                   activity, native, locals, history>>

\* ... then connectAccepted_, the notification and the connected handler.
WorkerAccept ==
    /\ Step(Worker, "accept", "connectedCallback")
    /\ connectAccepted' = TRUE
    /\ opened' = TRUE
    /\ UNCHANGED <<running, connected, closeRequested, failed,
                   activity, native, locals, announced, stopped, closed>>

\* Messages that refuse the attempt; two of them also end a session.
HandleFailure ==
    /\ pc[Worker] = "handle" /\ event \in {"failure", "refused"}
    /\ ~connected
    /\ failed' = TRUE
    /\ CallRequestStop(Worker, "next") /\ UNCHANGED hadSession
    /\ UNCHANGED <<running, connected, connectAccepted, closeRequested,
                   activity, native, history>>

HandleIgnored ==
    /\ pc[Worker] = "handle"
    /\ \/ event = "failure" /\ connected
       \/ event = "data" /\ ~connected
    /\ Goto(Worker, "next")
    /\ UNCHANGED <<flags, activity, native, locals, history>>

\* Mutant: hadSession is read after requestStop() has cleared connected_.
HandleDisconnectMutant ==
    /\ pc[Worker] = "handle"
    /\ \/ event = "disconnect"
       \/ event = "refused" /\ connected
    /\ hadSession' = FALSE
    /\ failed' = (failed \/ ~connected)
    /\ CallRequestStop(Worker, "closeCallback")
    /\ UNCHANGED <<running, connected, connectAccepted, closeRequested,
                   activity, native, history>>

HandleDisconnect ==
    /\ pc[Worker] = "handle"
    /\ \/ event = "disconnect"
       \/ event = "refused" /\ connected
    /\ hadSession' = connected
    /\ failed' = (failed \/ ~connected)
    /\ CallRequestStop(Worker, "closeCallback")
    /\ UNCHANGED <<running, connected, connectAccepted, closeRequested,
                   activity, native, history>>

HandleData ==
    /\ pc[Worker] = "handle" /\ event = "data" /\ connected
    /\ Goto(Worker, "dataCallback")
    /\ UNCHANGED <<flags, activity, native, locals, history>>

\* A callback returns, or calls close() first.
RunCallback(from, kind) ==
    /\ pc[Worker] = from
    /\ \/ Goto(Worker, "next") /\ UNCHANGED locals
       \/ kind \in CallbackCloses /\ CallClose(Worker, "next")
    /\ UNCHANGED <<flags, activity, native, opened, stopped, closed>>

ConnectedCallback ==
    RunCallback("connectedCallback", "connected") /\ UNCHANGED announced

DataCallback ==
    RunCallback("dataCallback", "encapsulated") /\ UNCHANGED announced

CloseCallback ==
    /\ announced' = (announced \/ hadSession)
    /\ IF hadSession
       THEN RunCallback("closeCallback", "closed")
       ELSE /\ Step(Worker, "closeCallback", "next")
            /\ UNCHANGED <<flags, activity, native, locals,
                           opened, stopped, closed>>

\* After each packet the owner's lease is asked for again.
WorkerNext ==
    /\ pc[Worker] = "next"
    /\ Goto(Worker, IF lease THEN "loop" ELSE "ending")
    /\ running' = (running /\ lease)
    /\ UNCHANGED <<connected, connectAccepted, closeRequested, failed,
                   activity, native, locals, history>>

\* endWorkerActivity
WorkerEnding ==
    /\ Step(Worker, "ending", "endingPeer")
    /\ running' = FALSE /\ connected' = FALSE
    /\ UNCHANGED <<connectAccepted, closeRequested, failed,
                   activity, native, locals, history>>

WorkerEndingPeer ==
    /\ Step(Worker, "endingPeer", "endingActive")
    /\ peer' = "none"
    /\ UNCHANGED <<flags, activity, link, lease, locals, history>>

\* Mutant: endWorkerActivity leaves workerActive_ set.
WorkerEndingActiveMutant ==
    /\ Step(Worker, "endingActive", "done") /\ ThreadMutexFree
    /\ UNCHANGED <<flags, activity, native, locals, history>>

WorkerEndingActive ==
    /\ Step(Worker, "endingActive", "done") /\ ThreadMutexFree
    /\ workerActive' = FALSE
    /\ UNCHANGED <<flags, joinInProgress, connectOwner, joinable,
                   native, locals, history>>

RunWorker ==
    \/ WorkerStart \/ WorkerLoop \/ WorkerReceive \/ HandleAccepted
    \/ WorkerAccept \/ HandleFailure \/ HandleIgnored \/ HandleDisconnect
    \/ HandleData \/ ConnectedCallback \/ DataCallback \/ CloseCallback
    \/ WorkerNext \/ WorkerEnding \/ WorkerEndingPeer \/ WorkerEndingActive

-----------------------------------------------------------------------------
\* The owner that issues leases goes away; its calls have all returned.
DropOwner ==
    /\ lease /\ \A t \in Callers : pc[t] = "idle"
    /\ lease' = FALSE
    /\ UNCHANGED <<flags, activity, peer, link, pc, locals, history>>

Next ==
    \/ \E t \in Callers : Connect(t)
    \/ \E t \in Threads : Close(t) \/ RequestStop(t)
    \/ RunWorker
    \/ DropOwner

\* The scheduler runs every thread that is inside a call, and the worker;
\* nobody is obliged to begin a call, and the network may stay silent.
Progress(t) ==
    /\ pc[t] \notin {"idle", "none", "done"}
    /\ \/ t \in Callers /\ Connect(t)
       \/ Close(t) \/ RequestStop(t)
       \/ t = Worker /\ RunWorker

Fairness == \A t \in Threads : WF_vars(Progress(t))

Spec == Init /\ [][Next]_vars /\ Fairness

-----------------------------------------------------------------------------
(* Safety.                                                                 *)

\* close() called from outside the worker and outside connect() returns only
\* when nothing of the connection is left: no worker, no native peer, no
\* half-done join, and the flags say so; and nothing brings it back, although
\* connect(), callbacks and other closers run concurrently
\* (RakNetClient.cpp: close, beginConnectActivity, endWorkerActivity).
ClosedIsQuiescent ==
    closed =>
        /\ closeRequested /\ ~running /\ ~connected
        /\ ~workerActive /\ ~joinInProgress /\ ~joinable
        /\ peer = "none"

\* The worker's std::thread object is joined or detached exactly once:
\* connect() never assigns over a joinable thread_, which would terminate the
\* process, and two closers never join the same worker.
OneJoin ==
    /\ \A t \in Threads : pc[t] = "spawn" => ~joinable /\ ~workerActive
    /\ \A t, u \in Threads :
        pc[t] \in {"join", "joined"} /\ pc[u] \in {"join", "joined"} => t = u

\* A connect() that fails, times out or is cancelled reaps its own worker
\* without the transport-close callback ("without emitting a transport-close
\* callback for a session that never reached ID_CONNECTION_REQUEST_ACCEPTED").
FailedConnectIsSilent ==
    \A t \in Threads :
        pc[t] = "notify" /\ back[t] = "leave" => ~(first[t] /\ live[t])

\* A session whose connected handler ran ends with a call of the close
\* handler, unless it was stopped by requestStop() (which never announces) or
\* its owner is gone; also when close() overtakes the worker.
SessionEndAnnounced ==
    opened /\ pc[Worker] = "done" /\ lease /\ ~stopped
        /\ (\A t \in Callers : pc[t] = "idle")
    => announced

\* The application's handlers never run on two threads at once: when a close()
\* from outside is about to call the close handler, the worker has left its
\* own handlers for good.  BedrockNetworkClient throws "concurrent RakNet
\* callback scopes" when this fails.
CallbacksExclusive ==
    \A t \in Callers :
        pc[t] = "notify" /\ first[t] /\ live[t] => pc[Worker] \in {"none", "done"}

\* The native peer outlives every use of it: the worker's loop ends before
\* anyone but itself destroys the peer, so a packet taken from Receive is
\* never handled after DestroyInstance.
PeerOutlivesWorker ==
    pc[Worker] \in {"loop", "receive", "handle", "accept"} => peer # "none"

\* Thread and peer have an owner at all times: the thread is joined once, the
\* peer is there for as long as the worker uses it.
Ownership == TypeOK /\ OneJoin /\ PeerOutlivesWorker

(* Deadlock.                                                               *)

\* Thread t is inside close() waiting for thread u.
WaitsFor(t, u) ==
    \/ pc[t] = "claim" /\ connectOwner = u /\ u # t
    \/ pc[t] = "join" /\ u = Worker /\ pc[Worker] # "done"

\* "close from RakNet callback joined itself" is what the self-close test
\* reports: a callback's close() and connect() never wait for each other.
NoCircularWait ==
    ~ \E t, u \in Threads : WaitsFor(t, u) /\ WaitsFor(u, t)

(* Liveness.                                                               *)

\* Applications eventually stop calling connect(): without this a thread in
\* close() that waits for connectActive_ can be overtaken for ever.
ConnectsEnd == <>[][connectOwner' \in {connectOwner, NoThread}]_vars

\* Every connect(), close() and requestStop() returns, unless a callback's
\* close() and connect() wait for each other.
CallersReturn ==
    ConnectsEnd => \A t \in Callers :
        pc[t] # "idle" ~> pc[t] = "idle" \/ ~NoCircularWait

\* Once stopping was requested the worker ends, even when requestStop() fell
\* between connect()'s check of closeRequested_ and its running_.store(true),
\* unless it waits in a circle as above.
WorkerStops ==
    closeRequested ~> pc[Worker] \in {"none", "done"} \/ ~NoCircularWait

\* Neither the callers nor the worker are left waiting for each other.
CallsReturn == CallersReturn /\ WorkerStops
=============================================================================
