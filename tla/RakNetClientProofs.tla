------------------------- MODULE RakNetClientProofs -------------------------
(***************************************************************************)
(* Proofs about RakNetClient for every set of application threads and      *)
(* every choice of callbacks that close.  The properties are not inductive *)
(* as they stand: what a close() may conclude when it returns depends on   *)
(* where every other thread is.  Inv below relates the flags, the program  *)
(* counters and the native peer; each of its parts is preserved by every   *)
(* step, given the others.                                                 *)
(***************************************************************************)
EXTENDS RakNetClient, TLAPS

CallLabels == {"idle"} \cup ConnectLabels \cup CloseLabels \cup StopLabels
AfterFlag == CloseLabels \ {"flag"}
AfterClaim == {"join", "joined", "drain", "destroy", "notify"}
AfterWorker == {"joined", "destroy", "notify"}
BeforeSpawn == {"install", "precheck", "attempt", "commit", "spawn",
                "spawnFailed"}
WorkerGone == {"none", "done"}
LoopLabels == {"loop", "receive", "handle", "accept", "connectedCallback",
               "closeCallback", "dataCallback", "next"}

\* Thread t is inside connect(), perhaps in a close() or requestStop() it made.
InConnect(t) ==
    \/ pc[t] \in ConnectLabels
    \/ pc[t] \in CloseLabels \cup StopLabels /\ back[t] \in {"leave", "reap"}

\* Application threads and the worker run their own code, and close() and
\* requestStop() return to where they were called from.
WhereInv ==
    /\ \A t \in Callers :
        /\ pc[t] \in CallLabels
        /\ pc[t] \in CloseLabels => back[t] \in {"idle", "leave"}
        /\ pc[t] \in StopLabels => back[t] \in {"idle", "reap"}
    /\ pc[Worker] \in WorkerLabels \cup CloseLabels \cup StopLabels
    /\ pc[Worker] \notin {"join", "joined", "drain"}
    /\ pc[Worker] \in CloseLabels => back[Worker] = "next"
    /\ pc[Worker] \in StopLabels => back[Worker] \in {"next", "closeCallback"}

\* connectThreadId_ names the one thread inside connect().
OwnerInv == \A t \in Callers : InConnect(t) <=> connectOwner = t

\* A thread past the first statement of close() or requestStop(), or in
\* connect()'s reaping, has set closeRequested_.
RequestInv ==
    \A t \in Threads :
        /\ pc[t] \in AfterFlag \cup {"stopRunning", "stopPeer", "reap"}
             => closeRequested
        /\ pc[t] = "flag" /\ back[t] = "leave"
             => closeRequested \/ (~running /\ pc[Worker] = "none")

\* workerActive_ is the worker's lifetime; before the worker exists nothing
\* is connected, and after endWorkerActivity nothing is left.
WorkerInv ==
    /\ workerActive <=> pc[Worker] \notin WorkerGone
    /\ pc[Worker] = "none" =>
        /\ ~connected
        /\ running => \E t \in Callers : pc[t] = "spawnFailed"
    /\ pc[Worker] \in {"endingPeer", "endingActive", "done"} =>
        ~running /\ ~connected
    /\ pc[Worker] \in {"endingActive", "done"} => peer = "none"

\* A worker ends only because a stop was requested or its owner went away.
EndInv ==
    /\ pc[Worker] # "none" => running \/ closeRequested \/ ~lease
    /\ pc[Worker] \in {"ending", "endingPeer", "endingActive", "done"}
         => closeRequested \/ ~lease
    /\ pc[Worker] \in LoopLabels \cup {"started"} =>
        /\ peer # "none"
        /\ peer = "up" \/ closeRequested
    /\ pc[Worker] \in CloseLabels \cup StopLabels => peer # "none"

\* connect() before it starts the worker: there is none, and the peer that
\* was installed is up unless a stop was requested.
ConnectInv ==
    \A t \in Callers :
        /\ pc[t] \in BeforeSpawn \cup {"check"} => lease
        /\ pc[t] = "check" => pc[Worker] \in WorkerGone
        /\ pc[t] \in BeforeSpawn => pc[Worker] = "none"
        /\ pc[t] \in {"precheck", "attempt", "commit", "spawn"} =>
            /\ peer # "none"
            /\ peer = "up" \/ closeRequested

\* The std::thread object: joinable while nobody claimed it, one join at most.
JoinInv ==
    /\ joinable => pc[Worker] # "none"
    /\ joinInProgress <=> \E t \in Callers : pc[t] \in {"join", "joined"}
    /\ \A t, u \in Callers :
        pc[t] \in {"join", "joined"} /\ pc[u] \in {"join", "joined"} => t = u
    /\ \A t \in Callers :
        /\ pc[t] \in AfterClaim => ~joinable
        /\ pc[t] \in {"join", "joined"} => pc[Worker] # "none"
        /\ pc[t] \in AfterWorker => pc[Worker] \in WorkerGone

\* No connect() is past its first check, and none can get there.
ConnectOver == \A u \in Callers : InConnect(u) => pc[u] \in {"check", "leave"}

\* What a close() from outside has established at each point.
QuietInv ==
    /\ \A t \in Callers :
        pc[t] \in AfterClaim /\ back[t] = "idle" => ConnectOver
    /\ \A t \in Callers :
        pc[t] \in {"destroy", "notify"} /\ back[t] = "idle" => ~joinInProgress
    /\ \A t \in Callers :
        pc[t] = "notify" /\ back[t] = "idle" => peer = "none"
    /\ closed =>
        /\ closeRequested /\ ConnectOver /\ pc[Worker] \in WorkerGone
        /\ ~joinable /\ ~joinInProgress /\ peer = "none"

\* connect()'s own close() has nothing to announce.
SilentInv ==
    \A t \in Callers :
        pc[t] \in AfterFlag /\ back[t] = "leave" => ~(first[t] /\ live[t])

\* Somebody who owes the close handler: a close() that found the session, or
\* the worker that was told of its end.
CloserOwes == \E t \in Threads : pc[t] \in AfterFlag /\ first[t] /\ live[t]
WorkerOwes ==
    /\ hadSession
    /\ \/ pc[Worker] = "closeCallback"
       \/ pc[Worker] \in StopLabels /\ back[Worker] = "closeCallback"
Excused == ~lease \/ stopped \/ announced

\* The worker ends an attempt that never became a session.
GivesUp ==
    /\ ~opened
    /\ \/ pc[Worker] \in StopLabels \cup {"closeCallback", "ending", "endingPeer",
                                         "endingActive", "done"}
       \/ pc[Worker] \in {"next", "loop"} /\ ~running

\* As long as a session is open nobody has asked to close it; whoever asks
\* first owes the close handler.
AnnounceInv ==
    /\ pc[Worker] = "none" => ~opened
    /\ \A t \in Callers :
        /\ pc[t] \in StopLabels => stopped
        /\ pc[t] = "spawn" /\ closeRequested => stopped
    /\ pc[Worker] \in {"stopPeer", "closeCallback"} => ~running
    /\ pc[Worker] \in StopLabels =>
        /\ connected => back[Worker] = "closeCallback" /\ hadSession
    /\ pc[Worker] = "accept" /\ ~closeRequested => connected
    /\ opened /\ ~closeRequested => Excused \/ connected \/ WorkerOwes
    /\ pc[Worker] # "none" /\ closeRequested =>
        Excused \/ CloserOwes \/ WorkerOwes \/ GivesUp

Inv ==
    /\ WhereInv /\ OwnerInv /\ RequestInv /\ WorkerInv /\ EndInv
    /\ ConnectInv /\ JoinInv /\ QuietInv /\ SilentInv

-----------------------------------------------------------------------------
USE DEF Worker

\* The steps of connect() keep the types.
LEMMA ConnectType ==
    ASSUME TypeOK, NEW t \in Callers, Connect(t)
    PROVE  TypeOK'
  <1> USE ThreadAssumption
      DEF TypeOK, Threads, Labels, Events, ConnectLabels, CloseLabels,
          StopLabels, WorkerLabels, Goto, Step, CallClose, CallRequestStop,
          shutdownPeer, flags, activity, native, locals, history
  <1>1. CASE BeginConnect(t)
    BY <1>1 DEF BeginConnect
  <1>2. CASE ConnectCheck(t)
    <2>1. connectAccepted' \in BOOLEAN
      BY <1>2 DEF ConnectCheck
    <2>2. QED
      BY <1>2, <2>1 DEF ConnectCheck
  <1>3. CASE ConnectInstall(t)
    <2>1. failed' \in BOOLEAN
      BY <1>3 DEF ConnectInstall
    <2>2. QED
      BY <1>3, <2>1 DEF ConnectInstall
  <1>4. CASE ConnectPrecheck(t)
    BY <1>4 DEF ConnectPrecheck
  <1>5. CASE ConnectAttempt(t)
    <2>1. failed' \in BOOLEAN
      BY <1>5 DEF ConnectAttempt
    <2>2. QED
      BY <1>5, <2>1 DEF ConnectAttempt
  <1>6. CASE ConnectCommit(t)
    BY <1>6 DEF ConnectCommit
  <1>7. CASE ConnectSpawn(t)
    <2>1. running' \in BOOLEAN /\ workerActive' \in BOOLEAN /\ joinable' \in BOOLEAN
      BY <1>7 DEF ConnectSpawn
    <2>2. QED
      BY <1>7, <2>1 DEF ConnectSpawn
  <1>8. CASE ConnectSpawnFailed(t)
    <2>1. running' \in BOOLEAN /\ failed' \in BOOLEAN
      BY <1>8 DEF ConnectSpawnFailed
    <2>2. QED
      BY <1>8, <2>1 DEF ConnectSpawnFailed
  <1>9. CASE ConnectPostcheck(t)
    BY <1>9 DEF ConnectPostcheck
  <1>10. CASE ConnectAwait(t)
    <2>1. completed' \in BOOLEAN
      BY <1>10 DEF ConnectAwait, Settled
    <2>2. QED
      BY <1>10, <2>1 DEF ConnectAwait, Settled
  <1>11. CASE ConnectOutcome(t)
    BY <1>11 DEF ConnectOutcome
  <1>12. CASE ConnectDecide(t)
    <2>1. failed' \in BOOLEAN /\ stopped' \in BOOLEAN
      BY <1>12 DEF ConnectDecide
    <2>2. QED
      BY <1>12, <2>1 DEF ConnectDecide
  <1>13. CASE ConnectReap(t)
    BY <1>13 DEF ConnectReap
  <1>14. CASE EndConnect(t)
    BY <1>14 DEF EndConnect
  <1> QED
    BY <1>1, <1>2, <1>3, <1>4, <1>5, <1>6, <1>7, <1>8, <1>9, <1>10, <1>11, <1>12, <1>13, <1>14 DEF Connect

\* The steps of close() keep the types.
LEMMA CloseType ==
    ASSUME TypeOK, NEW t \in Threads, Close(t)
    PROVE  TypeOK'
  <1> USE ThreadAssumption
      DEF TypeOK, Threads, Labels, Events, ConnectLabels, CloseLabels,
          StopLabels, WorkerLabels, Goto, Step, CallClose, CallRequestStop,
          shutdownPeer, flags, activity, native, locals, history
  <1>1. CASE BeginClose(t)
    BY <1>1 DEF BeginClose
  <1>2. CASE CloseFlag(t)
    <2>1. closeRequested' \in BOOLEAN /\ running' \in BOOLEAN /\ connected' \in BOOLEAN
      BY <1>2 DEF CloseFlag
    <2>2. first' \in [Threads -> BOOLEAN] /\ live' \in [Threads -> BOOLEAN]
      BY <1>2 DEF CloseFlag
    <2>3. QED
      BY <1>2, <2>1, <2>2 DEF CloseFlag
  <1>3. CASE CloseShutdown(t)
    BY <1>3 DEF CloseShutdown
  <1>4. CASE CloseClaim(t)
    <2>1. joinable' \in BOOLEAN /\ joinInProgress' \in BOOLEAN
      BY <1>4 DEF CloseClaim
    <2>2. QED
      BY <1>4, <2>1 DEF CloseClaim
  <1>5. CASE CloseJoin(t)
    BY <1>5 DEF CloseJoin
  <1>6. CASE CloseJoined(t)
    <2>1. joinInProgress' \in BOOLEAN
      BY <1>6 DEF CloseJoined
    <2>2. QED
      BY <1>6, <2>1 DEF CloseJoined
  <1>7. CASE CloseDrain(t)
    BY <1>7 DEF CloseDrain
  <1>8. CASE CloseDestroy(t)
    BY <1>8 DEF CloseDestroy
  <1>9. CASE CloseNotify(t)
    <2>1. announced' \in BOOLEAN /\ closed' \in BOOLEAN
      BY <1>9 DEF CloseNotify
    <2>2. QED
      BY <1>9, <2>1 DEF CloseNotify
  <1> QED
    BY <1>1, <1>2, <1>3, <1>4, <1>5, <1>6, <1>7, <1>8, <1>9 DEF Close

\* The steps of requestStop() keep the types.
LEMMA StopType ==
    ASSUME TypeOK, NEW t \in Threads, RequestStop(t)
    PROVE  TypeOK'
  <1> USE ThreadAssumption
      DEF TypeOK, Threads, Labels, Events, ConnectLabels, CloseLabels,
          StopLabels, WorkerLabels, Goto, Step, CallClose, CallRequestStop,
          shutdownPeer, flags, activity, native, locals, history
  <1>1. CASE BeginRequestStop(t)
    <2>1. stopped' \in BOOLEAN
      BY <1>1 DEF BeginRequestStop
    <2>2. QED
      BY <1>1, <2>1 DEF BeginRequestStop
  <1>2. CASE StopRequested(t)
    <2>1. closeRequested' \in BOOLEAN
      BY <1>2 DEF StopRequested
    <2>2. QED
      BY <1>2, <2>1 DEF StopRequested
  <1>3. CASE StopRunning(t)
    <2>1. running' \in BOOLEAN /\ connected' \in BOOLEAN
      BY <1>3 DEF StopRunning
    <2>2. QED
      BY <1>3, <2>1 DEF StopRunning
  <1>4. CASE StopPeer(t)
    BY <1>4 DEF StopPeer
  <1> QED
    BY <1>1, <1>2, <1>3, <1>4 DEF RequestStop

\* The steps of the worker keep the types.
LEMMA WorkerType ==
    ASSUME TypeOK, RunWorker
    PROVE  TypeOK'
  <1> USE ThreadAssumption
      DEF TypeOK, Threads, Labels, Events, ConnectLabels, CloseLabels,
          StopLabels, WorkerLabels, Goto, Step, CallClose, CallRequestStop,
          shutdownPeer, flags, activity, native, locals, history
  <1>1. CASE WorkerStart
    BY <1>1 DEF WorkerStart
  <1>2. CASE WorkerLoop
    BY <1>2 DEF WorkerLoop
  <1>3. CASE WorkerReceive
    BY <1>3 DEF WorkerReceive, Deliver
  <1>4. CASE HandleAccepted
    <2>1. connected' \in BOOLEAN
      BY <1>4 DEF HandleAccepted
    <2>2. QED
      BY <1>4, <2>1 DEF HandleAccepted
  <1>5. CASE WorkerAccept
    <2>1. connectAccepted' \in BOOLEAN /\ opened' \in BOOLEAN
      BY <1>5 DEF WorkerAccept
    <2>2. QED
      BY <1>5, <2>1 DEF WorkerAccept
  <1>6. CASE HandleFailure
    <2>1. failed' \in BOOLEAN
      BY <1>6 DEF HandleFailure
    <2>2. QED
      BY <1>6, <2>1 DEF HandleFailure
  <1>7. CASE HandleIgnored
    BY <1>7 DEF HandleIgnored
  <1>8. CASE HandleDisconnect
    <2>1. hadSession' \in BOOLEAN /\ failed' \in BOOLEAN
      BY <1>8 DEF HandleDisconnect
    <2>2. QED
      BY <1>8, <2>1 DEF HandleDisconnect
  <1>9. CASE HandleData
    BY <1>9 DEF HandleData
  <1>10. CASE ConnectedCallback
    BY <1>10 DEF ConnectedCallback, RunCallback
  <1>11. CASE DataCallback
    BY <1>11 DEF DataCallback, RunCallback
  <1>12. CASE CloseCallback
    <2>1. announced' \in BOOLEAN
      BY <1>12 DEF CloseCallback, RunCallback
    <2>2. QED
      BY <1>12, <2>1 DEF CloseCallback, RunCallback
  <1>13. CASE WorkerNext
    <2>1. running' \in BOOLEAN
      BY <1>13 DEF WorkerNext
    <2>2. QED
      BY <1>13, <2>1 DEF WorkerNext
  <1>14. CASE WorkerEnding
    <2>1. running' \in BOOLEAN /\ connected' \in BOOLEAN
      BY <1>14 DEF WorkerEnding
    <2>2. QED
      BY <1>14, <2>1 DEF WorkerEnding
  <1>15. CASE WorkerEndingPeer
    BY <1>15 DEF WorkerEndingPeer
  <1>16. CASE WorkerEndingActive
    <2>1. workerActive' \in BOOLEAN
      BY <1>16 DEF WorkerEndingActive
    <2>2. QED
      BY <1>16, <2>1 DEF WorkerEndingActive
  <1> QED
    BY <1>1, <1>2, <1>3, <1>4, <1>5, <1>6, <1>7, <1>8, <1>9, <1>10, <1>11, <1>12, <1>13, <1>14, <1>15, <1>16 DEF RunWorker

\* The type invariant is an invariant: RakNetClient's members, the threads'
\* positions and the locals of their calls stay in their declared ranges.
THEOREM TypeCorrect == Spec => []TypeOK
  <1>1. Init => TypeOK
    BY ThreadAssumption
    DEF Init, TypeOK, Threads, Labels, Events, WorkerLabels
  <1>2. TypeOK /\ [Next]_vars => TypeOK'
    <2> SUFFICES ASSUME TypeOK, [Next]_vars PROVE TypeOK'
      OBVIOUS
    <2>1. CASE \E t \in Callers : Connect(t)
      BY <2>1, ConnectType
    <2>2. CASE \E t \in Threads : Close(t) \/ RequestStop(t)
      BY <2>2, CloseType, StopType
    <2>3. CASE RunWorker
      BY <2>3, WorkerType
    <2>4. CASE DropOwner
      <3>1. lease' \in BOOLEAN
        BY <2>4 DEF DropOwner
      <3>2. QED
        BY <2>4, <3>1 DEF TypeOK, DropOwner, flags, activity, locals, history
    <2>5. CASE UNCHANGED vars
      BY <2>5 DEF TypeOK, vars, flags, activity, native, locals, history
    <2> QED
      BY <2>1, <2>2, <2>3, <2>4, <2>5 DEF Next
  <1> QED
    BY <1>1, <1>2, PTL DEF Spec

\* connect() preserves the invariant.
LEMMA ConnectInvStep ==
    ASSUME TypeOK, Inv, NEW t \in Callers, Connect(t)
    PROVE  Inv'
  <1> USE ThreadAssumption
      DEF TypeOK, Inv, WhereInv, OwnerInv, RequestInv, WorkerInv, EndInv,
          ConnectInv, JoinInv, QuietInv, SilentInv, InConnect, ConnectOver,
          Threads, Labels, CallLabels, ConnectLabels, CloseLabels, StopLabels,
          WorkerLabels, Events, AfterFlag, AfterClaim, AfterWorker,
          BeforeSpawn, WorkerGone, LoopLabels, Goto, Step, CallClose,
          CallRequestStop, ThreadMutexFree, shutdownPeer,
          flags, activity, native, locals, history
  <1>1. CASE BeginConnect(t)
    BY <1>1 DEF BeginConnect
  <1>2. CASE ConnectCheck(t)
    BY <1>2 DEF ConnectCheck
  <1>3. CASE ConnectInstall(t)
    BY <1>3 DEF ConnectInstall
  <1>4. CASE ConnectPrecheck(t)
    BY <1>4 DEF ConnectPrecheck
  <1>5. CASE ConnectAttempt(t)
    BY <1>5 DEF ConnectAttempt
  <1>6. CASE ConnectCommit(t)
    BY <1>6 DEF ConnectCommit
  <1>7. CASE ConnectSpawn(t)
    BY <1>7 DEF ConnectSpawn
  <1>8. CASE ConnectSpawnFailed(t)
    BY <1>8 DEF ConnectSpawnFailed
  <1>9. CASE ConnectPostcheck(t)
    BY <1>9 DEF ConnectPostcheck
  <1>10. CASE ConnectAwait(t)
    BY <1>10 DEF ConnectAwait, Settled
  <1>11. CASE ConnectOutcome(t)
    BY <1>11 DEF ConnectOutcome
  <1>12. CASE ConnectDecide(t)
    BY <1>12 DEF ConnectDecide
  <1>13. CASE ConnectReap(t)
    BY <1>13 DEF ConnectReap
  <1>14. CASE EndConnect(t)
    BY <1>14 DEF EndConnect
  <1> QED
    BY <1>1, <1>2, <1>3, <1>4, <1>5, <1>6, <1>7, <1>8, <1>9, <1>10, <1>11, <1>12, <1>13, <1>14 DEF Connect

\* close() preserves the invariant, whoever calls it.
LEMMA CloseInvStep ==
    ASSUME TypeOK, Inv, NEW t \in Threads, Close(t)
    PROVE  Inv'
  <1> USE ThreadAssumption
      DEF TypeOK, Inv, WhereInv, OwnerInv, RequestInv, WorkerInv, EndInv,
          ConnectInv, JoinInv, QuietInv, SilentInv, InConnect, ConnectOver,
          Threads, Labels, CallLabels, ConnectLabels, CloseLabels, StopLabels,
          WorkerLabels, Events, AfterFlag, AfterClaim, AfterWorker,
          BeforeSpawn, WorkerGone, LoopLabels, Goto, Step, CallClose,
          CallRequestStop, ThreadMutexFree, shutdownPeer,
          flags, activity, native, locals, history
  <1>1. CASE BeginClose(t)
    BY <1>1 DEF BeginClose
  <1>2. CASE CloseFlag(t)
    BY <1>2 DEF CloseFlag
  <1>3. CASE CloseShutdown(t)
    BY <1>3 DEF CloseShutdown
  <1>4. CASE CloseClaim(t)
    BY <1>4 DEF CloseClaim
  <1>5. CASE CloseJoin(t)
    BY <1>5 DEF CloseJoin
  <1>6. CASE CloseJoined(t)
    BY <1>6 DEF CloseJoined
  <1>7. CASE CloseDrain(t)
    BY <1>7 DEF CloseDrain
  <1>8. CASE CloseDestroy(t)
    BY <1>8 DEF CloseDestroy
  <1>9. CASE CloseNotify(t)
    BY <1>9 DEF CloseNotify
  <1> QED
    BY <1>1, <1>2, <1>3, <1>4, <1>5, <1>6, <1>7, <1>8, <1>9 DEF Close

\* requestStop() preserves the invariant, whoever calls it.
LEMMA StopInvStep ==
    ASSUME TypeOK, Inv, NEW t \in Threads, RequestStop(t)
    PROVE  Inv'
  <1> USE ThreadAssumption
      DEF TypeOK, Inv, WhereInv, OwnerInv, RequestInv, WorkerInv, EndInv,
          ConnectInv, JoinInv, QuietInv, SilentInv, InConnect, ConnectOver,
          Threads, Labels, CallLabels, ConnectLabels, CloseLabels, StopLabels,
          WorkerLabels, Events, AfterFlag, AfterClaim, AfterWorker,
          BeforeSpawn, WorkerGone, LoopLabels, Goto, Step, CallClose,
          CallRequestStop, ThreadMutexFree, shutdownPeer,
          flags, activity, native, locals, history
  <1>1. CASE BeginRequestStop(t)
    BY <1>1 DEF BeginRequestStop
  <1>2. CASE StopRequested(t)
    BY <1>2 DEF StopRequested
  <1>3. CASE StopRunning(t)
    BY <1>3 DEF StopRunning
  <1>4. CASE StopPeer(t)
    BY <1>4 DEF StopPeer
  <1> QED
    BY <1>1, <1>2, <1>3, <1>4 DEF RequestStop

\* The worker preserves the invariant.
LEMMA WorkerInvStep ==
    ASSUME TypeOK, Inv, RunWorker
    PROVE  Inv'
  <1> USE ThreadAssumption
      DEF TypeOK, Inv, WhereInv, OwnerInv, RequestInv, WorkerInv, EndInv,
          ConnectInv, JoinInv, QuietInv, SilentInv, InConnect, ConnectOver,
          Threads, Labels, CallLabels, ConnectLabels, CloseLabels, StopLabels,
          WorkerLabels, Events, AfterFlag, AfterClaim, AfterWorker,
          BeforeSpawn, WorkerGone, LoopLabels, Goto, Step, CallClose,
          CallRequestStop, ThreadMutexFree, shutdownPeer,
          flags, activity, native, locals, history
  <1>1. CASE WorkerStart
    BY <1>1 DEF WorkerStart
  <1>2. CASE WorkerLoop
    BY <1>2 DEF WorkerLoop
  <1>3. CASE WorkerReceive
    BY <1>3 DEF WorkerReceive, Deliver
  <1>4. CASE HandleAccepted
    BY <1>4 DEF HandleAccepted
  <1>5. CASE WorkerAccept
    BY <1>5 DEF WorkerAccept
  <1>6. CASE HandleFailure
    BY <1>6 DEF HandleFailure
  <1>7. CASE HandleIgnored
    BY <1>7 DEF HandleIgnored
  <1>8. CASE HandleDisconnect
    BY <1>8 DEF HandleDisconnect
  <1>9. CASE HandleData
    BY <1>9 DEF HandleData
  <1>10. CASE ConnectedCallback
    BY <1>10 DEF ConnectedCallback, RunCallback
  <1>11. CASE DataCallback
    BY <1>11 DEF DataCallback, RunCallback
  <1>12. CASE CloseCallback
    BY <1>12 DEF CloseCallback, RunCallback
  <1>13. CASE WorkerNext
    BY <1>13 DEF WorkerNext
  <1>14. CASE WorkerEnding
    BY <1>14 DEF WorkerEnding
  <1>15. CASE WorkerEndingPeer
    BY <1>15 DEF WorkerEndingPeer
  <1>16. CASE WorkerEndingActive
    BY <1>16 DEF WorkerEndingActive
  <1> QED
    BY <1>1, <1>2, <1>3, <1>4, <1>5, <1>6, <1>7, <1>8, <1>9, <1>10, <1>11, <1>12, <1>13, <1>14, <1>15, <1>16 DEF RunWorker

\* Inv is an invariant of the client transport.
THEOREM Invariance == Spec => []Inv
  <1>1. Init => Inv
    BY ThreadAssumption
    DEF Init, Inv, WhereInv, OwnerInv, RequestInv, WorkerInv, EndInv,
        ConnectInv, JoinInv, QuietInv, SilentInv, InConnect, ConnectOver,
        Threads, CallLabels, ConnectLabels, CloseLabels, StopLabels,
        WorkerLabels, AfterFlag, AfterClaim, AfterWorker, BeforeSpawn,
        WorkerGone, LoopLabels
  <1>2. TypeOK /\ Inv /\ [Next]_vars => Inv'
    <2> SUFFICES ASSUME TypeOK, Inv, [Next]_vars PROVE Inv'
      OBVIOUS
    <2>1. CASE \E t \in Callers : Connect(t)
      BY <2>1, ConnectInvStep
    <2>2. CASE \E t \in Threads : Close(t) \/ RequestStop(t)
      BY <2>2, CloseInvStep, StopInvStep
    <2>3. CASE RunWorker
      BY <2>3, WorkerInvStep
    <2> USE DEF Inv, WhereInv, OwnerInv, RequestInv, WorkerInv, EndInv,
                ConnectInv, JoinInv, QuietInv, SilentInv, InConnect,
                ConnectOver, flags, activity, native, locals, history
    <2>4. CASE DropOwner
      BY <2>4, ThreadAssumption
      DEF DropOwner, Threads, BeforeSpawn
    <2>5. CASE UNCHANGED vars
      BY <2>5 DEF vars
    <2> QED
      BY <2>1, <2>2, <2>3, <2>4, <2>5 DEF Next
  <1> QED
    BY <1>1, <1>2, TypeCorrect, PTL DEF Spec

\* A close() from outside leaves nothing behind, for any number of threads.
THEOREM Quiescence == Spec => []ClosedIsQuiescent
  <1>1. TypeOK /\ Inv => ClosedIsQuiescent
    BY DEF TypeOK, Inv, QuietInv, WorkerInv, WorkerGone, ConnectOver, InConnect,
           ClosedIsQuiescent, ConnectLabels
  <1> QED
    BY <1>1, TypeCorrect, Invariance, PTL

\* The worker thread is started over no other and joined by one closer.
THEOREM JoinedOnce == Spec => []OneJoin
  <1>1. TypeOK /\ Inv => OneJoin
    BY ThreadAssumption
    DEF TypeOK, Inv, WhereInv, JoinInv, ConnectInv, WorkerInv, OneJoin, Threads,
        BeforeSpawn, WorkerGone, WorkerLabels, CloseLabels, StopLabels
  <1> QED
    BY <1>1, TypeCorrect, Invariance, PTL

\* connect() reaps its own failures without the close callback.
THEOREM SilentFailure == Spec => []FailedConnectIsSilent
  <1>1. TypeOK /\ Inv => FailedConnectIsSilent
    BY ThreadAssumption
    DEF Inv, WhereInv, SilentInv, FailedConnectIsSilent, Threads, AfterFlag,
        CloseLabels
  <1> QED
    BY <1>1, TypeCorrect, Invariance, PTL

\* Application handlers never run concurrently.
THEOREM ExclusiveCallbacks == Spec => []CallbacksExclusive
  <1>1. TypeOK /\ Inv => CallbacksExclusive
    BY DEF Inv, JoinInv, CallbacksExclusive, AfterWorker, WorkerGone
  <1> QED
    BY <1>1, TypeCorrect, Invariance, PTL

\* connect() takes nobody's debt away: a worker it starts after a stop was
\* requested between its check and running_.store(true) is excused.
LEMMA ConnectAnnounce ==
    ASSUME TypeOK, Inv, AnnounceInv, NEW t \in Callers, Connect(t)
    PROVE  AnnounceInv'
  <1> USE ThreadAssumption
      DEF TypeOK, Inv, WhereInv, RequestInv, EndInv, AnnounceInv, CloserOwes,
          WorkerOwes, Excused, GivesUp, Threads, Labels, CallLabels,
          ConnectLabels, CloseLabels, StopLabels, WorkerLabels, AfterFlag,
          BeforeSpawn, LoopLabels, Goto, Step, CallClose, CallRequestStop,
          ThreadMutexFree, flags, activity, native, locals, history
  <1>1. CASE BeginConnect(t)
    BY <1>1 DEF BeginConnect
  <1>2. CASE ConnectCheck(t)
    BY <1>2 DEF ConnectCheck
  <1>3. CASE ConnectInstall(t)
    BY <1>3 DEF ConnectInstall
  <1>4. CASE ConnectPrecheck(t)
    BY <1>4 DEF ConnectPrecheck
  <1>5. CASE ConnectAttempt(t)
    BY <1>5 DEF ConnectAttempt
  <1>6. CASE ConnectCommit(t)
    BY <1>6 DEF ConnectCommit
  <1>7. CASE ConnectSpawn(t)
    BY <1>7 DEF ConnectSpawn, ConnectInv
  <1>8. CASE ConnectSpawnFailed(t)
    BY <1>8 DEF ConnectSpawnFailed
  <1>9. CASE ConnectPostcheck(t)
    BY <1>9 DEF ConnectPostcheck
  <1>10. CASE ConnectAwait(t)
    BY <1>10 DEF ConnectAwait
  <1>11. CASE ConnectOutcome(t)
    BY <1>11 DEF ConnectOutcome
  <1>12. CASE ConnectDecide(t)
    BY <1>12 DEF ConnectDecide
  <1>13. CASE ConnectReap(t)
    BY <1>13 DEF ConnectReap
  <1>14. CASE EndConnect(t)
    BY <1>14 DEF EndConnect
  <1> QED
    BY <1>1, <1>2, <1>3, <1>4, <1>5, <1>6, <1>7, <1>8, <1>9, <1>10, <1>11, <1>12, <1>13, <1>14 DEF Connect

\* The first close() of a session takes over the debt and pays it last.
LEMMA CloseAnnounce ==
    ASSUME TypeOK, Inv, AnnounceInv, NEW t \in Threads, Close(t)
    PROVE  AnnounceInv'
  <1> USE ThreadAssumption
      DEF TypeOK, Inv, WhereInv, RequestInv, EndInv, AnnounceInv, CloserOwes,
          WorkerOwes, Excused, GivesUp, Threads, Labels, CallLabels,
          ConnectLabels, CloseLabels, StopLabels, WorkerLabels, AfterFlag,
          BeforeSpawn, LoopLabels, Goto, Step, CallClose, CallRequestStop,
          ThreadMutexFree, flags, activity, native, locals, history
  <1>1. CASE BeginClose(t)
    BY <1>1 DEF BeginClose
  <1>2. CASE CloseFlag(t)
    BY <1>2 DEF CloseFlag
  <1>3. CASE CloseShutdown(t)
    BY <1>3 DEF CloseShutdown
  <1>4. CASE CloseClaim(t)
    BY <1>4 DEF CloseClaim
  <1>5. CASE CloseJoin(t)
    BY <1>5 DEF CloseJoin
  <1>6. CASE CloseJoined(t)
    BY <1>6 DEF CloseJoined
  <1>7. CASE CloseDrain(t)
    BY <1>7 DEF CloseDrain
  <1>8. CASE CloseDestroy(t)
    BY <1>8 DEF CloseDestroy
  <1>9. CASE CloseNotify(t)
    BY <1>9 DEF CloseNotify
  <1> QED
    BY <1>1, <1>2, <1>3, <1>4, <1>5, <1>6, <1>7, <1>8, <1>9 DEF Close

\* requestStop() announces nothing: a caller's is excused, the worker's is
\* followed by the close callback if there was a session.
LEMMA StopAnnounce ==
    ASSUME TypeOK, Inv, AnnounceInv, NEW t \in Threads, RequestStop(t)
    PROVE  AnnounceInv'
  <1> USE ThreadAssumption
      DEF TypeOK, Inv, WhereInv, RequestInv, EndInv, AnnounceInv, CloserOwes,
          WorkerOwes, Excused, GivesUp, Threads, Labels, CallLabels,
          ConnectLabels, CloseLabels, StopLabels, WorkerLabels, AfterFlag,
          BeforeSpawn, LoopLabels, Goto, Step, CallClose, CallRequestStop,
          ThreadMutexFree, flags, activity, native, locals, history
  <1>1. CASE BeginRequestStop(t)
    BY <1>1 DEF BeginRequestStop
  <1>2. CASE StopRequested(t)
    <2>1. CASE t \in Callers
      BY <1>2, <2>1 DEF StopRequested
    <2>2. CASE t = Worker
      <3>1. ~opened \/ Excused \/ CloserOwes \/ WorkerOwes
        BY <1>2, <2>2 DEF StopRequested
      <3>2. closeRequested' /\ pc' = [pc EXCEPT ![Worker] = "stopRunning"]
        BY <1>2, <2>2 DEF StopRequested
      <3>3. pc[Worker] = "stop" /\ Worker \in Threads
        BY <1>2, <2>2 DEF StopRequested
      <3>4. Excused => Excused'
        BY <1>2 DEF StopRequested
      <3>5. CloserOwes => CloserOwes'
        BY <1>2, <3>2, <3>3 DEF StopRequested
      <3>6. WorkerOwes => WorkerOwes'
        BY <1>2, <3>2, <3>3 DEF StopRequested
      <3>7. ~opened => GivesUp'
        BY <1>2, <3>2, <3>3 DEF StopRequested
      <3>8. Excused' \/ CloserOwes' \/ WorkerOwes' \/ GivesUp'
        BY <3>1, <3>4, <3>5, <3>6, <3>7
      <3>9. UNCHANGED <<connected, running, opened, stopped, back, hadSession>>
        BY <1>2 DEF StopRequested
      <3>10. \A u \in Callers : pc'[u] = pc[u]
        BY <3>2
      <3>11. /\ \A u \in Callers : pc[u] # "spawn"
             /\ \A u \in Callers : pc[u] \in StopLabels => stopped
        BY <3>3 DEF ConnectInv
      <3>12. pc'[Worker] = "stopRunning"
        BY <3>2, <3>3
      <3> HIDE DEF Excused, CloserOwes, WorkerOwes, GivesUp
      <3> QED
        BY <3>2, <3>3, <3>8, <3>9, <3>10, <3>11, <3>12
    <2> QED
      BY <2>1, <2>2
  <1>3. CASE StopRunning(t)
    BY <1>3 DEF StopRunning
  <1>4. CASE StopPeer(t)
    BY <1>4 DEF StopPeer
  <1> QED
    BY <1>1, <1>2, <1>3, <1>4 DEF RequestStop

\* The worker opens a session only while nobody has closed it.
LEMMA WorkerAnnounce ==
    ASSUME TypeOK, Inv, AnnounceInv, RunWorker
    PROVE  AnnounceInv'
  <1> USE ThreadAssumption
      DEF TypeOK, Inv, WhereInv, RequestInv, EndInv, AnnounceInv, CloserOwes,
          WorkerOwes, Excused, GivesUp, Threads, Labels, CallLabels,
          ConnectLabels, CloseLabels, StopLabels, WorkerLabels, AfterFlag,
          BeforeSpawn, LoopLabels, Goto, Step, CallClose, CallRequestStop,
          ThreadMutexFree, flags, activity, native, locals, history
  <1>1. CASE WorkerStart
    BY <1>1 DEF WorkerStart
  <1>2. CASE WorkerLoop
    BY <1>2 DEF WorkerLoop
  <1>3. CASE WorkerReceive
    BY <1>3 DEF WorkerReceive, Deliver
  <1>4. CASE HandleAccepted
    BY <1>4 DEF HandleAccepted
  <1>5. CASE WorkerAccept
    BY <1>5 DEF WorkerAccept
  <1>6. CASE HandleFailure
    BY <1>6 DEF HandleFailure
  <1>7. CASE HandleIgnored
    BY <1>7 DEF HandleIgnored
  <1>8. CASE HandleDisconnect
    BY <1>8 DEF HandleDisconnect
  <1>9. CASE HandleData
    BY <1>9 DEF HandleData
  <1>10. CASE ConnectedCallback
    BY <1>10 DEF ConnectedCallback, RunCallback
  <1>11. CASE DataCallback
    BY <1>11 DEF DataCallback, RunCallback
  <1>12. CASE CloseCallback
    BY <1>12 DEF CloseCallback, RunCallback
  <1>13. CASE WorkerNext
    BY <1>13 DEF WorkerNext
  <1>14. CASE WorkerEnding
    BY <1>14 DEF WorkerEnding
  <1>15. CASE WorkerEndingPeer
    BY <1>15 DEF WorkerEndingPeer
  <1>16. CASE WorkerEndingActive
    BY <1>16 DEF WorkerEndingActive
  <1> QED
    BY <1>1, <1>2, <1>3, <1>4, <1>5, <1>6, <1>7, <1>8, <1>9, <1>10, <1>11, <1>12, <1>13, <1>14, <1>15, <1>16 DEF RunWorker

\* A session whose connected handler ran ends with the close handler, however
\* close(), connect() and the worker race, unless it was stopped by
\* requestStop() or its owner is gone.
THEOREM EndAnnounced == Spec => []SessionEndAnnounced
  <1>1. Init => AnnounceInv
    BY ThreadAssumption
    DEF Init, AnnounceInv, Threads, StopLabels
  <1>2. TypeOK /\ Inv /\ AnnounceInv /\ [Next]_vars => AnnounceInv'
    <2> SUFFICES ASSUME TypeOK, Inv, AnnounceInv, [Next]_vars
                 PROVE  AnnounceInv'
      OBVIOUS
    <2>1. CASE \E t \in Callers : Connect(t)
      BY <2>1, ConnectAnnounce
    <2>2. CASE \E t \in Threads : Close(t) \/ RequestStop(t)
      BY <2>2, CloseAnnounce, StopAnnounce
    <2>3. CASE RunWorker
      BY <2>3, WorkerAnnounce
    <2> USE DEF AnnounceInv, CloserOwes, WorkerOwes, Excused, GivesUp,
                flags, activity, native, locals, history
    <2>4. CASE DropOwner
      BY <2>4 DEF DropOwner
    <2>5. CASE UNCHANGED vars
      BY <2>5 DEF vars
    <2> QED
      BY <2>1, <2>2, <2>3, <2>4, <2>5 DEF Next
  <1>3. TypeOK /\ Inv /\ AnnounceInv => SessionEndAnnounced
    BY ThreadAssumption
    DEF Inv, EndInv, AnnounceInv, CloserOwes, WorkerOwes, Excused, GivesUp,
        SessionEndAnnounced, Threads, AfterFlag, CloseLabels, StopLabels
  <1> QED
    BY <1>1, <1>2, <1>3, TypeCorrect, Invariance, PTL DEF Spec

\* The peer is destroyed only after the worker has left its loop.
THEOREM PeerLifetime == Spec => []PeerOutlivesWorker
  <1>1. TypeOK /\ Inv => PeerOutlivesWorker
    BY DEF Inv, EndInv, PeerOutlivesWorker, LoopLabels
  <1> QED
    BY <1>1, TypeCorrect, Invariance, PTL

\* Thread and peer have an owner at all times (thread_, joinInProgress_ and
\* peer_ of RakNetClient.cpp).
THEOREM Owned == Spec => []Ownership
  <1>1. TypeOK /\ OneJoin /\ PeerOutlivesWorker => Ownership
    BY DEF Ownership
  <1> QED
    BY <1>1, TypeCorrect, JoinedOnce, PeerLifetime, PTL
=============================================================================
