------------------------- MODULE NetworkClientProofs -------------------------
(***************************************************************************)
(* Proofs about NetworkClient.tla, for every set of application threads,   *)
(* every choice of what listeners and the server do, and any depth of      *)
(* nested closes.                                                          *)
(*                                                                         *)
(* None of the three properties is inductive: what a thread may assume     *)
(* after an unlock is in the stack of emitClose frames of every thread.    *)
(* The invariant speaks of a stack through its depth and its outermost     *)
(* frame only, since every other frame is a close() made by a close        *)
(* listener (PlaceInv).                                                    *)
(***************************************************************************)
EXTENDS NetworkClient, TLAPS

AppLabels == {"idle"} \cup PrepareLabels \cup ConnectLabels \cup CloseLabels
               \cup StopLabels
Admitted == CloseLabels \ {"admit"}
AfterStopFlag == {"stopQueue", "commitClose", "take", "rakClose", "rakJoin",
                  "finish", "finishPhase", "release"}
AfterStopQueue == AfterStopFlag \ {"stopQueue"}
AfterListen == {"stopFlag", "stopQueue", "commitClose", "take", "rakClose",
                "rakJoin", "finish"}

\* The frame of a close() called by a close listener.
NestedFrame == [ret |-> "stopFlag", trans |-> TRUE, origin |-> "Public"]

\* The number of frames of t, and the outermost one.
Depth(t) == Len(stack[t])
Base(t) == stack[t][1]
Outermost(t) == Depth(t) = 1

\* Whether the close() that t is in takes the transport along.
Takes(t) == Depth(t) > 1 \/ Base(t).trans

\* Threads run their own code; a thread is in emitClose exactly when it has a
\* frame, and only close listeners nest.
Place(t) ==
    /\ pc[t] \in CloseLabels <=> Depth(t) > 0
    /\ \A i \in 2..Depth(t) : stack[t][i] = NestedFrame
    /\ t \in Apps =>
        /\ pc[t] \in AppLabels /\ prepRet[t] \in {"idle", "decide"}
        /\ Depth(t) > 0 =>
            /\ Base(t).ret \in {"idle", "allow", "recheck", "commit"}
            /\ Base(t).origin = "Public"
    /\ t = Rak =>
        /\ pc[t] \in RakLabels \cup CloseLabels
        /\ Depth(t) > 0 => Base(t).ret \in {"batch", "loop", "statusStore"}
PlaceInv == \A t \in Threads : Place(t)

\* Where t is, or will be when the close() of its listener has returned.
At(t) == IF Depth(t) > 0 THEN Base(t).ret ELSE pc[t]
Prepares(t) ==
    At(t) \in {"auth", "allow", "startQueue", "prepFail", "prepCommit"}
Connects(t) == At(t) \in ConnectLabels \ {"decide", "waitPhase"}

\* Who prepares or connects is named by connectLifecycleOwnerThreadId_.  A
\* close() takes the phase from a preparation, never from a connection; since
\* it has set rakNetStopRequested_ nobody can begin another.
AttemptInv ==
    \A t \in Apps :
        /\ Prepares(t) => /\ owner = t
                          /\ phase = "Preparing" \/ (phase = "Idle" /\ stopReq)
        /\ Connects(t) => owner = t /\ phase = "Connecting"

\* closingThreadId_ names the one thread with an admitted frame, and
\* closingDepth_ counts its admitted frames.
LatchInv ==
    /\ closing = NoThread => depth = 0
    /\ \A t \in Threads :
        /\ pc[t] \in Admitted => closing = t /\ depth = Depth(t)
        /\ pc[t] = "admit" /\ Depth(t) > 1 => closing = t /\ depth = Depth(t) - 1
        /\ closing = t => pc[t] \in CloseLabels
        /\ closing = t /\ pc[t] = "admit" => Depth(t) > 1
        /\ pc[t] \in AfterStopFlag => stopReq

\* After an emission the client is closed, or its emitter is on the way there.
EmitInv ==
    /\ emitted <= 1
    /\ emitted = 1 =>
        \/ stopReq /\ status = "Disconnected"
        \/ \E t \in Threads : /\ closing = t
                              /\ Depth(t) > 1 \/ pc[t] \in AfterListen

\* The transport that is not held any more is being closed or gone.
LinkInv ==
    /\ ~held /\ link \in {"new", "connecting", "up"} =>
        \E t \in Apps : pc[t] = "rakClose"
    /\ ~held /\ pc[Rak] # "off" =>
        \E t \in Apps : pc[t] \in {"rakClose", "rakJoin"}
    /\ \A t \in Apps :
        /\ pc[t] \in {"postInstall", "rakConnect"} =>
            pc[Rak] = "off" /\ link \in {"new", "dead"}
        /\ pc[t] \in {"rakClose", "rakJoin"} => ~held
        /\ pc[t] \in {"finish", "finishPhase", "release"} /\ Takes(t) => ~held

\* What a close() leaves behind: nothing that a thread which was in connect()
\* or prepareConnectLifecycle() meanwhile can undo, but for closed_, which a
\* connect() that overlooked the stop resets and sets again.
QueueShut == stopReq /\ (queueOn => lateQueue)
StatusShut == stopReq /\ status = "Disconnected"
PhaseShut ==
    /\ stopReq /\ phase \notin {"Prepared", "Active"}
    /\ closedFlag \/ \E t \in Apps : pc[t] = "install"
ShutInv ==
    /\ \A t \in Threads :
        /\ pc[t] \in AfterStopQueue => QueueShut
        /\ pc[t] \in {"finishPhase", "release"} => StatusShut
        /\ pc[t] = "release" => PhaseShut
    /\ done =>
        /\ QueueShut /\ StatusShut /\ PhaseShut /\ ~held
        /\ \A t \in Apps : pc[t] \notin {"rakClose", "rakJoin"}

Inv ==
    /\ TypeOK /\ PlaceInv /\ AttemptInv /\ LatchInv /\ EmitInv
    /\ LinkInv /\ ShutInv

-----------------------------------------------------------------------------
(* Stacks.                                                                 *)

\* A frame on top of a stack leaves the frames below it alone.
LEMMA PushedFrame ==
    ASSUME NEW s \in Seq(Frames), NEW f \in Frames
    PROVE  /\ Append(s, f) \in Seq(Frames) /\ Len(Append(s, f)) = Len(s) + 1
           /\ Append(s, f)[Len(s) + 1] = f
           /\ \A i \in 1..Len(s) : Append(s, f)[i] = s[i]
OBVIOUS

\* So does taking the top frame away.
LEMMA PoppedFrame ==
    ASSUME NEW s \in Seq(Frames), Len(s) > 0
    PROVE  /\ SubSeq(s, 1, Len(s) - 1) \in Seq(Frames)
           /\ Len(SubSeq(s, 1, Len(s) - 1)) = Len(s) - 1
           /\ \A i \in 1..(Len(s) - 1) : SubSeq(s, 1, Len(s) - 1)[i] = s[i]
<1>1. Len(s) \in Nat /\ Len(s) - 1 \in Nat /\ Len(s) - 1 <= Len(s)
  OBVIOUS
<1>2. \A i \in 1..(Len(s) - 1) : s[i] \in Frames
  BY <1>1
<1> DEFINE u == [i \in 1..(Len(s) - 1) |-> s[i]]
<1>3. SubSeq(s, 1, Len(s) - 1) = u
  BY <1>1
<1>4. u \in Seq(Frames) /\ Len(u) = Len(s) - 1
  BY <1>1, <1>2
<1> QED BY <1>3, <1>4

\* What a thread is after a call of emitClose and after its return.
Pushed(t, f) ==
    /\ pc' = [pc EXCEPT ![t] = "admit"]
    /\ stack' \in [Threads -> Seq(Frames)]
    /\ \A u \in Threads : u # t => stack'[u] = stack[u]
    /\ Len(stack'[t]) = Len(stack[t]) + 1
    /\ stack'[t][Len(stack[t]) + 1] = f
    /\ \A i \in 1..Len(stack[t]) : stack'[t][i] = stack[t][i]
Popped(t) ==
    /\ pc' = [pc EXCEPT ![t] = IF Depth(t) = 1 THEN Base(t).ret ELSE "stopFlag"]
    /\ stack' \in [Threads -> Seq(Frames)]
    /\ \A u \in Threads : u # t => stack'[u] = stack[u]
    /\ Len(stack'[t]) = Len(stack[t]) - 1
    /\ \A i \in 1..(Len(stack[t]) - 1) : stack'[t][i] = stack[t][i]

\* emitClose() is called.
LEMMA CallPushes ==
    ASSUME TypeOK, NEW t \in Threads, NEW r \in Labels, NEW b \in BOOLEAN,
           NEW o \in {"Public", "Transport"}, EmitClose(t, r, b, o)
    PROVE  Pushed(t, [ret |-> r, trans |-> b, origin |-> o])
<1> DEFINE f == [ret |-> r, trans |-> b, origin |-> o]
<1>1. f \in Frames
  BY DEF Frames
<1> HIDE DEF f
<1>2. stack \in [Threads -> Seq(Frames)]
  BY DEF TypeOK
<1>3. stack[t] \in Seq(Frames)
  BY <1>2
<1>4. /\ Append(stack[t], f) \in Seq(Frames)
      /\ Len(Append(stack[t], f)) = Len(stack[t]) + 1
      /\ Append(stack[t], f)[Len(stack[t]) + 1] = f
      /\ \A i \in 1..Len(stack[t]) : Append(stack[t], f)[i] = stack[t][i]
  BY <1>1, <1>3, PushedFrame
<1>5. stack' = [stack EXCEPT ![t] = Append(stack[t], f)]
  BY DEF EmitClose, f
<1>6. stack' \in [Threads -> Seq(Frames)]
  BY <1>2, <1>4, <1>5
<1>7. stack'[t] = Append(stack[t], f)
  BY <1>2, <1>5
<1>8. \A u \in Threads : u # t => stack'[u] = stack[u]
  BY <1>2, <1>5
<1>9. pc' = [pc EXCEPT ![t] = "admit"]
  BY DEF EmitClose, Goto
<1>10. Pushed(t, f)
  BY <1>4, <1>6, <1>7, <1>8, <1>9 DEF Pushed
<1> QED BY <1>10 DEF f

\* The frame on top is the outermost one or a listener's.
LEMMA TopFrame ==
    ASSUME TypeOK, PlaceInv, NEW t \in Threads, Depth(t) > 0
    PROVE  /\ Frame(t) = IF Depth(t) = 1 THEN Base(t) ELSE NestedFrame
           /\ Frame(t).ret = IF Depth(t) = 1 THEN Base(t).ret ELSE "stopFlag"
           /\ Frame(t).trans <=> Takes(t)
           /\ Base(t) \in Frames /\ Depth(t) \in Nat
<1>1. stack[t] \in Seq(Frames)
  BY DEF TypeOK
<1>2. Depth(t) \in Nat /\ Base(t) \in Frames
  BY <1>1 DEF Depth, Base
<1>3. CASE Depth(t) = 1
  BY <1>2, <1>3 DEF Frame, Depth, Base, Takes, Frames
<1>4. CASE Depth(t) # 1
  <2>1. Frame(t) = NestedFrame
    <3>1. Depth(t) \in 2..Depth(t)
      BY <1>2, <1>4
    <3>2. \A i \in 2..Depth(t) : stack[t][i] = NestedFrame
      BY DEF PlaceInv, Place
    <3> QED BY <3>1, <3>2 DEF Frame, Depth
  <2> QED BY <1>2, <1>4, <2>1 DEF NestedFrame, Takes
<1> QED BY <1>3, <1>4

\* emitClose() returns.
LEMMA ReturnPops ==
    ASSUME TypeOK, PlaceInv, NEW t \in Threads, Depth(t) > 0, Return(t)
    PROVE  Popped(t)
<1>1. stack \in [Threads -> Seq(Frames)] /\ stack[t] \in Seq(Frames)
  BY DEF TypeOK
<1>2. stack' = [stack EXCEPT ![t] = SubSeq(stack[t], 1, Len(stack[t]) - 1)]
  BY DEF Return
<1>3. pc' = [pc EXCEPT ![t] = Frame(t).ret]
  BY DEF Return, Goto
<1>4. /\ SubSeq(stack[t], 1, Len(stack[t]) - 1) \in Seq(Frames)
      /\ Len(SubSeq(stack[t], 1, Len(stack[t]) - 1)) = Len(stack[t]) - 1
      /\ \A i \in 1..(Len(stack[t]) - 1) :
            SubSeq(stack[t], 1, Len(stack[t]) - 1)[i] = stack[t][i]
  BY <1>1, PoppedFrame DEF Depth
<1>5. stack'[t] = SubSeq(stack[t], 1, Len(stack[t]) - 1)
  BY <1>1, <1>2
<1>6. stack' \in [Threads -> Seq(Frames)]
  BY <1>1, <1>2, <1>4
<1>7. \A u \in Threads : u # t => stack'[u] = stack[u]
  BY <1>1, <1>2
<1>8. Frame(t).ret = IF Depth(t) = 1 THEN Base(t).ret ELSE "stopFlag"
  BY TopFrame
<1> QED BY <1>3, <1>4, <1>5, <1>6, <1>7, <1>8 DEF Popped

-----------------------------------------------------------------------------
(* TypeOK and PlaceInv.                                                    *)

\* A thread that goes on inside emitClose, or outside it.
LEMMA PlaceMoved ==
    ASSUME TypeOK, PlaceInv, NEW t \in Threads, NEW l \in Labels,
           pc' = [pc EXCEPT ![t] = l], UNCHANGED stack,
           \A u \in Threads : prepRet'[u] \in {prepRet[u], "idle", "decide"},
           l \in CloseLabels <=> pc[t] \in CloseLabels,
           t \in Apps => l \in AppLabels,
           t = Rak => l \in RakLabels \cup CloseLabels
    PROVE  PlaceInv'
<1> SUFFICES ASSUME NEW u \in Threads PROVE Place(u)'
  BY DEF PlaceInv
<1>1. Place(u) /\ Place(t)
  BY DEF PlaceInv
<1>2. pc'[u] = IF u = t THEN l ELSE pc[u]
  BY DEF TypeOK
<1>3. prepRet'[u] \in {prepRet[u], "idle", "decide"}
  OBVIOUS
<1> QED BY <1>1, <1>2, <1>3 DEF Place, Depth, Base

\* A thread that calls emitClose.
LEMMA PlacePushed ==
    ASSUME TypeOK, PlaceInv, NEW t \in Threads, NEW f, Pushed(t, f),
           \A u \in Threads : prepRet'[u] \in {prepRet[u], "idle", "decide"},
           \/ Depth(t) > 0 /\ f = NestedFrame
           \/ /\ Depth(t) = 0
              /\ t \in Apps => /\ f.ret \in {"idle", "allow", "recheck", "commit"}
                               /\ f.origin = "Public"
              /\ t = Rak => f.ret \in {"batch", "loop", "statusStore"}
    PROVE  PlaceInv'
<1> SUFFICES ASSUME NEW u \in Threads PROVE Place(u)'
  BY DEF PlaceInv
<1>1. Place(u) /\ Place(t)
  BY DEF PlaceInv
<1>0. prepRet'[u] \in {prepRet[u], "idle", "decide"}
  OBVIOUS
<1>2. CASE u # t
  <2>1. pc'[u] = pc[u] /\ stack'[u] = stack[u]
    BY <1>2 DEF TypeOK, Pushed
  <2> QED BY <1>0, <1>1, <2>1 DEF Place, Depth, Base
<1>3. CASE u = t
  <2>1. pc'[t] = "admit"
    BY DEF TypeOK, Pushed
  <2>2. Len(stack[t]) \in Nat /\ Len(stack'[t]) = Len(stack[t]) + 1
    BY DEF TypeOK, Pushed
  <2>3. /\ stack'[t][Len(stack[t]) + 1] = f
        /\ \A i \in 1..Len(stack[t]) : stack'[t][i] = stack[t][i]
    BY DEF Pushed
  <2>4. CASE Depth(t) > 0
    <3>1. f = NestedFrame
      BY <2>4
    <3>2. \A i \in 2..Len(stack'[t]) : stack'[t][i] = NestedFrame
      <4> TAKE i \in 2..Len(stack'[t])
      <4>1. \A j \in 2..Len(stack[t]) : stack[t][j] = NestedFrame
        BY <1>1 DEF Place, Depth
      <4>2. \/ i = Len(stack[t]) + 1
            \/ i \in 2..Len(stack[t]) /\ i \in 1..Len(stack[t])
        BY <2>2
      <4> QED BY <2>3, <3>1, <4>1, <4>2
    <3>3. stack'[t][1] = stack[t][1]
      BY <2>2, <2>3, <2>4 DEF Depth
    <3> QED
      BY <1>0, <1>1, <1>3, <2>1, <2>2, <2>4, <3>2, <3>3
         DEF Place, Depth, Base, AppLabels, CloseLabels
  <2>5. CASE Depth(t) = 0
    <3>1. stack'[t][1] = f /\ Len(stack'[t]) = 1
      BY <2>2, <2>3, <2>5 DEF Depth
    <3>2. \A i \in 2..Len(stack'[t]) : FALSE
      BY <3>1
    <3> QED
      BY <1>0, <1>1, <1>3, <2>1, <2>5, <3>1, <3>2
         DEF Place, Depth, Base, AppLabels, CloseLabels
  <2> QED BY <2>2, <2>4, <2>5 DEF Depth
<1> QED BY <1>2, <1>3

\* A thread that returns from emitClose.
LEMMA PlacePopped ==
    ASSUME TypeOK, PlaceInv, NEW t \in Threads, Depth(t) > 0, Popped(t),
           UNCHANGED prepRet
    PROVE  PlaceInv'
<1> SUFFICES ASSUME NEW u \in Threads PROVE Place(u)'
  BY DEF PlaceInv
<1>1. Place(u) /\ Place(t)
  BY DEF PlaceInv
<1>2. CASE u # t
  <2>1. pc'[u] = pc[u] /\ stack'[u] = stack[u] /\ prepRet'[u] = prepRet[u]
    BY <1>2 DEF TypeOK, Popped
  <2> QED BY <1>1, <2>1 DEF Place, Depth, Base
<1>3. CASE u = t
  <2>1. pc'[t] = IF Depth(t) = 1 THEN Base(t).ret ELSE "stopFlag"
    BY DEF TypeOK, Popped
  <2>2. Len(stack[t]) \in Nat /\ Len(stack'[t]) = Len(stack[t]) - 1
    BY DEF TypeOK, Popped
  <2>3. \A i \in 1..(Len(stack[t]) - 1) : stack'[t][i] = stack[t][i]
    BY DEF Popped
  <2>4. CASE Depth(t) > 1
    <3>1. \A i \in 2..Len(stack'[t]) : stack'[t][i] = NestedFrame
      BY <1>1, <2>2, <2>3, SMTT(30) DEF Place, Depth
    <3>2. stack'[t][1] = stack[t][1]
      BY <2>2, <2>3, <2>4 DEF Depth
    <3> QED
      BY <1>1, <1>3, <2>1, <2>2, <2>4, <3>1, <3>2
         DEF Place, Depth, Base, AppLabels, CloseLabels
  <2>5. CASE Depth(t) = 1
    <3>1. Len(stack'[t]) = 0 /\ \A i \in 2..Len(stack'[t]) : FALSE
      BY <2>2, <2>5 DEF Depth
    <3>2. t \in Apps => Base(t).ret \in {"idle", "allow", "recheck", "commit"}
      BY <1>1, <2>5 DEF Place
    <3>3. t = Rak => Base(t).ret \in {"batch", "loop", "statusStore"}
      BY <1>1, <2>5 DEF Place
    <3>4. t \in Apps \/ t = Rak
      BY DEF Threads
    <3> QED
      BY <1>1, <1>3, <2>1, <2>5, <3>1, <3>2, <3>3, <3>4
         DEF Place, Depth, Base, AppLabels, PrepareLabels, ConnectLabels,
             CloseLabels, RakLabels
  <2>6. Depth(t) > 1 \/ Depth(t) = 1
    <3>1. Depth(t) \in Nat /\ Depth(t) > 0
      BY <2>2 DEF Depth
    <3> QED BY <3>1
  <2> QED BY <2>4, <2>5, <2>6
<1> QED BY <1>2, <1>3

\* A step of an application thread outside emitClose: it goes on, it starts
\* the worker, or it calls emitClose.
AppMoves(t) ==
    /\ UNCHANGED stack
    /\ \E l \in AppLabels \ CloseLabels : pc' = [pc EXCEPT ![t] = l]
AppStarts(t) ==
    /\ UNCHANGED stack /\ pc[Rak] = "off"
    /\ pc' = [pc EXCEPT ![t] = "rakWait", ![Rak] = "loop"]
AppCalls(t) ==
    \E f \in Frames : /\ Pushed(t, f) /\ f.origin = "Public"
                      /\ f.ret \in {"idle", "allow", "recheck", "commit"}
AppKind(t) ==
    /\ pc[t] \notin CloseLabels
    /\ AppMoves(t) \/ AppStarts(t) \/ AppCalls(t)

\* A step of the worker outside emitClose.
RakMoves ==
    /\ UNCHANGED stack
    /\ \E l \in RakLabels : pc' = [pc EXCEPT ![Rak] = l]
RakCalls ==
    \E f \in Frames : Pushed(Rak, f) /\ f.ret \in {"batch", "loop", "statusStore"}
RakKind ==
    /\ pc[Rak] \notin CloseLabels
    /\ RakMoves \/ RakCalls

\* A listener of an application thread.
LEMMA AppListener ==
    ASSUME TypeOK, NEW t \in Apps, NEW r \in {"allow", "recheck", "commit"},
           Listener(t, r)
    PROVE  AppMoves(t) \/ AppCalls(t)
<1>1. t \in Threads /\ r \in Labels /\ r \in AppLabels \ CloseLabels
  BY DEF Threads, Labels, AppLabels, PrepareLabels, ConnectLabels, CloseLabels
<1>2. CASE Goto(t, r) /\ UNCHANGED stack
  BY <1>1, <1>2 DEF Goto, AppMoves
<1>3. CASE EmitClose(t, r, TRUE, "Public")
  <2> DEFINE f == [ret |-> r, trans |-> TRUE, origin |-> "Public"]
  <2>1. Pushed(t, f)
    BY <1>1, <1>3, CallPushes
  <2>2. f \in Frames /\ f.ret = r /\ f.origin = "Public"
    BY <1>1 DEF Frames
  <2> HIDE DEF f
  <2> QED BY <2>1, <2>2 DEF AppCalls
<1> QED BY <1>2, <1>3 DEF Listener

\* Outside emitClose an application thread moves, starts the worker or calls.
LEMMA AppSteps ==
    ASSUME TypeOK, PlaceInv, LinkInv, NEW t \in Apps,
           \/ Prepare(t) \/ Connect(t) \/ BeginClose(t) \/ BeginRequestStop(t)
           \/ RequestStopLink(t)
    PROVE  AppKind(t)
<1>0. t \in Threads /\ prepRet[t] \in {"idle", "decide"}
  BY DEF PlaceInv, Place, Threads
<1> USE <1>0 DEF AppKind
<1>1. CASE BeginPrepare(t)
  BY <1>1
     DEF BeginPrepare, AppMoves, AppStarts, Goto, Step, AppLabels,
         PrepareLabels, ConnectLabels, CloseLabels, StopLabels
<1>2. CASE PrepareAdmit(t)
  BY <1>2
     DEF PrepareAdmit, AppMoves, AppStarts, Goto, Step, AppLabels,
         PrepareLabels, ConnectLabels, CloseLabels, StopLabels
<1>3. CASE PrepareAuth(t)
  <2>1. pc[t] \notin CloseLabels
    BY <1>3 DEF PrepareAuth, CloseLabels
  <2>2. CASE Listener(t, "allow")
    BY <2>1, <2>2, AppListener
  <2>3. CASE ~(Listener(t, "allow"))
    BY <1>3, <2>1, <2>3
       DEF PrepareAuth, AppMoves, Goto, AppLabels, PrepareLabels,
           ConnectLabels, CloseLabels
  <2> QED BY <2>2, <2>3
<1>4. CASE PrepareAllow(t)
  BY <1>4
     DEF PrepareAllow, AppMoves, AppStarts, Goto, Step, AppLabels,
         PrepareLabels, ConnectLabels, CloseLabels, StopLabels
<1>5. CASE PrepareStartQueue(t)
  BY <1>5
     DEF PrepareStartQueue, AppMoves, AppStarts, Goto, Step, AppLabels,
         PrepareLabels, ConnectLabels, CloseLabels, StopLabels
<1>6. CASE PrepareFail(t)
  BY <1>6
     DEF PrepareFail, AppMoves, AppStarts, Goto, Step, AppLabels,
         PrepareLabels, ConnectLabels, CloseLabels, StopLabels
<1>7. CASE PrepareCommit(t)
  BY <1>7
     DEF PrepareCommit, AppMoves, AppStarts, Goto, Step, AppLabels,
         PrepareLabels, ConnectLabels, CloseLabels, StopLabels
<1>8. CASE PrepareStop(t)
  BY <1>8
     DEF PrepareStop, AppMoves, AppStarts, Goto, Step, AppLabels,
         PrepareLabels, ConnectLabels, CloseLabels, StopLabels
<1>9. CASE BeginConnect(t)
  BY <1>9
     DEF BeginConnect, AppMoves, AppStarts, Goto, Step, AppLabels,
         PrepareLabels, ConnectLabels, CloseLabels, StopLabels
<1>10. CASE ConnectDecide(t)
  BY <1>10
     DEF ConnectDecide, AppMoves, AppStarts, Goto, Step, AppLabels,
         PrepareLabels, ConnectLabels, CloseLabels, StopLabels
<1>11. CASE ConnectWaitPhase(t)
  BY <1>11
     DEF ConnectWaitPhase, AppMoves, AppStarts, Goto, Step, AppLabels,
         PrepareLabels, ConnectLabels, CloseLabels, StopLabels
<1>12. CASE ConnectResume(t)
  BY <1>12
     DEF ConnectResume, AppMoves, AppStarts, Goto, Step, AppLabels,
         PrepareLabels, ConnectLabels, CloseLabels, StopLabels
<1>13. CASE ConnectLogin(t)
  <2>1. pc[t] \notin CloseLabels
    BY <1>13 DEF ConnectLogin, CloseLabels
  <2>2. CASE Listener(t, "recheck") \/ Listener(t, "commit")
    BY <2>1, <2>2, AppListener
  <2>3. CASE ~(Listener(t, "recheck") \/ Listener(t, "commit"))
    BY <1>13, <2>1, <2>3
       DEF ConnectLogin, AppMoves, Goto, AppLabels, PrepareLabels,
           ConnectLabels, CloseLabels
  <2> QED BY <2>2, <2>3
<1>14. CASE ConnectRecheck(t)
  BY <1>14
     DEF ConnectRecheck, AppMoves, AppStarts, Goto, Step, AppLabels,
         PrepareLabels, ConnectLabels, CloseLabels, StopLabels
<1>15. CASE ConnectReset(t)
  BY <1>15
     DEF ConnectReset, AppMoves, AppStarts, Goto, Step, AppLabels,
         PrepareLabels, ConnectLabels, CloseLabels, StopLabels
<1>16. CASE ConnectInstall(t)
  BY <1>16
     DEF ConnectInstall, AppMoves, AppStarts, Goto, Step, AppLabels,
         PrepareLabels, ConnectLabels, CloseLabels, StopLabels
<1>17. CASE ConnectPostInstall(t)
  BY <1>17
     DEF ConnectPostInstall, AppMoves, AppStarts, Goto, Step, AppLabels,
         PrepareLabels, ConnectLabels, CloseLabels, StopLabels
<1>18. CASE ConnectRak(t)
  BY <1>18
     DEF ConnectRak, LinkInv, AppMoves, AppStarts, Goto, Step, AppLabels,
         PrepareLabels, ConnectLabels, CloseLabels, StopLabels
<1>19. CASE ConnectRakWait(t)
  BY <1>19
     DEF ConnectRakWait, AppMoves, AppStarts, Goto, Step, AppLabels,
         PrepareLabels, ConnectLabels, CloseLabels, StopLabels
<1>20. CASE ConnectRakReap(t)
  BY <1>20
     DEF ConnectRakReap, AppMoves, AppStarts, Goto, Step, AppLabels,
         PrepareLabels, ConnectLabels, CloseLabels, StopLabels
<1>21. CASE ConnectFailed(t)
  BY <1>21
     DEF ConnectFailed, AppMoves, AppStarts, Goto, Step, AppLabels,
         PrepareLabels, ConnectLabels, CloseLabels, StopLabels
<1>22. CASE ConnectFailedStatus(t)
  <2>1. pc[t] \notin CloseLabels
    BY <1>22 DEF ConnectFailedStatus, CloseLabels
  <2>2. CASE Listener(t, "commit")
    BY <2>1, <2>2, AppListener
  <2>3. CASE ~(Listener(t, "commit"))
    BY <1>22, <2>1, <2>3
       DEF ConnectFailedStatus, AppMoves, Goto, AppLabels, PrepareLabels,
           ConnectLabels, CloseLabels
  <2> QED BY <2>2, <2>3
<1>23. CASE ConnectCommit(t)
  BY <1>23
     DEF ConnectCommit, AppMoves, AppStarts, Goto, Step, AppLabels,
         PrepareLabels, ConnectLabels, CloseLabels, StopLabels
<1>24. CASE BeginClose(t)
  <2>1. PICK b \in BOOLEAN : EmitClose(t, "idle", b, "Public")
    BY <1>24 DEF BeginClose
  <2> DEFINE f == [ret |-> "idle", trans |-> b, origin |-> "Public"]
  <2>2. "idle" \in Labels
    BY DEF Labels
  <2>3. Pushed(t, f)
    BY <2>1, <2>2, CallPushes
  <2>4. f \in Frames /\ f.ret = "idle" /\ f.origin = "Public"
    BY <2>2 DEF Frames
  <2>5. pc[t] \notin CloseLabels
    BY <1>24 DEF BeginClose, CloseLabels
  <2> HIDE DEF f
  <2> QED BY <2>3, <2>4, <2>5 DEF AppCalls
<1>25. CASE BeginRequestStop(t)
  BY <1>25
     DEF BeginRequestStop, AppMoves, AppStarts, Goto, Step, AppLabels,
         PrepareLabels, ConnectLabels, CloseLabels, StopLabels
<1>26. CASE RequestStopLink(t)
  BY <1>26
     DEF RequestStopLink, AppMoves, AppStarts, Goto, Step, AppLabels,
         PrepareLabels, ConnectLabels, CloseLabels, StopLabels
<1> QED
  BY <1>1, <1>2, <1>3, <1>4, <1>5, <1>6, <1>7, <1>8, <1>9, <1>10, <1>11, <1>12,
     <1>13, <1>14, <1>15, <1>16, <1>17, <1>18, <1>19, <1>20, <1>21, <1>22,
     <1>23, <1>24, <1>25, <1>26 DEF Prepare, Connect

\* Outside emitClose the worker moves or calls.
LEMMA RakSteps ==
    ASSUME TypeOK, PlaceInv, RunRak
    PROVE  RakKind
<1>0. Rak \in Threads
  BY DEF Threads
<1> USE <1>0 DEF RakKind
<1>1. CASE RakAccepted
  BY <1>1 DEF RakAccepted, RakMoves, Goto, Step, RakLabels, CloseLabels
<1>2. CASE RakPayload
  BY <1>2 DEF RakPayload, RakMoves, Goto, Step, RakLabels, CloseLabels
<1>3. CASE RakPacket
  <2>1. pc[Rak] \notin CloseLabels
    BY <1>3 DEF RakPacket, CloseLabels
  <2>2. CASE EmitClose(Rak, "batch", TRUE, "Public")
    <3> DEFINE f == [ret |-> "batch", trans |-> TRUE, origin |-> "Public"]
    <3>1. "batch" \in Labels
      BY DEF Labels, RakLabels
    <3>2. Pushed(Rak, f)
      BY <2>2, <3>1, CallPushes
    <3>3. f \in Frames /\ f.ret = "batch"
      BY <3>1 DEF Frames
    <3> HIDE DEF f
    <3> QED BY <2>1, <3>2, <3>3 DEF RakCalls
  <2>3. CASE ~EmitClose(Rak, "batch", TRUE, "Public")
    BY <1>3, <2>1, <2>3 DEF RakPacket, RakMoves, Goto, RakLabels
  <2> QED BY <2>2, <2>3
<1>4. CASE RakStatusEmit
  <2>1. pc[Rak] \notin CloseLabels
    BY <1>4 DEF RakStatusEmit, CloseLabels
  <2>2. CASE EmitClose(Rak, "statusStore", TRUE, "Public")
    <3> DEFINE f == [ret |-> "statusStore", trans |-> TRUE, origin |-> "Public"]
    <3>1. "statusStore" \in Labels
      BY DEF Labels, RakLabels
    <3>2. Pushed(Rak, f)
      BY <2>2, <3>1, CallPushes
    <3>3. f \in Frames /\ f.ret = "statusStore"
      BY <3>1 DEF Frames
    <3> HIDE DEF f
    <3> QED BY <2>1, <3>2, <3>3 DEF RakCalls
  <2>3. CASE ~EmitClose(Rak, "statusStore", TRUE, "Public")
    BY <1>4, <2>1, <2>3 DEF RakStatusEmit, Listener, RakMoves, Goto, RakLabels
  <2> QED BY <2>2, <2>3
<1>5. CASE RakStatusStore
  BY <1>5 DEF RakStatusStore, RakMoves, Goto, Step, RakLabels, CloseLabels
<1>6. CASE RakLost
  <2>1. pc[Rak] \notin CloseLabels
    BY <1>6 DEF RakLost, CloseLabels
  <2>2. CASE EmitClose(Rak, "loop", FALSE, "Transport")
    <3> DEFINE f == [ret |-> "loop", trans |-> FALSE, origin |-> "Transport"]
    <3>1. "loop" \in Labels
      BY DEF Labels, RakLabels
    <3>2. Pushed(Rak, f)
      BY <2>2, <3>1, CallPushes
    <3>3. f \in Frames /\ f.ret = "loop"
      BY <3>1 DEF Frames
    <3> HIDE DEF f
    <3> QED BY <2>1, <3>2, <3>3 DEF RakCalls
  <2>3. CASE ~EmitClose(Rak, "loop", FALSE, "Transport")
    <3>1. pc' = pc /\ UNCHANGED stack /\ pc[Rak] = "loop"
      BY <1>6, <2>3 DEF RakLost
    <3>2. pc' = [pc EXCEPT ![Rak] = "loop"]
      BY <3>1 DEF TypeOK
    <3> QED BY <2>1, <3>1, <3>2 DEF RakMoves, RakLabels
  <2> QED BY <2>2, <2>3
<1>7. CASE RakExit
  BY <1>7 DEF RakExit, RakMoves, Goto, Step, RakLabels, CloseLabels
<1> QED
  BY <1>1, <1>2, <1>3, <1>4, <1>5, <1>6, <1>7 DEF RunRak

\* A step of emitClose: the thread goes on in it, a close listener calls
\* close(), or the call returns.
CloseMoves(t) ==
    /\ UNCHANGED stack
    /\ \E l \in Admitted : pc' = [pc EXCEPT ![t] = l]
CloseKind(t) ==
    /\ pc[t] \in CloseLabels
    /\ CloseMoves(t) \/ Pushed(t, NestedFrame) \/ Popped(t)

\* A thread with a frame has one.
LEMMA InClose ==
    ASSUME PlaceInv, NEW t \in Threads, pc[t] \in CloseLabels
    PROVE  Depth(t) > 0
BY DEF PlaceInv, Place

\* The steps of emitClose are of these kinds.
LEMMA CloseSteps ==
    ASSUME TypeOK, PlaceInv, NEW t \in Threads, Close(t)
    PROVE  CloseKind(t)
<1> USE DEF CloseKind
<1>1. CASE CloseAdmit(t)
  <2>1. pc[t] \in CloseLabels
    BY <1>1 DEF CloseAdmit, CloseLabels
  <2>2. CASE Return(t)
    BY <2>1, <2>2, InClose, ReturnPops
  <2>3. CASE ~Return(t)
    BY <1>1, <2>1, <2>3 DEF CloseAdmit, CloseMoves, Goto, CloseLabels, Admitted
  <2> QED BY <2>2, <2>3
<1>2. CASE CloseListen(t)
  <2>1. pc[t] \in CloseLabels
    BY <1>2 DEF CloseListen, CloseLabels
  <2>2. CASE EmitClose(t, "stopFlag", TRUE, "Public")
    <3>1. "stopFlag" \in Labels
      BY DEF Labels, CloseLabels
    <3>2. Pushed(t, NestedFrame)
      BY <2>2, <3>1, CallPushes DEF NestedFrame
    <3> QED BY <2>1, <3>2
  <2>3. CASE ~EmitClose(t, "stopFlag", TRUE, "Public")
    BY <1>2, <2>1, <2>3
       DEF CloseListen, CloseMoves, Goto, CloseLabels, Admitted
  <2> QED BY <2>2, <2>3
<1>3. CASE CloseStopFlag(t)
  BY <1>3 DEF CloseStopFlag, CloseMoves, Goto, Step, CloseLabels, Admitted
<1>4. CASE CloseStopQueue(t)
  BY <1>4 DEF CloseStopQueue, CloseMoves, Goto, Step, CloseLabels, Admitted
<1>5. CASE CloseCommit(t)
  BY <1>5 DEF CloseCommit, CloseMoves, Goto, Step, CloseLabels, Admitted
<1>6. CASE CloseTake(t)
  BY <1>6 DEF CloseTake, CloseMoves, Goto, Step, CloseLabels, Admitted
<1>7. CASE CloseRak(t)
  BY <1>7 DEF CloseRak, CloseMoves, Goto, Step, CloseLabels, Admitted
<1>8. CASE CloseRakJoin(t)
  BY <1>8 DEF CloseRakJoin, CloseMoves, Goto, Step, CloseLabels, Admitted
<1>9. CASE CloseFinish(t)
  BY <1>9 DEF CloseFinish, CloseMoves, Goto, Step, CloseLabels, Admitted
<1>10. CASE CloseFinishPhase(t)
  BY <1>10 DEF CloseFinishPhase, CloseMoves, Goto, Step, CloseLabels, Admitted
<1>11. CASE CloseRelease(t)
  <2>1. pc[t] \in CloseLabels
    BY <1>11 DEF CloseRelease, CloseLabels
  <2>2. CASE Return(t)
    BY <2>1, <2>2, InClose, ReturnPops
  <2>3. CASE ~Return(t)
    BY <1>11, <2>1, <2>3
       DEF CloseRelease, CloseMoves, Goto, CloseLabels, Admitted
  <2> QED BY <2>2, <2>3
<1> QED
  BY <1>1, <1>2, <1>3, <1>4, <1>5, <1>6, <1>7, <1>8, <1>9, <1>10, <1>11
     DEF Close

\* Whatever kind of step it is, the threads stay where they belong.
LEMMA AppPlace ==
    ASSUME TypeOK, PlaceInv, NEW t \in Apps, AppKind(t),
           \A u \in Threads : prepRet'[u] \in {prepRet[u], "idle", "decide"}
    PROVE  PlaceInv' /\ pc' \in [Threads -> Labels]
             /\ stack' \in [Threads -> Seq(Frames)]
<1>1. t \in Threads /\ t # Rak /\ Rak \in Threads
  BY ThreadAssumption DEF Threads
<1>2. pc \in [Threads -> Labels] /\ stack \in [Threads -> Seq(Frames)]
  BY DEF TypeOK
<1>3. Depth(t) = 0
  BY <1>1, <1>2 DEF AppKind, PlaceInv, Place, Depth
<1>4. CASE AppMoves(t)
  <2>1. PICK l \in AppLabels \ CloseLabels : pc' = [pc EXCEPT ![t] = l]
    BY <1>4 DEF AppMoves
  <2>2. l \in Labels
    BY DEF AppLabels, Labels
  <2>3. UNCHANGED stack
    BY <1>4 DEF AppMoves
  <2>4. pc[t] \notin CloseLabels
    BY DEF AppKind
  <2>5. PlaceInv'
    BY <1>1, <2>1, <2>2, <2>3, <2>4, PlaceMoved
  <2> QED BY <1>2, <2>1, <2>2, <2>3, <2>5
<1>5. CASE AppStarts(t)
  <2>1. pc' = [pc EXCEPT ![t] = "rakWait", ![Rak] = "loop"] /\ UNCHANGED stack
        /\ pc[Rak] = "off" /\ pc[t] \notin CloseLabels
    BY <1>5 DEF AppStarts, AppKind
  <2>2. "rakWait" \in Labels /\ "loop" \in Labels
    BY DEF Labels, ConnectLabels, RakLabels
  <2>3. pc' \in [Threads -> Labels]
    BY <1>2, <2>1, <2>2
  <2>4. ASSUME NEW u \in Threads PROVE Place(u)'
    <3>1. pc'[u] = IF u = Rak THEN "loop" ELSE IF u = t THEN "rakWait" ELSE pc[u]
      BY <1>1, <1>2, <2>1
    <3>2. Place(u)
      BY DEF PlaceInv
    <3>3. prepRet'[u] \in {prepRet[u], "idle", "decide"}
      OBVIOUS
    <3> QED
      BY <1>1, <2>1, <3>1, <3>2, <3>3, ThreadAssumption
         DEF Place, Depth, Base, AppLabels, ConnectLabels, CloseLabels,
             RakLabels
  <2> QED BY <1>2, <2>1, <2>3, <2>4 DEF PlaceInv
<1>6. CASE AppCalls(t)
  <2>1. PICK f \in Frames : /\ Pushed(t, f) /\ f.origin = "Public"
                            /\ f.ret \in {"idle", "allow", "recheck", "commit"}
    BY <1>6 DEF AppCalls
  <2>2. PlaceInv'
    BY <1>1, <1>3, <2>1, PlacePushed
  <2>3. "admit" \in Labels
    BY DEF Labels, CloseLabels
  <2>4. pc' = [pc EXCEPT ![t] = "admit"] /\ stack' \in [Threads -> Seq(Frames)]
    BY <2>1 DEF Pushed
  <2> QED BY <1>2, <2>2, <2>3, <2>4
<1> QED BY <1>4, <1>5, <1>6 DEF AppKind

\* The same for the worker.
LEMMA RakPlace ==
    ASSUME TypeOK, PlaceInv, RakKind, UNCHANGED prepRet
    PROVE  PlaceInv' /\ pc' \in [Threads -> Labels]
             /\ stack' \in [Threads -> Seq(Frames)]
<1>1. Rak \in Threads /\ Rak \notin Apps
  BY ThreadAssumption DEF Threads
<1>2. pc \in [Threads -> Labels] /\ stack \in [Threads -> Seq(Frames)]
  BY DEF TypeOK
<1>3. Depth(Rak) = 0
  BY <1>1, <1>2 DEF RakKind, PlaceInv, Place, Depth
<1>4. CASE RakMoves
  <2>1. PICK l \in RakLabels : pc' = [pc EXCEPT ![Rak] = l]
    BY <1>4 DEF RakMoves
  <2>2. l \in Labels /\ l \notin CloseLabels
    BY DEF RakLabels, CloseLabels, Labels
  <2>3. UNCHANGED stack
    BY <1>4 DEF RakMoves
  <2>4. pc[Rak] \notin CloseLabels
    BY DEF RakKind
  <2>5. \A u \in Threads : prepRet'[u] \in {prepRet[u], "idle", "decide"}
    OBVIOUS
  <2>6. PlaceInv'
    BY <1>1, <2>1, <2>2, <2>3, <2>4, <2>5, PlaceMoved
  <2> QED BY <1>2, <2>1, <2>2, <2>3, <2>6
<1>5. CASE RakCalls
  <2>1. PICK f \in Frames : /\ Pushed(Rak, f)
                            /\ f.ret \in {"batch", "loop", "statusStore"}
    BY <1>5 DEF RakCalls
  <2>2. PlaceInv'
    <3>1. \A u \in Threads : prepRet'[u] \in {prepRet[u], "idle", "decide"}
      OBVIOUS
    <3> QED BY <1>1, <1>3, <2>1, <3>1, PlacePushed
  <2>3. "admit" \in Labels
    BY DEF Labels, CloseLabels
  <2>4. pc' = [pc EXCEPT ![Rak] = "admit"] /\ stack' \in [Threads -> Seq(Frames)]
    BY <2>1 DEF Pushed
  <2> QED BY <1>2, <2>2, <2>3, <2>4
<1> QED BY <1>4, <1>5 DEF RakKind

\* The same inside emitClose.
LEMMA ClosePlace ==
    ASSUME TypeOK, PlaceInv, NEW t \in Threads, CloseKind(t), UNCHANGED prepRet
    PROVE  PlaceInv' /\ pc' \in [Threads -> Labels]
             /\ stack' \in [Threads -> Seq(Frames)]
<1>1. pc[t] \in CloseLabels /\ Depth(t) > 0
  BY InClose DEF CloseKind
<1>2. pc \in [Threads -> Labels] /\ stack \in [Threads -> Seq(Frames)]
  BY DEF TypeOK
<1>3. CASE CloseMoves(t)
  <2>1. PICK l \in Admitted : pc' = [pc EXCEPT ![t] = l]
    BY <1>3 DEF CloseMoves
  <2>2. l \in Labels /\ l \in CloseLabels
    BY DEF Admitted, Labels
  <2>3. l \in AppLabels /\ l \in RakLabels \cup CloseLabels
    BY <2>2 DEF AppLabels
  <2>4. UNCHANGED stack
    BY <1>3 DEF CloseMoves
  <2>5. \A u \in Threads : prepRet'[u] \in {prepRet[u], "idle", "decide"}
    OBVIOUS
  <2>6. PlaceInv'
    BY <1>1, <2>1, <2>2, <2>3, <2>4, <2>5, PlaceMoved
  <2> QED BY <1>2, <2>1, <2>2, <2>4, <2>6
<1>4. CASE Pushed(t, NestedFrame)
  <2>1. PlaceInv'
    <3>1. \A u \in Threads : prepRet'[u] \in {prepRet[u], "idle", "decide"}
      OBVIOUS
    <3> QED BY <1>1, <1>4, <3>1, PlacePushed
  <2>2. "admit" \in Labels
    BY DEF Labels, CloseLabels
  <2>3. pc' = [pc EXCEPT ![t] = "admit"] /\ stack' \in [Threads -> Seq(Frames)]
    BY <1>4 DEF Pushed
  <2> QED BY <1>2, <2>1, <2>2, <2>3
<1>5. CASE Popped(t)
  <2>1. PlaceInv'
    BY <1>1, <1>5, PlacePopped
  <2>2. Base(t) \in Frames
    BY <1>1, TopFrame
  <2>3. "stopFlag" \in Labels /\ Base(t).ret \in Labels
    BY <2>2 DEF Frames, Labels, CloseLabels
  <2>4. pc' = [pc EXCEPT ![t] = IF Depth(t) = 1 THEN Base(t).ret ELSE "stopFlag"]
        /\ stack' \in [Threads -> Seq(Frames)]
    BY <1>5 DEF Popped
  <2> QED BY <1>2, <2>1, <2>3, <2>4
<1> QED BY <1>3, <1>4, <1>5 DEF CloseKind

\* The steps of application threads outside emitClose keep TypeOK and PlaceInv.
LEMMA AppType ==
    ASSUME TypeOK, PlaceInv, LinkInv, NEW t \in Apps,
           \/ Prepare(t) \/ Connect(t) \/ BeginClose(t) \/ BeginRequestStop(t)
           \/ RequestStopLink(t)
    PROVE  TypeOK' /\ PlaceInv'
<1>1. t \in Threads
  BY DEF Threads
<1>2. AppKind(t)
  BY AppSteps
<1>3. prepRet' \in [Threads -> Labels]
      /\ \A u \in Threads : prepRet'[u] \in {prepRet[u], "idle", "decide"}
  <2>1. CASE BeginPrepare(t)
    <3>1. prepRet' = prepRet \/ prepRet' = [prepRet EXCEPT ![t] = "idle"]
      BY <2>1 DEF BeginPrepare, conn
    <3>2. "idle" \in Labels
      BY DEF Labels, ConnectLabels
    <3> QED BY <1>1, <3>1, <3>2 DEF TypeOK
  <2>2. CASE PrepareAdmit(t)
    BY <2>2 DEF PrepareAdmit, conn, TypeOK
  <2>3. CASE PrepareAuth(t)
    BY <2>3 DEF PrepareAuth, conn, TypeOK
  <2>4. CASE PrepareAllow(t)
    BY <2>4 DEF PrepareAllow, conn, TypeOK
  <2>5. CASE PrepareStartQueue(t)
    BY <2>5 DEF PrepareStartQueue, conn, TypeOK
  <2>6. CASE PrepareFail(t)
    BY <2>6 DEF PrepareFail, conn, TypeOK
  <2>7. CASE PrepareCommit(t)
    BY <2>7 DEF PrepareCommit, conn, TypeOK
  <2>8. CASE PrepareStop(t)
    BY <2>8 DEF PrepareStop, conn, TypeOK
  <2>9. CASE BeginConnect(t)
    BY <2>9 DEF BeginConnect, conn, TypeOK
  <2>10. CASE ConnectDecide(t)
    <3>1. prepRet' = prepRet \/ prepRet' = [prepRet EXCEPT ![t] = "decide"]
      BY <2>10 DEF ConnectDecide, conn
    <3>2. "decide" \in Labels
      BY DEF Labels, ConnectLabels
    <3> QED BY <1>1, <3>1, <3>2 DEF TypeOK
  <2>11. CASE ConnectWaitPhase(t)
    BY <2>11 DEF ConnectWaitPhase, conn, TypeOK
  <2>12. CASE ConnectResume(t)
    BY <2>12 DEF ConnectResume, conn, TypeOK
  <2>13. CASE ConnectLogin(t)
    BY <2>13 DEF ConnectLogin, conn, TypeOK
  <2>14. CASE ConnectRecheck(t)
    BY <2>14 DEF ConnectRecheck, conn, TypeOK
  <2>15. CASE ConnectReset(t)
    BY <2>15 DEF ConnectReset, conn, TypeOK
  <2>16. CASE ConnectInstall(t)
    BY <2>16 DEF ConnectInstall, conn, TypeOK
  <2>17. CASE ConnectPostInstall(t)
    BY <2>17 DEF ConnectPostInstall, conn, TypeOK
  <2>18. CASE ConnectRak(t)
    BY <2>18 DEF ConnectRak, conn, TypeOK
  <2>19. CASE ConnectRakWait(t)
    BY <2>19 DEF ConnectRakWait, conn, TypeOK
  <2>20. CASE ConnectRakReap(t)
    BY <2>20 DEF ConnectRakReap, conn, TypeOK
  <2>21. CASE ConnectFailed(t)
    BY <2>21 DEF ConnectFailed, conn, TypeOK
  <2>22. CASE ConnectFailedStatus(t)
    BY <2>22 DEF ConnectFailedStatus, conn, TypeOK
  <2>23. CASE ConnectCommit(t)
    BY <2>23 DEF ConnectCommit, conn, TypeOK
  <2>24. CASE BeginClose(t)
    BY <2>24 DEF BeginClose, conn, TypeOK
  <2>25. CASE BeginRequestStop(t)
    BY <2>25 DEF BeginRequestStop, conn, TypeOK
  <2>26. CASE RequestStopLink(t)
    BY <2>26 DEF RequestStopLink, conn, TypeOK
  <2> QED
    BY <2>1, <2>2, <2>3, <2>4, <2>5, <2>6, <2>7, <2>8, <2>9, <2>10, <2>11,
       <2>12, <2>13, <2>14, <2>15, <2>16, <2>17, <2>18, <2>19, <2>20, <2>21,
       <2>22, <2>23, <2>24, <2>25, <2>26 DEF Prepare, Connect
<1>4. /\ PlaceInv' /\ pc' \in [Threads -> Labels]
      /\ stack' \in [Threads -> Seq(Frames)]
  BY <1>2, <1>3, AppPlace
<1> USE <1>1, <1>3, <1>4 DEF TypeOK, Phases, Statuses, conn, latch, transport,
    history
<1>5. CASE BeginPrepare(t)
  BY <1>5 DEF BeginPrepare
<1>6. CASE PrepareAdmit(t)
  BY <1>6 DEF PrepareAdmit
<1>7. CASE PrepareAuth(t)
  <2>1. rej' \in [Threads -> BOOLEAN]
    BY <1>7 DEF PrepareAuth
  <2> QED BY <1>7, <2>1 DEF PrepareAuth
<1>8. CASE PrepareAllow(t)
  <2>1. late' \in [Threads -> BOOLEAN]
    BY <1>8 DEF PrepareAllow
  <2> QED BY <1>8, <2>1 DEF PrepareAllow
<1>9. CASE PrepareStartQueue(t)
  <2>1. queueOn' \in BOOLEAN /\ lateQueue' \in BOOLEAN
    BY <1>9 DEF PrepareStartQueue
  <2> QED BY <1>9, <2>1 DEF PrepareStartQueue
<1>10. CASE PrepareFail(t)
  <2>1. rejected' \in BOOLEAN
    BY <1>10 DEF PrepareFail
  <2> QED BY <1>10, <2>1 DEF PrepareFail
<1>11. CASE PrepareCommit(t)
  <2>1. rejected' \in BOOLEAN
    BY <1>11 DEF PrepareCommit
  <2> QED BY <1>11, <2>1 DEF PrepareCommit
<1>12. CASE PrepareStop(t)
  <2>1. queueOn' \in BOOLEAN
    BY <1>12 DEF PrepareStop
  <2> QED BY <1>12, <2>1 DEF PrepareStop
<1>13. CASE BeginConnect(t)
  BY <1>13 DEF BeginConnect
<1>14. CASE ConnectDecide(t)
  <2>1. rej' \in [Threads -> BOOLEAN]
    BY <1>14 DEF ConnectDecide
  <2> QED BY <1>14, <2>1 DEF ConnectDecide
<1>15. CASE ConnectWaitPhase(t)
  BY <1>15 DEF ConnectWaitPhase
<1>16. CASE ConnectResume(t)
  <2>1. queueOn' \in BOOLEAN
    BY <1>16 DEF ConnectResume
  <2> QED BY <1>16, <2>1 DEF ConnectResume
<1>17. CASE ConnectLogin(t)
  BY <1>17 DEF ConnectLogin
<1>18. CASE ConnectRecheck(t)
  <2>1. queueOn' \in BOOLEAN /\ closedFlag' \in BOOLEAN
    BY <1>18 DEF ConnectRecheck
  <2> QED BY <1>18, <2>1 DEF ConnectRecheck
<1>19. CASE ConnectReset(t)
  <2>1. closedFlag' \in BOOLEAN
    BY <1>19 DEF ConnectReset
  <2> QED BY <1>19, <2>1 DEF ConnectReset
<1>20. CASE ConnectInstall(t)
  <2>1. {held', accepted', queueOn', closedFlag'} \subseteq BOOLEAN
    BY <1>20 DEF ConnectInstall
  <2> QED BY <1>20, <2>1 DEF ConnectInstall
<1>21. CASE ConnectPostInstall(t)
  <2>1. {held', queueOn', closedFlag'} \subseteq BOOLEAN
    BY <1>21 DEF ConnectPostInstall
  <2> QED BY <1>21, <2>1 DEF ConnectPostInstall, Stopped
<1>22. CASE ConnectRak(t)
  BY <1>22 DEF ConnectRak, Stopped
<1>23. CASE ConnectRakWait(t)
  BY <1>23 DEF ConnectRakWait
<1>24. CASE ConnectRakReap(t)
  BY <1>24 DEF ConnectRakReap
<1>25. CASE ConnectFailed(t)
  <2>1. {queueOn', closedFlag'} \subseteq BOOLEAN
    BY <1>25 DEF ConnectFailed
  <2> QED BY <1>25, <2>1 DEF ConnectFailed
<1>26. CASE ConnectFailedStatus(t)
  BY <1>26 DEF ConnectFailedStatus
<1>27. CASE ConnectCommit(t)
  BY <1>27 DEF ConnectCommit
<1>28. CASE BeginClose(t)
  BY <1>28 DEF BeginClose
<1>29. CASE BeginRequestStop(t)
  <2>1. stopReq' \in BOOLEAN
    BY <1>29 DEF BeginRequestStop
  <2> QED BY <1>29, <2>1 DEF BeginRequestStop
<1>30. CASE RequestStopLink(t)
  BY <1>30 DEF RequestStopLink, Stopped
<1> QED
  BY <1>5, <1>6, <1>7, <1>8, <1>9, <1>10, <1>11, <1>12, <1>13, <1>14, <1>15,
     <1>16, <1>17, <1>18, <1>19, <1>20, <1>21, <1>22, <1>23, <1>24, <1>25,
     <1>26, <1>27, <1>28, <1>29, <1>30 DEF Prepare, Connect

\* So do those of the worker.
LEMMA RakType ==
    ASSUME TypeOK, PlaceInv, RunRak
    PROVE  TypeOK' /\ PlaceInv'
<1>1. UNCHANGED prepRet
  BY DEF RunRak, RakAccepted, RakPayload, RakPacket, RakStatusEmit,
         RakStatusStore, RakLost, RakExit, conn
<1>2. /\ PlaceInv' /\ pc' \in [Threads -> Labels]
      /\ stack' \in [Threads -> Seq(Frames)]
  BY <1>1, RakSteps, RakPlace
<1> USE <1>2 DEF TypeOK, Phases, Statuses, conn, latch, transport, history
<1>3. CASE RakAccepted
  <2>1. accepted' \in BOOLEAN
    BY <1>3 DEF RakAccepted
  <2> QED BY <1>3, <2>1 DEF RakAccepted
<1>4. CASE RakPayload
  BY <1>4 DEF RakPayload
<1>5. CASE RakPacket
  <2>1. target' \in {target, "Initialized"}
    BY <1>5 DEF RakPacket
  <2>2. UNCHANGED <<conn, latch, transport, stopReq, closedFlag, status,
                    queueOn, history>>
    BY <1>5 DEF RakPacket
  <2> QED BY <2>1, <2>2
<1>6. CASE RakStatusEmit
  BY <1>6 DEF RakStatusEmit
<1>7. CASE RakStatusStore
  BY <1>7 DEF RakStatusStore
<1>8. CASE RakLost
  BY <1>8 DEF RakLost
<1>9. CASE RakExit
  BY <1>9 DEF RakExit
<1> QED
  BY <1>3, <1>4, <1>5, <1>6, <1>7, <1>8, <1>9 DEF RunRak

\* So do those of emitClose, whoever is in it.
LEMMA CloseType ==
    ASSUME TypeOK, PlaceInv, LatchInv, NEW t \in Threads, Close(t)
    PROVE  TypeOK' /\ PlaceInv'
<1>1. UNCHANGED prepRet
  BY DEF Close, CloseAdmit, CloseListen, CloseStopFlag, CloseStopQueue,
         CloseCommit, CloseTake, CloseRak, CloseRakJoin, CloseFinish,
         CloseFinishPhase, CloseRelease, conn
<1>2. /\ PlaceInv' /\ pc' \in [Threads -> Labels]
      /\ stack' \in [Threads -> Seq(Frames)]
  BY <1>1, CloseSteps, ClosePlace
<1> USE <1>2 DEF TypeOK, Phases, Statuses, conn, latch, transport, history
<1>3. CASE CloseAdmit(t)
  <2>1. committed' \in BOOLEAN
    BY <1>3 DEF CloseAdmit
  <2> QED BY <1>3, <2>1 DEF CloseAdmit
<1>4. CASE CloseListen(t)
  <2>1. emitted' = emitted \/ (emitted < 2 /\ emitted' = emitted + 1)
    BY <1>4 DEF CloseListen
  <2>2. emitted' \in 0..2
    BY <2>1
  <2>3. UNCHANGED <<conn, latch, transport, stopReq, closedFlag, status,
                    queueOn, target, lateQueue, done>>
    BY <1>4 DEF CloseListen
  <2> QED BY <2>2, <2>3
<1>5. CASE CloseStopFlag(t)
  <2>1. stopReq' \in BOOLEAN
    BY <1>5 DEF CloseStopFlag
  <2> QED BY <1>5, <2>1 DEF CloseStopFlag
<1>6. CASE CloseStopQueue(t)
  <2>1. queueOn' \in BOOLEAN
    BY <1>6 DEF CloseStopQueue
  <2> QED BY <1>6, <2>1 DEF CloseStopQueue
<1>7. CASE CloseCommit(t)
  <2>1. committed' \in BOOLEAN
    BY <1>7 DEF CloseCommit
  <2> QED BY <1>7, <2>1 DEF CloseCommit
<1>8. CASE CloseTake(t)
  <2>1. held' \in BOOLEAN
    BY <1>8 DEF CloseTake
  <2> QED BY <1>8, <2>1 DEF CloseTake
<1>9. CASE CloseRak(t)
  BY <1>9 DEF CloseRak, Stopped
<1>10. CASE CloseRakJoin(t)
  BY <1>10 DEF CloseRakJoin
<1>11. CASE CloseFinish(t)
  BY <1>11 DEF CloseFinish
<1>12. CASE CloseFinishPhase(t)
  <2>1. closedFlag' \in BOOLEAN
    BY <1>12 DEF CloseFinishPhase
  <2> QED BY <1>12, <2>1 DEF CloseFinishPhase
<1>13. CASE CloseRelease(t)
  <2>1. depth \in Nat /\ depth > 0
    <3>1. pc[t] \in Admitted /\ pc[t] \in CloseLabels
      BY <1>13 DEF CloseRelease, Admitted, CloseLabels
    <3>2. depth = Depth(t) /\ Depth(t) > 0
      BY <3>1, InClose DEF LatchInv
    <3> QED BY <3>2
  <2>2. depth' \in Nat
    BY <1>13, <2>1 DEF CloseRelease
  <2>3. committed' \in BOOLEAN /\ done' \in BOOLEAN
    BY <1>13 DEF CloseRelease
  <2> QED BY <1>13, <2>2, <2>3 DEF CloseRelease
<1> QED
  BY <1>3, <1>4, <1>5, <1>6, <1>7, <1>8, <1>9, <1>10, <1>11, <1>12, <1>13
     DEF Close

-----------------------------------------------------------------------------
(* The latch and the close event.                                          *)

\* What a step outside emitClose does to the threads: those inside stay where
\* they are, another may wait for admission with its first frame.
Outside ==
    \A u \in Threads :
        \/ pc'[u] = pc[u] /\ stack'[u] = stack[u]
        \/ /\ pc[u] \notin CloseLabels
           /\ \/ pc'[u] \notin CloseLabels
              \/ pc'[u] = "admit" /\ Len(stack'[u]) = 1

\* The steps of application threads outside emitClose are such steps ...
LEMMA AppOutside ==
    ASSUME TypeOK, PlaceInv, NEW t \in Apps, AppKind(t)
    PROVE  Outside
<1>1. t \in Threads /\ t # Rak /\ Rak \in Threads
  BY ThreadAssumption DEF Threads
<1>2. pc \in [Threads -> Labels] /\ stack \in [Threads -> Seq(Frames)]
  BY DEF TypeOK
<1>3. pc[t] \notin CloseLabels /\ Len(stack[t]) = 0
  BY <1>1, <1>2 DEF AppKind, PlaceInv, Place, Depth
<1>4. CASE AppMoves(t)
  BY <1>2, <1>3, <1>4 DEF AppMoves, Outside
<1>5. CASE AppStarts(t)
  BY <1>1, <1>2, <1>3, <1>5 DEF AppStarts, Outside, CloseLabels
<1>6. CASE AppCalls(t)
  <2>1. PICK f \in Frames : Pushed(t, f)
    BY <1>6 DEF AppCalls
  <2>2. pc'[t] = "admit" /\ Len(stack'[t]) = 1
    BY <1>1, <1>2, <1>3, <2>1 DEF Pushed
  <2>3. \A u \in Threads : u # t => pc'[u] = pc[u] /\ stack'[u] = stack[u]
    BY <1>2, <2>1 DEF Pushed
  <2> QED BY <1>3, <2>2, <2>3 DEF Outside
<1> QED BY <1>4, <1>5, <1>6 DEF AppKind

\* ... and so are those of the worker.
LEMMA RakOutside ==
    ASSUME TypeOK, PlaceInv, RakKind
    PROVE  Outside
<1>1. Rak \in Threads
  BY DEF Threads
<1>2. pc \in [Threads -> Labels] /\ stack \in [Threads -> Seq(Frames)]
  BY DEF TypeOK
<1>3. pc[Rak] \notin CloseLabels /\ Len(stack[Rak]) = 0
  BY <1>1, <1>2 DEF RakKind, PlaceInv, Place, Depth
<1>4. CASE RakMoves
  BY <1>2, <1>3, <1>4 DEF RakMoves, Outside, RakLabels, CloseLabels
<1>5. CASE RakCalls
  <2>1. PICK f \in Frames : Pushed(Rak, f)
    BY <1>5 DEF RakCalls
  <2>2. pc'[Rak] = "admit" /\ Len(stack'[Rak]) = 1
    BY <1>1, <1>2, <1>3, <2>1 DEF Pushed
  <2>3. \A u \in Threads : u # Rak => pc'[u] = pc[u] /\ stack'[u] = stack[u]
    BY <1>2, <2>1 DEF Pushed
  <2> QED BY <1>3, <2>2, <2>3 DEF Outside
<1> QED BY <1>4, <1>5 DEF RakKind

\* Such a step leaves the latch alone.
LEMMA OutsideLatch ==
    ASSUME TypeOK, PlaceInv, LatchInv, Outside, UNCHANGED latch,
           stopReq => stopReq'
    PROVE  LatchInv'
<1>1. UNCHANGED <<closing, depth>>
  BY DEF latch
<1>2. ASSUME NEW u \in Threads
      PROVE  /\ pc'[u] \in Admitted => closing = u /\ depth = Len(stack'[u])
             /\ pc'[u] = "admit" /\ Len(stack'[u]) > 1 =>
                  closing = u /\ depth = Len(stack'[u]) - 1
             /\ closing = u => pc'[u] \in CloseLabels
             /\ closing = u /\ pc'[u] = "admit" => Len(stack'[u]) > 1
             /\ pc'[u] \in AfterStopFlag => stopReq'
  <2>1. CASE pc'[u] = pc[u] /\ stack'[u] = stack[u]
    BY <2>1 DEF LatchInv, Depth
  <2>2. CASE pc[u] \notin CloseLabels /\ pc'[u] \notin CloseLabels
    BY <2>2 DEF LatchInv, Admitted, AfterStopFlag, CloseLabels
  <2>3. CASE pc[u] \notin CloseLabels /\ pc'[u] = "admit" /\ Len(stack'[u]) = 1
    BY <2>3 DEF LatchInv, Admitted, AfterStopFlag, CloseLabels
  <2> QED BY <2>1, <2>2, <2>3 DEF Outside
<1> QED BY <1>1, <1>2 DEF LatchInv, Depth

\* Neither does it open a closed client again.
LEMMA OutsideEmit ==
    ASSUME TypeOK, LatchInv, EmitInv, Outside, UNCHANGED <<latch, emitted>>,
           stopReq => stopReq',
           stopReq /\ status = "Disconnected" => status' = "Disconnected"
    PROVE  EmitInv'
<1>1. UNCHANGED closing
  BY DEF latch
<1>2. CASE emitted # 1
  BY <1>2 DEF EmitInv
<1>3. CASE stopReq /\ status = "Disconnected"
  BY <1>3 DEF EmitInv
<1>4. CASE \E t \in Threads : closing = t /\ (Depth(t) > 1 \/ pc[t] \in AfterListen)
  <2>1. PICK t \in Threads : closing = t /\ (Depth(t) > 1 \/ pc[t] \in AfterListen)
    BY <1>4
  <2>2. pc[t] \in CloseLabels
    BY <2>1 DEF LatchInv
  <2>3. pc'[t] = pc[t] /\ stack'[t] = stack[t]
    BY <2>2 DEF Outside
  <2> QED BY <1>1, <2>1, <2>3 DEF EmitInv, Depth
<1> QED BY <1>2, <1>3, <1>4 DEF EmitInv

\* What the steps outside emitClose do to the shared state.
LEMMA AppShared ==
    ASSUME NEW t \in Apps,
           \/ Prepare(t) \/ Connect(t) \/ BeginClose(t) \/ BeginRequestStop(t)
           \/ RequestStopLink(t)
    PROVE  /\ UNCHANGED <<latch, emitted, done>>
           /\ stopReq => stopReq'
           /\ status' \in {status, "Disconnected"}
<1>1. CASE BeginPrepare(t)
  BY <1>1 DEF BeginPrepare, history
<1>2. CASE PrepareAdmit(t)
  BY <1>2 DEF PrepareAdmit, history
<1>3. CASE PrepareAuth(t)
  BY <1>3 DEF PrepareAuth, history
<1>4. CASE PrepareAllow(t)
  BY <1>4 DEF PrepareAllow, history
<1>5. CASE PrepareStartQueue(t)
  BY <1>5 DEF PrepareStartQueue, history
<1>6. CASE PrepareFail(t)
  BY <1>6 DEF PrepareFail, history
<1>7. CASE PrepareCommit(t)
  BY <1>7 DEF PrepareCommit, history
<1>8. CASE PrepareStop(t)
  BY <1>8 DEF PrepareStop, history
<1>9. CASE BeginConnect(t)
  BY <1>9 DEF BeginConnect, history
<1>10. CASE ConnectDecide(t)
  BY <1>10 DEF ConnectDecide, history
<1>11. CASE ConnectWaitPhase(t)
  BY <1>11 DEF ConnectWaitPhase, history
<1>12. CASE ConnectResume(t)
  BY <1>12 DEF ConnectResume, history
<1>13. CASE ConnectLogin(t)
  BY <1>13 DEF ConnectLogin, history
<1>14. CASE ConnectRecheck(t)
  BY <1>14 DEF ConnectRecheck, history
<1>15. CASE ConnectReset(t)
  BY <1>15 DEF ConnectReset, history
<1>16. CASE ConnectInstall(t)
  BY <1>16 DEF ConnectInstall, history
<1>17. CASE ConnectPostInstall(t)
  BY <1>17 DEF ConnectPostInstall, history
<1>18. CASE ConnectRak(t)
  BY <1>18 DEF ConnectRak, history
<1>19. CASE ConnectRakWait(t)
  BY <1>19 DEF ConnectRakWait, history
<1>20. CASE ConnectRakReap(t)
  BY <1>20 DEF ConnectRakReap, history
<1>21. CASE ConnectFailed(t)
  BY <1>21 DEF ConnectFailed, history
<1>22. CASE ConnectFailedStatus(t)
  BY <1>22 DEF ConnectFailedStatus, history
<1>23. CASE ConnectCommit(t)
  BY <1>23 DEF ConnectCommit, history
<1>24. CASE BeginClose(t)
  BY <1>24 DEF BeginClose, history
<1>25. CASE BeginRequestStop(t)
  BY <1>25 DEF BeginRequestStop, history
<1>26. CASE RequestStopLink(t)
  BY <1>26 DEF RequestStopLink, history
<1> QED
  BY <1>1, <1>2, <1>3, <1>4, <1>5, <1>6, <1>7, <1>8, <1>9, <1>10, <1>11, <1>12,
     <1>13, <1>14, <1>15, <1>16, <1>17, <1>18, <1>19, <1>20, <1>21, <1>22,
     <1>23, <1>24, <1>25, <1>26 DEF Prepare, Connect

\* The worker touches none of the lifecycle, and setStatus() on it does not open
\* a closed client.
LEMMA RakShared ==
    ASSUME RunRak
    PROVE  /\ UNCHANGED <<conn, latch, history, stopReq, closedFlag, queueOn, held>>
           /\ stopReq /\ status = "Disconnected" => status' = "Disconnected"
<1>1. CASE RakAccepted
  BY <1>1 DEF RakAccepted, transport
<1>2. CASE RakPayload
  BY <1>2 DEF RakPayload, transport
<1>3. CASE RakPacket
  BY <1>3 DEF RakPacket, transport
<1>4. CASE RakStatusEmit
  BY <1>4 DEF RakStatusEmit, transport
<1>5. CASE RakStatusStore
  BY <1>5 DEF RakStatusStore, transport
<1>6. CASE RakLost
  BY <1>6 DEF RakLost, transport
<1>7. CASE RakExit
  BY <1>7 DEF RakExit, transport
<1> QED
  BY <1>1, <1>2, <1>3, <1>4, <1>5, <1>6, <1>7 DEF RunRak

\* Arithmetic of depths.
LEMMA SomeOrMore ==
    ASSUME NEW n \in Nat, n > 0
    PROVE  /\ n = 1 \/ (n > 1 /\ n # 1)
           /\ n > 1 <=> n # 1
           /\ n + 1 > 1
OBVIOUS

\* The parts of LatchInv about one thread.
LatchOf(t) ==
    /\ pc[t] \in Admitted => closing = t /\ depth = Depth(t)
    /\ pc[t] = "admit" /\ Depth(t) > 1 => closing = t /\ depth = Depth(t) - 1
    /\ closing = t => pc[t] \in CloseLabels
    /\ closing = t /\ pc[t] = "admit" => Depth(t) > 1
    /\ pc[t] \in AfterStopFlag => stopReq

\* A step of t inside emitClose moves t alone.
LEMMA CloseOthers ==
    ASSUME TypeOK, NEW t \in Threads, CloseKind(t)
    PROVE  \A u \in Threads : u # t => pc'[u] = pc[u] /\ stack'[u] = stack[u]
<1>1. pc \in [Threads -> Labels]
  BY DEF TypeOK
<1>2. CASE CloseMoves(t)
  BY <1>1, <1>2 DEF CloseMoves
<1>3. CASE Pushed(t, NestedFrame)
  BY <1>1, <1>3 DEF Pushed
<1>4. CASE Popped(t)
  BY <1>1, <1>4 DEF Popped
<1> QED BY <1>2, <1>3, <1>4 DEF CloseKind

\* The latch changes hands only through NoThread.
LEMMA LatchFrom ==
    ASSUME TypeOK, LatchInv, NEW t \in Threads,
           \A u \in Threads : u # t => pc'[u] = pc[u] /\ stack'[u] = stack[u],
           stopReq => stopReq',
           \/ UNCHANGED <<closing, depth>>
           \/ closing \in {t, NoThread} /\ closing' \in {t, NoThread},
           closing' = NoThread => depth' = 0,
           LatchOf(t)'
    PROVE  LatchInv'
<1>1. ASSUME NEW u \in Threads PROVE LatchOf(u)'
  <2>1. CASE u = t
    BY <2>1
  <2>2. CASE u # t
    <3>1. pc'[u] = pc[u] /\ stack'[u] = stack[u]
      BY <2>2
    <3>2. LatchOf(u)
      BY DEF LatchInv, LatchOf
    <3>3. u # NoThread
      BY ThreadAssumption
    <3> QED BY <2>2, <3>1, <3>2, <3>3 DEF LatchOf, Depth, Admitted, CloseLabels
  <2> QED BY <2>1, <2>2
<1> QED BY <1>1 DEF LatchInv, LatchOf

\* Where a return leaves its thread: outside emitClose, or in the close() that
\* called the listener.
LEMMA PoppedTo ==
    ASSUME TypeOK, PlaceInv, NEW t \in Threads, pc[t] \in CloseLabels, Popped(t)
    PROVE  \/ /\ Len(stack[t]) = 1 /\ Len(stack'[t]) = 0
              /\ pc'[t] = Base(t).ret /\ Base(t).ret \notin CloseLabels
           \/ /\ Len(stack[t]) > 1 /\ Len(stack[t]) # 1 /\ pc'[t] = "stopFlag"
              /\ Len(stack'[t]) = Len(stack[t]) - 1
<1>1. pc \in [Threads -> Labels] /\ Len(stack[t]) \in Nat
  BY DEF TypeOK
<1>2. Len(stack[t]) > 0
  BY InClose DEF Depth
<1>3. Len(stack[t]) = 1 \/ (Len(stack[t]) > 1 /\ Len(stack[t]) # 1)
  BY <1>1, <1>2, SomeOrMore
<1>4. CASE Len(stack[t]) = 1
  <2>1. pc'[t] = Base(t).ret /\ Len(stack'[t]) = 0
    BY <1>1, <1>4 DEF Popped, Depth
  <2>2. Base(t).ret \in {"idle", "allow", "recheck", "commit", "batch", "loop",
                         "statusStore"}
    <3>1. Depth(t) > 0 /\ Place(t)
      BY <1>4 DEF PlaceInv, Depth
    <3> QED BY <3>1 DEF Place, Threads
  <2> QED BY <1>4, <2>1, <2>2 DEF CloseLabels
<1>5. CASE Len(stack[t]) > 1 /\ Len(stack[t]) # 1
  BY <1>1, <1>5 DEF Popped, Depth
<1> QED BY <1>3, <1>4, <1>5

\* Admission, nesting and release keep the latch and its depth in step with the
\* frames of the thread that owns it.
LEMMA CloseLatch ==
    ASSUME TypeOK, PlaceInv, LatchInv, NEW t \in Threads, Close(t)
    PROVE  LatchInv'
<1>1. /\ CloseKind(t)
      /\ \A u \in Threads : u # t => pc'[u] = pc[u] /\ stack'[u] = stack[u]
  BY CloseSteps, CloseOthers
<1>2. /\ pc \in [Threads -> Labels] /\ stack \in [Threads -> Seq(Frames)]
      /\ depth \in Nat /\ Len(stack[t]) \in Nat
  BY DEF TypeOK
<1>3. LatchOf(t) /\ Len(stack[t]) > 0 /\ t # NoThread
  BY <1>1, InClose, ThreadAssumption DEF CloseKind, LatchInv, LatchOf, Depth
<1> SUFFICES /\ stopReq => stopReq'
             /\ \/ UNCHANGED <<closing, depth>>
                \/ closing \in {t, NoThread} /\ closing' \in {t, NoThread}
             /\ closing' = NoThread => depth' = 0
             /\ LatchOf(t)'
  BY <1>1, LatchFrom
<1> USE <1>2, <1>3 DEF LatchOf, Depth, Admitted, AfterStopFlag, CloseLabels
<1>4. CASE CloseAdmit(t)
  <2>1. CASE Frame(t).origin = "Transport" /\ Return(t) /\ UNCHANGED latch
    <3>1. Popped(t)
      BY <2>1, ReturnPops
    <3>2. pc[t] = "admit" /\ UNCHANGED <<closing, depth, stopReq>>
      BY <1>4, <2>1 DEF CloseAdmit, latch
    <3>3. ~(Len(stack[t]) > 1)
      <4>1. Depth(t) > 0 /\ (Depth(t) # 1 => Frame(t) = NestedFrame)
        BY TopFrame
      <4>2. Len(stack[t]) # 1 => Frame(t).origin = "Public"
        BY <4>1 DEF NestedFrame
      <4>3. Len(stack[t]) = 1
        BY <2>1, <4>2
      <4> QED BY <4>3
    <3>4. Len(stack[t]) = 1 /\ pc'[t] \notin CloseLabels
      BY <3>1, <3>2, <3>3, PoppedTo
    <3>5. closing # t
      BY <3>2, <3>3
    <3>6. Len(stack[t]) = 1 /\ UNCHANGED <<closing, depth, stopReq>>
      BY <3>2, <3>4
    <3>7. closing' # t /\ (closing' = NoThread => depth' = 0)
      BY <3>5, <3>6 DEF LatchInv
    <3> QED BY <3>4, <3>6, <3>7
  <2>2. CASE /\ closing = t /\ depth' = depth + 1 /\ Goto(t, "listen")
             /\ UNCHANGED <<closing, committed, stack>>
    BY <1>4, <2>2 DEF CloseAdmit, Goto
  <2>3. CASE /\ closing = NoThread /\ closing' = t /\ depth' = 1
             /\ Goto(t, "listen") /\ UNCHANGED stack
    <3>1. pc[t] = "admit" /\ closing # t
      BY <1>4, <2>3 DEF CloseAdmit
    <3>2. ~(Len(stack[t]) > 1)
      BY <3>1
    <3>3. Len(stack[t]) = 1
      BY <3>2, SomeOrMore
    <3>4. pc'[t] = "listen" /\ Len(stack'[t]) = 1 /\ UNCHANGED stopReq
      BY <1>4, <2>3, <3>3 DEF CloseAdmit, Goto
    <3> QED BY <2>3, <3>4
  <2> QED BY <1>4, <2>1, <2>2, <2>3 DEF CloseAdmit
<1>5. CASE CloseListen(t)
  <2>1. UNCHANGED <<closing, depth, stopReq>> /\ pc[t] = "listen"
    BY <1>5 DEF CloseListen, latch
  <2>2. CASE EmitClose(t, "stopFlag", TRUE, "Public")
    <3>1. "stopFlag" \in Labels
      BY DEF Labels
    <3>2. Pushed(t, NestedFrame)
      BY <2>2, <3>1, CallPushes DEF NestedFrame
    <3>3. pc'[t] = "admit" /\ Len(stack'[t]) = Len(stack[t]) + 1
      BY <3>2 DEF Pushed
    <3> QED BY <2>1, <3>3
  <2>3. CASE ~EmitClose(t, "stopFlag", TRUE, "Public")
    <3>1. UNCHANGED stack /\ (Goto(t, "stopFlag") \/ Goto(t, "abort"))
      BY <1>5, <2>3 DEF CloseListen
    <3>2. pc'[t] \in {"stopFlag", "abort"}
      BY <3>1 DEF Goto
    <3> QED BY <2>1, <3>1, <3>2
  <2> QED BY <2>2, <2>3
<1>6. CASE CloseRelease(t)
  <2>1. Return(t) /\ pc[t] \in {"release", "abort"} /\ UNCHANGED stopReq
    BY <1>6 DEF CloseRelease
  <2>2. Popped(t)
    BY <2>1, ReturnPops
  <2>3. closing = t /\ depth = Len(stack[t])
    BY <2>1
  <2>4. depth' = depth - 1 /\ closing' = IF depth = 1 THEN NoThread ELSE closing
    BY <1>6 DEF CloseRelease
  <2>5. CASE Len(stack[t]) = 1 /\ pc'[t] \notin CloseLabels
    BY <2>1, <2>3, <2>4, <2>5
  <2>6. CASE /\ Len(stack[t]) > 1 /\ Len(stack[t]) # 1 /\ pc'[t] = "stopFlag"
             /\ Len(stack'[t]) = Len(stack[t]) - 1
    <3>1. closing' = t /\ depth' = Len(stack'[t])
      BY <2>3, <2>4, <2>6
    <3> QED BY <2>1, <2>3, <2>6, <3>1
  <2> QED BY <2>1, <2>2, <2>5, <2>6, PoppedTo
<1>7. CASE CloseStopFlag(t)
  BY <1>7 DEF CloseStopFlag, Step, Goto, latch
<1>8. CASE CloseStopQueue(t)
  BY <1>8 DEF CloseStopQueue, Step, Goto, latch
<1>9. CASE CloseCommit(t)
  BY <1>9 DEF CloseCommit, Step, Goto, latch
<1>10. CASE CloseTake(t)
  BY <1>10 DEF CloseTake, Step, Goto, latch
<1>11. CASE CloseRak(t)
  BY <1>11 DEF CloseRak, Step, Goto, latch
<1>12. CASE CloseRakJoin(t)
  BY <1>12 DEF CloseRakJoin, Step, Goto, latch
<1>13. CASE CloseFinish(t)
  BY <1>13 DEF CloseFinish, Step, Goto, latch
<1>14. CASE CloseFinishPhase(t)
  BY <1>14 DEF CloseFinishPhase, Step, Goto, latch
<1> QED
  BY <1>4, <1>5, <1>6, <1>7, <1>8, <1>9, <1>10, <1>11, <1>12, <1>13, <1>14
     DEF Close

\* The first emission is the last: its emitter goes on to close the client.
LEMMA CloseEmit ==
    ASSUME TypeOK, PlaceInv, LatchInv, EmitInv, NEW t \in Threads, Close(t)
    PROVE  EmitInv'
<1>1. CloseKind(t)
  BY CloseSteps
<1>2. \A u \in Threads : u # t => pc'[u] = pc[u] /\ stack'[u] = stack[u]
  BY <1>1, CloseOthers
<1>3. /\ pc \in [Threads -> Labels] /\ stack \in [Threads -> Seq(Frames)]
      /\ depth \in Nat /\ Len(stack[t]) \in Nat /\ emitted \in 0..2
  BY DEF TypeOK
<1>4. LatchOf(t) /\ Len(stack[t]) > 0 /\ t # NoThread
  BY <1>1, InClose, ThreadAssumption DEF CloseKind, LatchInv, LatchOf, Depth
<1> DEFINE Shut == stopReq /\ status = "Disconnected"
           Emitter(u) == closing = u /\ (Len(stack[u]) > 1 \/ pc[u] \in AfterListen)
<1>5. emitted = 0 \/ (emitted = 1 /\ (Shut \/ \E u \in Threads : Emitter(u)))
  BY <1>3 DEF EmitInv, Depth
<1>6. SUFFICES \/ emitted' = 0
               \/ emitted' = 1 /\ (Shut' \/ \E u \in Threads : Emitter(u)')
  BY DEF EmitInv, Depth
<1> USE DEF CloseLabels, Admitted, AfterListen, AfterStopFlag
<1>7. CASE CloseListen(t)
  <2>1. closing = t /\ depth = Len(stack[t]) /\ pc[t] = "listen"
    BY <1>4, <1>7 DEF CloseListen, LatchOf, Depth
  <2>2. UNCHANGED <<closing, stopReq, status>>
    BY <1>7 DEF CloseListen, latch
  <2>3. CASE emitted' = emitted
    <3>1. Len(stack'[t]) >= Len(stack[t])
      <4>1. CASE UNCHANGED stack
        BY <1>3, <4>1
      <4>2. CASE EmitClose(t, "stopFlag", TRUE, "Public")
        <5>1. "stopFlag" \in Labels
          BY DEF Labels
        <5>2. Pushed(t, NestedFrame)
          BY <4>2, <5>1, CallPushes DEF NestedFrame
        <5> QED BY <1>3, <5>2 DEF Pushed
      <4> QED BY <1>7, <4>1, <4>2 DEF CloseListen
    <3>2. Len(stack'[t]) \in Nat
      BY <1>1, <1>3 DEF CloseKind, CloseMoves, Pushed, Popped
    <3>3. \A u \in Threads : Emitter(u) => u = t /\ Len(stack[t]) > 1
      BY <2>1
    <3>4. (\E u \in Threads : Emitter(u)) => Emitter(t)'
      BY <1>3, <2>1, <2>2, <3>1, <3>2, <3>3
    <3> QED BY <1>5, <2>2, <2>3, <3>4
  <2>4. CASE emitted' # emitted
    <3>1. depth = 1 /\ emitted' = emitted + 1 /\ status # "Disconnected"
      BY <1>7, <2>4 DEF CloseListen
    <3>2. emitted = 0
      <4>1. Len(stack[t]) = 1 /\ ~(Len(stack[t]) > 1)
        BY <2>1, <3>1
      <4>2. \A u \in Threads : ~Emitter(u)
        BY <2>1, <4>1
      <4> QED BY <1>5, <3>1, <4>2
    <3>3. CASE Goto(t, "stopFlag")
      <4>1. pc'[t] = "stopFlag"
        BY <1>3, <3>3 DEF Goto
      <4> QED BY <2>1, <2>2, <3>1, <3>2, <4>1
    <3>4. CASE EmitClose(t, "stopFlag", TRUE, "Public")
      <4>1. "stopFlag" \in Labels
        BY DEF Labels
      <4>2. Pushed(t, NestedFrame)
        BY <3>4, <4>1, CallPushes DEF NestedFrame
      <4>3. Len(stack'[t]) = Len(stack[t]) + 1
        BY <4>2 DEF Pushed
      <4>4. Len(stack'[t]) > 1
        BY <1>3, <1>4, <4>3, SomeOrMore
      <4>5. Emitter(t)'
        BY <2>1, <2>2, <4>4
      <4> QED BY <3>1, <3>2, <4>5
    <3> QED BY <1>7, <2>4, <3>3, <3>4 DEF CloseListen
  <2> QED BY <2>3, <2>4
<1>8. CASE CloseRelease(t)
  <2>1. Return(t) /\ pc[t] \in {"release", "abort"}
        /\ UNCHANGED <<stopReq, status, emitted>>
    BY <1>8 DEF CloseRelease
  <2>2. Popped(t)
    BY <1>4, <2>1, ReturnPops DEF Depth
  <2>3. closing = t /\ depth = Len(stack[t])
    BY <1>4, <2>1 DEF LatchOf, Depth
  <2>4. (\E u \in Threads : Emitter(u)) => Len(stack[t]) > 1
    BY <2>1, <2>3
  <2>5. Len(stack[t]) > 1 => Emitter(t)'
    <3>0. Len(stack[t]) > 1 <=> Len(stack[t]) # 1
      BY <1>3, <1>4, SomeOrMore
    <3>1. Len(stack[t]) > 1 => pc'[t] = "stopFlag" /\ Len(stack[t]) # 1
      BY <2>1, <2>2, <3>0, PoppedTo
    <3>2. closing' = IF depth = 1 THEN NoThread ELSE closing
      BY <1>8 DEF CloseRelease
    <3>3. Len(stack[t]) > 1 => closing' = t
      BY <2>3, <3>1, <3>2
    <3> QED BY <3>1, <3>3
  <2> QED BY <1>5, <2>1, <2>4, <2>5
<1>9. CASE CloseAdmit(t)
  <2>1. UNCHANGED <<stopReq, status, emitted>> /\ pc[t] = "admit"
    BY <1>9 DEF CloseAdmit, history
  <2>2. CASE closing' = closing
    <3>1. \A u \in Threads : Emitter(u) => Emitter(u)'
      <4> TAKE u \in Threads
      <4>1. CASE u # t
        BY <1>2, <2>2, <4>1
      <4>2. CASE u = t /\ closing = t
        <5>1. Len(stack[t]) > 1
          BY <1>4, <2>1, <4>2 DEF LatchOf, Depth
        <5>2. Frame(t).origin = "Public"
          <6>1. Depth(t) > 0 /\ Depth(t) # 1
            BY <1>3, <1>4, <5>1, SomeOrMore DEF Depth
          <6>2. Frame(t) = NestedFrame
            BY <6>1, TopFrame
          <6> QED BY <6>2 DEF NestedFrame
        <5>3. UNCHANGED stack
          BY <1>4, <1>9, <4>2, <5>2 DEF CloseAdmit
        <5> QED BY <2>2, <4>2, <5>1, <5>3
      <4> QED BY <4>1, <4>2
    <3> QED BY <1>5, <2>1, <3>1
  <2>3. CASE closing' # closing
    <3>1. closing = NoThread
      BY <1>9, <2>3 DEF CloseAdmit, latch
    <3>2. \A u \in Threads : closing # u
      BY <3>1, ThreadAssumption
    <3> QED BY <1>5, <2>1, <3>2
  <2> QED BY <2>2, <2>3
<1>10. CASE CloseFinish(t)
  <2>1. pc[t] \in AfterStopFlag
    BY <1>10 DEF CloseFinish, Step
  <2>2. stopReq /\ UNCHANGED <<stopReq, emitted>> /\ status' = "Disconnected"
    BY <1>4, <1>10, <2>1 DEF CloseFinish, LatchOf, history
  <2> QED BY <1>5, <2>2
<1>11. CASE CloseStopFlag(t)
  <2>1. /\ UNCHANGED <<closing, stack, status, emitted>>
        /\ stopReq => stopReq'
    BY <1>11 DEF CloseStopFlag, latch, history
  <2>2. pc[t] \in AfterListen => pc'[t] \in AfterListen
    BY <1>3, <1>11 DEF CloseStopFlag, Step, Goto
  <2>3. \A u \in Threads : Emitter(u) => Emitter(u)'
    BY <1>2, <2>1, <2>2
  <2> QED BY <1>5, <2>1, <2>3
<1>12. CASE CloseStopQueue(t)
  <2>1. /\ UNCHANGED <<closing, stack, status, emitted>>
        /\ stopReq => stopReq'
    BY <1>12 DEF CloseStopQueue, latch, history
  <2>2. pc[t] \in AfterListen => pc'[t] \in AfterListen
    BY <1>3, <1>12 DEF CloseStopQueue, Step, Goto
  <2>3. \A u \in Threads : Emitter(u) => Emitter(u)'
    BY <1>2, <2>1, <2>2
  <2> QED BY <1>5, <2>1, <2>3
<1>13. CASE CloseCommit(t)
  <2>1. /\ UNCHANGED <<closing, stack, status, emitted>>
        /\ stopReq => stopReq'
    BY <1>13 DEF CloseCommit, latch, history
  <2>2. pc[t] \in AfterListen => pc'[t] \in AfterListen
    BY <1>3, <1>13 DEF CloseCommit, Step, Goto
  <2>3. \A u \in Threads : Emitter(u) => Emitter(u)'
    BY <1>2, <2>1, <2>2
  <2> QED BY <1>5, <2>1, <2>3
<1>14. CASE CloseTake(t)
  <2>1. /\ UNCHANGED <<closing, stack, status, emitted>>
        /\ stopReq => stopReq'
    BY <1>14 DEF CloseTake, latch, history
  <2>2. pc[t] \in AfterListen => pc'[t] \in AfterListen
    BY <1>3, <1>14 DEF CloseTake, Step, Goto
  <2>3. \A u \in Threads : Emitter(u) => Emitter(u)'
    BY <1>2, <2>1, <2>2
  <2> QED BY <1>5, <2>1, <2>3
<1>15. CASE CloseRak(t)
  <2>1. /\ UNCHANGED <<closing, stack, status, emitted>>
        /\ stopReq => stopReq'
    BY <1>15 DEF CloseRak, latch, history
  <2>2. pc[t] \in AfterListen => pc'[t] \in AfterListen
    BY <1>3, <1>15 DEF CloseRak, Step, Goto
  <2>3. \A u \in Threads : Emitter(u) => Emitter(u)'
    BY <1>2, <2>1, <2>2
  <2> QED BY <1>5, <2>1, <2>3
<1>16. CASE CloseRakJoin(t)
  <2>1. /\ UNCHANGED <<closing, stack, status, emitted>>
        /\ stopReq => stopReq'
    BY <1>16 DEF CloseRakJoin, latch, history
  <2>2. pc[t] \in AfterListen => pc'[t] \in AfterListen
    BY <1>3, <1>16 DEF CloseRakJoin, Step, Goto
  <2>3. \A u \in Threads : Emitter(u) => Emitter(u)'
    BY <1>2, <2>1, <2>2
  <2> QED BY <1>5, <2>1, <2>3
<1>17. CASE CloseFinishPhase(t)
  <2>1. /\ UNCHANGED <<closing, stack, status, emitted>>
        /\ stopReq => stopReq'
    BY <1>17 DEF CloseFinishPhase, latch, history
  <2>2. pc[t] \in AfterListen => pc'[t] \in AfterListen
    BY <1>3, <1>17 DEF CloseFinishPhase, Step, Goto
  <2>3. \A u \in Threads : Emitter(u) => Emitter(u)'
    BY <1>2, <2>1, <2>2
  <2> QED BY <1>5, <2>1, <2>3
<1> QED
  BY <1>7, <1>8, <1>9, <1>10, <1>11, <1>12, <1>13, <1>14, <1>15, <1>16, <1>17
     DEF Close

-----------------------------------------------------------------------------
(* The attempt: who prepares and who connects.                             *)

\* A thread outside emitClose is where its label says, before and after a move.
LEMMA AtMoved ==
    ASSUME TypeOK, PlaceInv, NEW t \in Threads, pc[t] \notin CloseLabels,
           NEW l, Goto(t, l), UNCHANGED stack
    PROVE  At(t) = pc[t] /\ At(t)' = l
<1>1. pc \in [Threads -> Labels] /\ Len(stack[t]) \in Nat
  BY DEF TypeOK
<1>2. ~(Len(stack[t]) > 0)
  BY DEF PlaceInv, Place, Depth
<1>3. pc'[t] = l
  BY <1>1 DEF Goto
<1> QED BY <1>2, <1>3 DEF At, Depth

\* A call of emitClose will continue at the label it returns to ...
LEMMA AtCalled ==
    ASSUME TypeOK, PlaceInv, NEW t \in Threads, pc[t] \notin CloseLabels,
           NEW r \in Labels, NEW b \in BOOLEAN,
           NEW o \in {"Public", "Transport"}, EmitClose(t, r, b, o)
    PROVE  At(t) = pc[t] /\ At(t)' = r
<1> DEFINE f == [ret |-> r, trans |-> b, origin |-> o]
<1>1. pc \in [Threads -> Labels] /\ Len(stack[t]) \in Nat
  BY DEF TypeOK
<1>2. ~(Len(stack[t]) > 0)
  BY DEF PlaceInv, Place, Depth
<1>3. Len(stack[t]) = 0
  BY <1>1, <1>2
<1>4. Pushed(t, f) /\ f.ret = r
  BY CallPushes
<1> HIDE DEF f
<1>5. Len(stack'[t]) = 1 /\ stack'[t][1] = f
  BY <1>3, <1>4 DEF Pushed
<1> QED BY <1>2, <1>4, <1>5 DEF At, Depth, Base

\* ... and so will a listener, whether or not it closes.
LEMMA AtListener ==
    ASSUME TypeOK, PlaceInv, NEW t \in Threads, pc[t] \notin CloseLabels,
           NEW r \in Labels, Listener(t, r)
    PROVE  At(t) = pc[t] /\ At(t)' = r
<1>1. CASE Goto(t, r) /\ UNCHANGED stack
  BY <1>1, AtMoved
<1>2. CASE EmitClose(t, r, TRUE, "Public")
  BY <1>2, AtCalled
<1> QED BY <1>1, <1>2 DEF Listener

\* The steps of emitClose leave it there.
LEMMA AtClosing ==
    ASSUME TypeOK, PlaceInv, NEW t \in Threads, CloseKind(t)
    PROVE  At(t)' = At(t)
<1>1. /\ pc \in [Threads -> Labels] /\ Len(stack[t]) \in Nat
      /\ pc[t] \in CloseLabels
  BY DEF TypeOK, CloseKind
<1>2. Len(stack[t]) > 0
  BY <1>1, InClose DEF Depth
<1>3. At(t) = stack[t][1].ret
  BY <1>2 DEF At, Depth, Base
<1>4. CASE CloseMoves(t)
  <2>1. stack'[t] = stack[t]
    BY <1>4 DEF CloseMoves
  <2> QED BY <1>2, <1>3, <2>1 DEF At, Depth, Base
<1>5. CASE Pushed(t, NestedFrame)
  <2>1. Len(stack'[t]) > 0 /\ stack'[t][1] = stack[t][1]
    BY <1>1, <1>2, <1>5 DEF Pushed
  <2> QED BY <1>3, <2>1 DEF At, Depth, Base
<1>6. CASE Popped(t)
  <2>1. CASE Len(stack[t]) = 1 /\ Len(stack'[t]) = 0 /\ pc'[t] = Base(t).ret
    BY <1>3, <2>1 DEF At, Depth, Base
  <2>2. CASE Len(stack[t]) > 1 /\ Len(stack'[t]) = Len(stack[t]) - 1
    <3>1. Len(stack'[t]) > 0 /\ 1 \in 1..(Len(stack[t]) - 1)
      BY <1>1, <2>2
    <3>2. stack'[t][1] = stack[t][1]
      BY <1>6, <3>1 DEF Popped
    <3> QED BY <1>3, <3>1, <3>2 DEF At, Depth, Base
  <2> QED BY <1>1, <1>6, <2>1, <2>2, PoppedTo
<1> QED BY <1>4, <1>5, <1>6 DEF CloseKind

AttemptOf(t) ==
    /\ Prepares(t) => /\ owner = t
                      /\ phase = "Preparing" \/ (phase = "Idle" /\ stopReq)
    /\ Connects(t) => owner = t /\ phase = "Connecting"

\* The phase changes in the hands of its owner, or when nobody has it.
LEMMA AttemptStep ==
    ASSUME AttemptInv, NEW t \in Apps,
           \A u \in Apps : u # t => pc'[u] = pc[u] /\ stack'[u] = stack[u],
           stopReq => stopReq',
           \/ UNCHANGED <<phase, owner>>
           \/ owner = t
           \/ phase \in {"Idle", "Prepared"} /\ ~stopReq,
           AttemptOf(t)'
    PROVE  AttemptInv'
<1>1. ASSUME NEW u \in Apps, u # t PROVE AttemptOf(u)'
  <2>1. At(u)' = At(u)
    BY <1>1 DEF At, Depth, Base
  <2>2. AttemptOf(u)
    BY DEF AttemptInv, AttemptOf
  <2>3. (Prepares(u)' <=> Prepares(u)) /\ (Connects(u)' <=> Connects(u))
    BY <2>1 DEF Prepares, Connects
  <2> QED BY <1>1, <2>2, <2>3 DEF AttemptOf
<1> QED BY <1>1 DEF AttemptInv, AttemptOf

\* Outside emitClose an application thread moves no other.
LEMMA AppOthers ==
    ASSUME TypeOK, NEW t \in Apps, AppKind(t)
    PROVE  \A u \in Apps : u # t => pc'[u] = pc[u] /\ stack'[u] = stack[u]
<1>1. pc \in [Threads -> Labels] /\ t \in Threads /\ Apps \subseteq Threads
      /\ Rak \notin Apps
  BY ThreadAssumption DEF TypeOK, Threads
<1>2. CASE AppMoves(t)
  BY <1>1, <1>2 DEF AppMoves
<1>3. CASE AppStarts(t)
  BY <1>1, <1>3 DEF AppStarts
<1>4. CASE AppCalls(t)
  BY <1>1, <1>4 DEF AppCalls, Pushed
<1> QED BY <1>2, <1>3, <1>4 DEF AppKind

\* Preparing and connecting threads hand the phase on as its owners.
LEMMA AppAttempt ==
    ASSUME TypeOK, PlaceInv, LinkInv, AttemptInv, NEW t \in Apps,
           \/ Prepare(t) \/ Connect(t) \/ BeginClose(t) \/ BeginRequestStop(t)
           \/ RequestStopLink(t)
    PROVE  AttemptInv'
<1>1. \A u \in Apps : u # t => pc'[u] = pc[u] /\ stack'[u] = stack[u]
  BY AppSteps, AppOthers
<1>2. stopReq => stopReq'
  BY AppShared
<1>3. /\ t \in Threads /\ prepRet[t] \in {"idle", "decide"} /\ t # NoThread
      /\ AttemptOf(t) /\ pc \in [Threads -> Labels] /\ t # Rak
      /\ Rak \in Threads
      /\ {"idle", "allow", "recheck", "commit"} \subseteq Labels
  BY ThreadAssumption
     DEF PlaceInv, Place, Threads, AttemptInv, AttemptOf, TypeOK, Labels,
         PrepareLabels, ConnectLabels
<1> SUFFICES /\ \/ UNCHANGED <<phase, owner>>
                \/ owner = t
                \/ phase \in {"Idle", "Prepared"} /\ ~stopReq
             /\ AttemptOf(t)'
  BY <1>1, <1>2, AttemptStep
<1> USE <1>2, <1>3 DEF AttemptOf, Prepares, Connects, ConnectLabels, conn
<1>4. CASE BeginPrepare(t)
  <2>1. pc[t] = "idle" /\ pc[t] \notin CloseLabels
    BY <1>4 DEF BeginPrepare, Step, CloseLabels
  <2>2. At(t) = pc[t] /\ At(t)' \in {"prepare"}
    <3>1. UNCHANGED stack /\ \E l \in {"prepare"} : Goto(t, l)
      BY <1>4 DEF BeginPrepare, Step
    <3> QED BY <2>1, <3>1, AtMoved
  <2>3. UNCHANGED <<phase, owner>>
    BY <1>4 DEF BeginPrepare
  <2> QED BY <2>1, <2>2, <2>3
<1>5. CASE PrepareAdmit(t)
  <2>1. pc[t] = "prepare" /\ pc[t] \notin CloseLabels
    BY <1>5 DEF PrepareAdmit, Step, CloseLabels
  <2>2. At(t) = pc[t] /\ At(t)' \in {"idle", "decide", "auth"}
    <3>1. UNCHANGED stack /\ \E l \in {"idle", "decide", "auth"} : Goto(t, l)
      BY <1>5 DEF PrepareAdmit, Step
    <3> QED BY <2>1, <3>1, AtMoved
  <2>3. CASE /\ ~stopReq /\ phase = "Idle" /\ phase' = "Preparing"
             /\ owner' = t /\ Goto(t, "auth")
    <3>1. At(t)' = "auth"
      BY <1>5, <2>1, <2>3, AtMoved DEF PrepareAdmit
    <3> QED BY <2>3, <3>1
  <2>4. CASE /\ UNCHANGED <<phase, owner>>
             /\ Goto(t, "idle") \/ Goto(t, prepRet[t])
    <3>1. At(t)' \in {"idle", "decide"}
      BY <1>5, <2>1, <2>4, AtMoved DEF PrepareAdmit
    <3> QED BY <2>4, <3>1
  <2> QED BY <1>5, <2>3, <2>4 DEF PrepareAdmit
<1>6. CASE PrepareAuth(t)
  <2>1. pc[t] = "auth" /\ pc[t] \notin CloseLabels
    BY <1>6 DEF PrepareAuth, Step, CloseLabels
  <2>2. At(t) = pc[t] /\ At(t)' \in {"allow", "prepFail"}
    <3>1. CASE Listener(t, "allow")
      BY <2>1, <3>1, AtListener
    <3>2. CASE Goto(t, "prepFail") /\ UNCHANGED stack
      BY <2>1, <3>2, AtMoved
    <3> QED BY <1>6, <3>1, <3>2 DEF PrepareAuth
  <2>3. UNCHANGED <<phase, owner>>
    BY <1>6 DEF PrepareAuth
  <2> QED BY <2>1, <2>2, <2>3
<1>7. CASE PrepareAllow(t)
  <2>1. pc[t] = "allow" /\ pc[t] \notin CloseLabels
    BY <1>7 DEF PrepareAllow, Step, CloseLabels
  <2>2. At(t) = pc[t] /\ At(t)' \in {"startQueue"}
    <3>1. UNCHANGED stack /\ \E l \in {"startQueue"} : Goto(t, l)
      BY <1>7 DEF PrepareAllow, Step
    <3> QED BY <2>1, <3>1, AtMoved
  <2>3. UNCHANGED <<phase, owner>>
    BY <1>7 DEF PrepareAllow
  <2> QED BY <2>1, <2>2, <2>3
<1>8. CASE PrepareStartQueue(t)
  <2>1. pc[t] = "startQueue" /\ pc[t] \notin CloseLabels
    BY <1>8 DEF PrepareStartQueue, Step, CloseLabels
  <2>2. At(t) = pc[t] /\ At(t)' \in {"prepFail", "prepCommit"}
    <3>1. UNCHANGED stack /\ \E l \in {"prepFail", "prepCommit"} : Goto(t, l)
      BY <1>8 DEF PrepareStartQueue, Step
    <3> QED BY <2>1, <3>1, AtMoved
  <2>3. UNCHANGED <<phase, owner>>
    BY <1>8 DEF PrepareStartQueue
  <2> QED BY <2>1, <2>2, <2>3
<1>9. CASE PrepareFail(t)
  <2>1. pc[t] = "prepFail" /\ pc[t] \notin CloseLabels
    BY <1>9 DEF PrepareFail, Step, CloseLabels
  <2>2. At(t) = pc[t] /\ At(t)' \in {"idle"}
    <3>1. UNCHANGED stack /\ \E l \in {"idle"} : Goto(t, l)
      BY <1>9 DEF PrepareFail, Step
    <3> QED BY <2>1, <3>1, AtMoved
  <2> QED BY <2>1, <2>2
<1>10. CASE PrepareCommit(t)
  <2>1. pc[t] = "prepCommit" /\ pc[t] \notin CloseLabels
    BY <1>10 DEF PrepareCommit, Step, CloseLabels
  <2>2. At(t) = pc[t] /\ At(t)' \in {"prepStop", "idle", "decide"}
    <3>1. UNCHANGED stack /\ \E l \in {"prepStop", "idle", "decide"} : Goto(t, l)
      BY <1>10 DEF PrepareCommit, Step
    <3> QED BY <2>1, <3>1, AtMoved
  <2> QED BY <2>1, <2>2
<1>11. CASE PrepareStop(t)
  <2>1. pc[t] = "prepStop" /\ pc[t] \notin CloseLabels
    BY <1>11 DEF PrepareStop, Step, CloseLabels
  <2>2. At(t) = pc[t] /\ At(t)' \in {"idle"}
    <3>1. UNCHANGED stack /\ \E l \in {"idle"} : Goto(t, l)
      BY <1>11 DEF PrepareStop, Step
    <3> QED BY <2>1, <3>1, AtMoved
  <2>3. UNCHANGED <<phase, owner>>
    BY <1>11 DEF PrepareStop
  <2> QED BY <2>1, <2>2, <2>3
<1>12. CASE BeginConnect(t)
  <2>1. pc[t] = "idle" /\ pc[t] \notin CloseLabels
    BY <1>12 DEF BeginConnect, Step, CloseLabels
  <2>2. At(t) = pc[t] /\ At(t)' \in {"decide"}
    <3>1. UNCHANGED stack /\ \E l \in {"decide"} : Goto(t, l)
      BY <1>12 DEF BeginConnect, Step
    <3> QED BY <2>1, <3>1, AtMoved
  <2>3. UNCHANGED <<phase, owner>>
    BY <1>12 DEF BeginConnect
  <2> QED BY <2>1, <2>2, <2>3
<1>13. CASE ConnectDecide(t)
  <2>1. pc[t] = "decide" /\ pc[t] \notin CloseLabels
    BY <1>13 DEF ConnectDecide, Step, CloseLabels
  <2>2. At(t) = pc[t] /\ At(t)' \in {"idle", "waitPhase", "prepare", "resume"}
    <3>1. /\ UNCHANGED stack
          /\ \E l \in {"idle", "waitPhase", "prepare", "resume"} : Goto(t, l)
      BY <1>13 DEF ConnectDecide, Step
    <3> QED BY <2>1, <3>1, AtMoved
  <2>3. CASE /\ ~stopReq /\ phase = "Prepared" /\ phase' = "Connecting"
             /\ owner' = t /\ Goto(t, "resume")
    <3>1. At(t)' = "resume"
      BY <1>13, <2>1, <2>3, AtMoved DEF ConnectDecide
    <3> QED BY <2>3, <3>1
  <2>4. CASE /\ UNCHANGED <<phase, owner>>
             /\ \E l \in {"idle", "waitPhase", "prepare"} : Goto(t, l)
    <3>1. At(t)' \in {"idle", "waitPhase", "prepare"}
      BY <1>13, <2>1, <2>4, AtMoved DEF ConnectDecide
    <3> QED BY <2>4, <3>1
  <2> QED BY <1>13, <2>3, <2>4 DEF ConnectDecide
<1>14. CASE ConnectWaitPhase(t)
  <2>1. pc[t] = "waitPhase" /\ pc[t] \notin CloseLabels
    BY <1>14 DEF ConnectWaitPhase, Step, CloseLabels
  <2>2. At(t) = pc[t] /\ At(t)' \in {"idle"}
    <3>1. UNCHANGED stack /\ \E l \in {"idle"} : Goto(t, l)
      BY <1>14 DEF ConnectWaitPhase, Step
    <3> QED BY <2>1, <3>1, AtMoved
  <2>3. UNCHANGED <<phase, owner>>
    BY <1>14 DEF ConnectWaitPhase
  <2> QED BY <2>1, <2>2, <2>3
<1>15. CASE ConnectResume(t)
  <2>1. pc[t] = "resume" /\ pc[t] \notin CloseLabels
    BY <1>15 DEF ConnectResume, Step, CloseLabels
  <2>2. At(t) = pc[t] /\ At(t)' \in {"commit", "login"}
    <3>1. UNCHANGED stack /\ \E l \in {"commit", "login"} : Goto(t, l)
      BY <1>15 DEF ConnectResume, Step
    <3> QED BY <2>1, <3>1, AtMoved
  <2>3. UNCHANGED <<phase, owner>>
    BY <1>15 DEF ConnectResume
  <2> QED BY <2>1, <2>2, <2>3
<1>16. CASE ConnectLogin(t)
  <2>1. pc[t] = "login" /\ pc[t] \notin CloseLabels
    BY <1>16 DEF ConnectLogin, Step, CloseLabels
  <2>2. At(t) = pc[t] /\ At(t)' \in {"recheck", "commit"}
    <3>1. CASE Listener(t, "recheck")
      BY <2>1, <3>1, AtListener
    <3>2. CASE Listener(t, "commit")
      BY <2>1, <3>2, AtListener
    <3> QED BY <1>16, <3>1, <3>2 DEF ConnectLogin
  <2>3. UNCHANGED <<phase, owner>>
    BY <1>16 DEF ConnectLogin
  <2> QED BY <2>1, <2>2, <2>3
<1>17. CASE ConnectRecheck(t)
  <2>1. pc[t] = "recheck" /\ pc[t] \notin CloseLabels
    BY <1>17 DEF ConnectRecheck, Step, CloseLabels
  <2>2. At(t) = pc[t] /\ At(t)' \in {"commit", "reset"}
    <3>1. UNCHANGED stack /\ \E l \in {"commit", "reset"} : Goto(t, l)
      BY <1>17 DEF ConnectRecheck, Step
    <3> QED BY <2>1, <3>1, AtMoved
  <2>3. UNCHANGED <<phase, owner>>
    BY <1>17 DEF ConnectRecheck
  <2> QED BY <2>1, <2>2, <2>3
<1>18. CASE ConnectReset(t)
  <2>1. pc[t] = "reset" /\ pc[t] \notin CloseLabels
    BY <1>18 DEF ConnectReset, Step, CloseLabels
  <2>2. At(t) = pc[t] /\ At(t)' \in {"install"}
    <3>1. UNCHANGED stack /\ \E l \in {"install"} : Goto(t, l)
      BY <1>18 DEF ConnectReset, Step
    <3> QED BY <2>1, <3>1, AtMoved
  <2>3. UNCHANGED <<phase, owner>>
    BY <1>18 DEF ConnectReset
  <2> QED BY <2>1, <2>2, <2>3
<1>19. CASE ConnectInstall(t)
  <2>1. pc[t] = "install" /\ pc[t] \notin CloseLabels
    BY <1>19 DEF ConnectInstall, Step, CloseLabels
  <2>2. At(t) = pc[t] /\ At(t)' \in {"commit", "postInstall"}
    <3>1. UNCHANGED stack /\ \E l \in {"commit", "postInstall"} : Goto(t, l)
      BY <1>19 DEF ConnectInstall, Step
    <3> QED BY <2>1, <3>1, AtMoved
  <2>3. UNCHANGED <<phase, owner>>
    BY <1>19 DEF ConnectInstall
  <2> QED BY <2>1, <2>2, <2>3
<1>20. CASE ConnectPostInstall(t)
  <2>1. pc[t] = "postInstall" /\ pc[t] \notin CloseLabels
    BY <1>20 DEF ConnectPostInstall, Step, CloseLabels
  <2>2. At(t) = pc[t] /\ At(t)' \in {"commit", "rakConnect"}
    <3>1. UNCHANGED stack /\ \E l \in {"commit", "rakConnect"} : Goto(t, l)
      BY <1>20 DEF ConnectPostInstall, Step
    <3> QED BY <2>1, <3>1, AtMoved
  <2>3. UNCHANGED <<phase, owner>>
    BY <1>20 DEF ConnectPostInstall
  <2> QED BY <2>1, <2>2, <2>3
<1>21. CASE ConnectRak(t)
  <2>1. pc[t] = "rakConnect" /\ pc[t] \notin CloseLabels
    BY <1>21 DEF ConnectRak, Step, CloseLabels
  <2>2. At(t) = pc[t] /\ At(t)' \in {"rakWait", "failed"}
    <3>1. pc'[t] \in {"rakWait", "failed"} /\ UNCHANGED stack
      BY <1>21 DEF ConnectRak, Goto
    <3>2. ~(Len(stack[t]) > 0)
      BY <2>1 DEF PlaceInv, Place, Depth
    <3> QED BY <3>1, <3>2 DEF At, Depth
  <2>3. UNCHANGED <<phase, owner>>
    BY <1>21 DEF ConnectRak
  <2> QED BY <2>1, <2>2, <2>3
<1>22. CASE ConnectRakWait(t)
  <2>1. pc[t] = "rakWait" /\ pc[t] \notin CloseLabels
    BY <1>22 DEF ConnectRakWait, Step, CloseLabels
  <2>2. At(t) = pc[t] /\ At(t)' \in {"commitOk", "rakReap", "failed"}
    <3>1. UNCHANGED stack /\ \E l \in {"commitOk", "rakReap", "failed"} : Goto(t, l)
      BY <1>22 DEF ConnectRakWait, Step
    <3> QED BY <2>1, <3>1, AtMoved
  <2>3. UNCHANGED <<phase, owner>>
    BY <1>22 DEF ConnectRakWait
  <2> QED BY <2>1, <2>2, <2>3
<1>23. CASE ConnectRakReap(t)
  <2>1. pc[t] = "rakReap" /\ pc[t] \notin CloseLabels
    BY <1>23 DEF ConnectRakReap, Step, CloseLabels
  <2>2. At(t) = pc[t] /\ At(t)' \in {"failed"}
    <3>1. UNCHANGED stack /\ \E l \in {"failed"} : Goto(t, l)
      BY <1>23 DEF ConnectRakReap, Step
    <3> QED BY <2>1, <3>1, AtMoved
  <2>3. UNCHANGED <<phase, owner>>
    BY <1>23 DEF ConnectRakReap
  <2> QED BY <2>1, <2>2, <2>3
<1>24. CASE ConnectFailed(t)
  <2>1. pc[t] = "failed" /\ pc[t] \notin CloseLabels
    BY <1>24 DEF ConnectFailed, Step, CloseLabels
  <2>2. At(t) = pc[t] /\ At(t)' \in {"failedStatus"}
    <3>1. UNCHANGED stack /\ \E l \in {"failedStatus"} : Goto(t, l)
      BY <1>24 DEF ConnectFailed, Step
    <3> QED BY <2>1, <3>1, AtMoved
  <2>3. UNCHANGED <<phase, owner>>
    BY <1>24 DEF ConnectFailed
  <2> QED BY <2>1, <2>2, <2>3
<1>25. CASE ConnectFailedStatus(t)
  <2>1. pc[t] = "failedStatus" /\ pc[t] \notin CloseLabels
    BY <1>25 DEF ConnectFailedStatus, Step, CloseLabels
  <2>2. At(t) = pc[t] /\ At(t)' \in {"commit"}
    <3>1. CASE Listener(t, "commit")
      BY <2>1, <3>1, AtListener
    <3>2. CASE Goto(t, "commit") /\ UNCHANGED stack
      BY <2>1, <3>2, AtMoved
    <3> QED BY <1>25, <3>1, <3>2 DEF ConnectFailedStatus
  <2>3. UNCHANGED <<phase, owner>>
    BY <1>25 DEF ConnectFailedStatus
  <2> QED BY <2>1, <2>2, <2>3
<1>26. CASE ConnectCommit(t)
  <2>1. pc[t] \in {"commitOk", "commit"} /\ pc[t] \notin CloseLabels
    BY <1>26 DEF ConnectCommit, Step, CloseLabels
  <2>2. At(t) = pc[t] /\ At(t)' \in {"idle"}
    <3>1. UNCHANGED stack /\ \E l \in {"idle"} : Goto(t, l)
      BY <1>26 DEF ConnectCommit, Step
    <3> QED BY <2>1, <3>1, AtMoved
  <2> QED BY <2>1, <2>2
<1>27. CASE BeginClose(t)
  <2>1. pc[t] = "idle" /\ pc[t] \notin CloseLabels
    BY <1>27 DEF BeginClose, Step, CloseLabels
  <2>2. At(t) = pc[t] /\ At(t)' \in {"idle"}
    BY <1>27, <2>1, AtCalled DEF BeginClose
  <2>3. UNCHANGED <<phase, owner>>
    BY <1>27 DEF BeginClose
  <2> QED BY <2>1, <2>2, <2>3
<1>28. CASE BeginRequestStop(t)
  <2>1. pc[t] = "idle" /\ pc[t] \notin CloseLabels
    BY <1>28 DEF BeginRequestStop, Step, CloseLabels
  <2>2. At(t) = pc[t] /\ At(t)' \in {"stopLink"}
    <3>1. UNCHANGED stack /\ \E l \in {"stopLink"} : Goto(t, l)
      BY <1>28 DEF BeginRequestStop, Step
    <3> QED BY <2>1, <3>1, AtMoved
  <2>3. UNCHANGED <<phase, owner>>
    BY <1>28 DEF BeginRequestStop
  <2> QED BY <2>1, <2>2, <2>3
<1>29. CASE RequestStopLink(t)
  <2>1. pc[t] = "stopLink" /\ pc[t] \notin CloseLabels
    BY <1>29 DEF RequestStopLink, Step, CloseLabels
  <2>2. At(t) = pc[t] /\ At(t)' \in {"idle"}
    <3>1. UNCHANGED stack /\ \E l \in {"idle"} : Goto(t, l)
      BY <1>29 DEF RequestStopLink, Step
    <3> QED BY <2>1, <3>1, AtMoved
  <2>3. UNCHANGED <<phase, owner>>
    BY <1>29 DEF RequestStopLink
  <2> QED BY <2>1, <2>2, <2>3
<1> QED
  BY <1>4, <1>5, <1>6, <1>7, <1>8, <1>9, <1>10, <1>11, <1>12, <1>13, <1>14,
     <1>15, <1>16, <1>17, <1>18, <1>19, <1>20, <1>21, <1>22, <1>23, <1>24,
     <1>25, <1>26, <1>27, <1>28, <1>29 DEF Prepare, Connect

\* A close() takes the phase from a preparation only, and after the stop.
LEMMA CloseAttempt ==
    ASSUME TypeOK, PlaceInv, LatchInv, AttemptInv, NEW t \in Threads, Close(t)
    PROVE  AttemptInv'
<1>1. CloseKind(t)
  BY CloseSteps
<1>2. \A u \in Threads : At(u)' = At(u)
  BY <1>1, AtClosing, CloseOthers DEF At, Depth, Base
<1>3. Apps \subseteq Threads
  BY DEF Threads
<1>4. \A u \in Apps : /\ Prepares(u)' <=> Prepares(u)
                      /\ Connects(u)' <=> Connects(u)
  BY <1>2, <1>3 DEF Prepares, Connects
<1>5. UNCHANGED owner /\ (stopReq => stopReq')
      /\ \/ UNCHANGED phase
         \/ phase # "Connecting" /\ phase' = "Idle" /\ stopReq'
  <2>1. CASE CloseFinishPhase(t)
    <3>1. stopReq
      BY <2>1 DEF CloseFinishPhase, Step, LatchInv, AfterStopFlag
    <3> QED BY <2>1, <3>1 DEF CloseFinishPhase
  <2>2. CASE CloseAdmit(t)
    BY <2>2 DEF CloseAdmit, conn
  <2>3. CASE CloseListen(t)
    BY <2>3 DEF CloseListen, conn
  <2>4. CASE CloseStopFlag(t)
    BY <2>4 DEF CloseStopFlag, conn
  <2>5. CASE CloseStopQueue(t)
    BY <2>5 DEF CloseStopQueue, conn
  <2>6. CASE CloseCommit(t)
    BY <2>6 DEF CloseCommit, conn
  <2>7. CASE CloseTake(t)
    BY <2>7 DEF CloseTake, conn
  <2>8. CASE CloseRak(t)
    BY <2>8 DEF CloseRak, conn
  <2>9. CASE CloseRakJoin(t)
    BY <2>9 DEF CloseRakJoin, conn
  <2>10. CASE CloseFinish(t)
    BY <2>10 DEF CloseFinish, conn
  <2>11. CASE CloseRelease(t)
    BY <2>11 DEF CloseRelease, conn
  <2> QED
    BY <2>1, <2>2, <2>3, <2>4, <2>5, <2>6, <2>7, <2>8, <2>9, <2>10, <2>11
       DEF Close
<1> QED BY <1>4, <1>5 DEF AttemptInv

\* The worker moves no application thread ...
LEMMA RakOthers ==
    ASSUME TypeOK, RakKind
    PROVE  \A u \in Apps : pc'[u] = pc[u] /\ stack'[u] = stack[u]
<1>1. pc \in [Threads -> Labels] /\ Apps \subseteq Threads /\ Rak \notin Apps
  BY ThreadAssumption DEF TypeOK, Threads
<1>2. CASE RakMoves
  BY <1>1, <1>2 DEF RakMoves
<1>3. CASE RakCalls
  BY <1>1, <1>3 DEF RakCalls, Pushed
<1> QED BY <1>2, <1>3 DEF RakKind

\* ... and leaves the phase alone.
LEMMA RakAttempt ==
    ASSUME TypeOK, PlaceInv, AttemptInv, RunRak
    PROVE  AttemptInv'
<1>1. UNCHANGED <<owner, phase, stopReq>>
  BY RakShared DEF conn
<1>2. \A u \in Apps : pc'[u] = pc[u] /\ stack'[u] = stack[u]
  BY RakSteps, RakOthers
<1>3. \A u \in Apps : At(u)' = At(u)
  BY <1>2 DEF At, Depth, Base
<1> QED BY <1>1, <1>3 DEF AttemptInv, Prepares, Connects

-----------------------------------------------------------------------------
(* The transport.                                                          *)

Live == {"new", "connecting", "up"}

\* Stopping a transport never brings one to life.
LEMMA StoppedDead ==
    ASSUME TypeOK
    PROVE  /\ Stopped(link) \notin Live
           /\ link \in {"new", "dead"} => Stopped(link) \in {"new", "dead"}
BY DEF TypeOK, Stopped, Live

\* What the parts of LinkInv say of one application thread.
LinkOf(t) ==
    /\ pc[t] \in {"postInstall", "rakConnect"} =>
        pc[Rak] = "off" /\ link \in {"new", "dead"}
    /\ pc[t] \in {"rakClose", "rakJoin"} => ~held
    /\ pc[t] \in {"finish", "finishPhase", "release"} /\ Takes(t) => ~held

\* A thread that installs or connects a transport is alone in that, and a
\* thread that closes has stopped those who would install one.
LEMMA OneInstaller ==
    ASSUME AttemptInv, PlaceInv, NEW t \in Apps, NEW u \in Apps,
           pc[t] \in ConnectLabels \ {"decide", "waitPhase"},
           pc[u] \in ConnectLabels \ {"decide", "waitPhase"}
    PROVE  u = t
<1>1. pc[t] \notin CloseLabels /\ pc[u] \notin CloseLabels
  BY DEF ConnectLabels, CloseLabels
<1>2. ~(Depth(t) > 0) /\ ~(Depth(u) > 0)
  BY <1>1 DEF PlaceInv, Place, Threads
<1>3. At(t) = pc[t] /\ At(u) = pc[u]
  BY <1>2 DEF At
<1> QED BY <1>3 DEF AttemptInv, Connects

\* A step that moves one application thread at most, and leaves the transport
\* alone but for stopping it.
LEMMA LinkQuiet ==
    ASSUME TypeOK, LinkInv, NEW t \in Apps,
           \A u \in Apps : u # t => pc'[u] = pc[u] /\ stack'[u] = stack[u],
           pc'[Rak] = pc[Rak], UNCHANGED held,
           link' = link \/ link' = Stopped(link),
           pc[t] \notin {"rakClose", "rakJoin"}, LinkOf(t)'
    PROVE  LinkInv'
<1>1. /\ link' \in Live => link \in Live
      /\ link \in {"new", "dead"} => link' \in {"new", "dead"}
  BY StoppedDead
<1>2. ASSUME NEW u \in Apps PROVE LinkOf(u)'
  <2>1. CASE u = t
    BY <2>1
  <2>2. CASE u # t
    <3>1. LinkOf(u)
      BY DEF LinkInv, LinkOf
    <3> QED BY <1>1, <2>2, <3>1 DEF LinkOf, Takes, Depth, Base
  <2> QED BY <2>1, <2>2
<1>3. ~held' /\ link' \in Live => \E u \in Apps : pc'[u] = "rakClose"
  BY <1>1 DEF LinkInv, Live
<1>4. ~held' /\ pc'[Rak] # "off" =>
        \E u \in Apps : pc'[u] \in {"rakClose", "rakJoin"}
  BY DEF LinkInv
<1> QED BY <1>2, <1>3, <1>4 DEF LinkInv, LinkOf, Live

\* connect() installs a transport only before a stop, and takes it back itself
\* when the stop came in between.
LEMMA AppLink ==
    ASSUME TypeOK, PlaceInv, AttemptInv, LatchInv, LinkInv, NEW t \in Apps,
           \/ Prepare(t) \/ Connect(t) \/ BeginClose(t) \/ BeginRequestStop(t)
           \/ RequestStopLink(t)
    PROVE  LinkInv'
<1>1. \A u \in Apps : u # t => pc'[u] = pc[u] /\ stack'[u] = stack[u]
  BY AppSteps, AppOthers
<1>2. /\ t \in Threads /\ t # Rak /\ Rak \in Threads
      /\ pc \in [Threads -> Labels] /\ prepRet[t] \in {"idle", "decide"}
      /\ LinkOf(t)
  BY ThreadAssumption DEF Threads, TypeOK, PlaceInv, Place, LinkInv, LinkOf
<1>3. CASE BeginPrepare(t)
  <2>1. pc[t] = "idle" /\ UNCHANGED held /\ UNCHANGED link
    BY <1>3 DEF BeginPrepare, Step, transport
  <2>2. pc'[t] \in {"prepare"} /\ pc'[Rak] = pc[Rak]
    BY <1>2, <1>3 DEF BeginPrepare, Step, Goto
  <2>3. LinkOf(t)'
    BY <2>2 DEF LinkOf
  <2> QED BY <1>1, <2>1, <2>2, <2>3, LinkQuiet
<1>4. CASE PrepareAdmit(t)
  <2>1. pc[t] = "prepare" /\ UNCHANGED held /\ UNCHANGED link
    BY <1>4 DEF PrepareAdmit, Step, transport
  <2>2. pc'[t] \in {"idle", "decide", "auth"} /\ pc'[Rak] = pc[Rak]
    BY <1>2, <1>4 DEF PrepareAdmit, Step, Goto
  <2>3. LinkOf(t)'
    BY <2>2 DEF LinkOf
  <2> QED BY <1>1, <2>1, <2>2, <2>3, LinkQuiet
<1>5. CASE PrepareAuth(t)
  <2>1. /\ pc[t] = "auth" /\ UNCHANGED <<held, link>>
        /\ \E l \in {"admit", "allow", "prepFail", "recheck", "commit"} : Goto(t, l)
    BY <1>5 DEF PrepareAuth, Listener, EmitClose, transport
  <2>2. /\ pc'[t] \in {"admit", "allow", "prepFail", "recheck", "commit"}
        /\ pc'[Rak] = pc[Rak]
    BY <1>2, <2>1 DEF Goto
  <2>3. LinkOf(t)'
    BY <2>2 DEF LinkOf
  <2> QED BY <1>1, <2>1, <2>2, <2>3, LinkQuiet
<1>6. CASE PrepareAllow(t)
  <2>1. pc[t] = "allow" /\ UNCHANGED held /\ UNCHANGED link
    BY <1>6 DEF PrepareAllow, Step, transport
  <2>2. pc'[t] \in {"startQueue"} /\ pc'[Rak] = pc[Rak]
    BY <1>2, <1>6 DEF PrepareAllow, Step, Goto
  <2>3. LinkOf(t)'
    BY <2>2 DEF LinkOf
  <2> QED BY <1>1, <2>1, <2>2, <2>3, LinkQuiet
<1>7. CASE PrepareStartQueue(t)
  <2>1. pc[t] = "startQueue" /\ UNCHANGED held /\ UNCHANGED link
    BY <1>7 DEF PrepareStartQueue, Step, transport
  <2>2. pc'[t] \in {"prepFail", "prepCommit"} /\ pc'[Rak] = pc[Rak]
    BY <1>2, <1>7 DEF PrepareStartQueue, Step, Goto
  <2>3. LinkOf(t)'
    BY <2>2 DEF LinkOf
  <2> QED BY <1>1, <2>1, <2>2, <2>3, LinkQuiet
<1>8. CASE PrepareFail(t)
  <2>1. pc[t] = "prepFail" /\ UNCHANGED held /\ UNCHANGED link
    BY <1>8 DEF PrepareFail, Step, transport
  <2>2. pc'[t] \in {"idle"} /\ pc'[Rak] = pc[Rak]
    BY <1>2, <1>8 DEF PrepareFail, Step, Goto
  <2>3. LinkOf(t)'
    BY <2>2 DEF LinkOf
  <2> QED BY <1>1, <2>1, <2>2, <2>3, LinkQuiet
<1>9. CASE PrepareCommit(t)
  <2>1. pc[t] = "prepCommit" /\ UNCHANGED held /\ UNCHANGED link
    BY <1>9 DEF PrepareCommit, Step, transport
  <2>2. pc'[t] \in {"prepStop", "idle", "decide"} /\ pc'[Rak] = pc[Rak]
    BY <1>2, <1>9 DEF PrepareCommit, Step, Goto
  <2>3. LinkOf(t)'
    BY <2>2 DEF LinkOf
  <2> QED BY <1>1, <2>1, <2>2, <2>3, LinkQuiet
<1>10. CASE PrepareStop(t)
  <2>1. pc[t] = "prepStop" /\ UNCHANGED held /\ UNCHANGED link
    BY <1>10 DEF PrepareStop, Step, transport
  <2>2. pc'[t] \in {"idle"} /\ pc'[Rak] = pc[Rak]
    BY <1>2, <1>10 DEF PrepareStop, Step, Goto
  <2>3. LinkOf(t)'
    BY <2>2 DEF LinkOf
  <2> QED BY <1>1, <2>1, <2>2, <2>3, LinkQuiet
<1>11. CASE BeginConnect(t)
  <2>1. pc[t] = "idle" /\ UNCHANGED held /\ UNCHANGED link
    BY <1>11 DEF BeginConnect, Step, transport
  <2>2. pc'[t] \in {"decide"} /\ pc'[Rak] = pc[Rak]
    BY <1>2, <1>11 DEF BeginConnect, Step, Goto
  <2>3. LinkOf(t)'
    BY <2>2 DEF LinkOf
  <2> QED BY <1>1, <2>1, <2>2, <2>3, LinkQuiet
<1>12. CASE ConnectDecide(t)
  <2>1. pc[t] = "decide" /\ UNCHANGED held /\ UNCHANGED link
    BY <1>12 DEF ConnectDecide, Step, transport
  <2>2. pc'[t] \in {"idle", "waitPhase", "prepare", "resume"} /\ pc'[Rak] = pc[Rak]
    BY <1>2, <1>12 DEF ConnectDecide, Step, Goto
  <2>3. LinkOf(t)'
    BY <2>2 DEF LinkOf
  <2> QED BY <1>1, <2>1, <2>2, <2>3, LinkQuiet
<1>13. CASE ConnectWaitPhase(t)
  <2>1. pc[t] = "waitPhase" /\ UNCHANGED held /\ UNCHANGED link
    BY <1>13 DEF ConnectWaitPhase, Step, transport
  <2>2. pc'[t] \in {"idle"} /\ pc'[Rak] = pc[Rak]
    BY <1>2, <1>13 DEF ConnectWaitPhase, Step, Goto
  <2>3. LinkOf(t)'
    BY <2>2 DEF LinkOf
  <2> QED BY <1>1, <2>1, <2>2, <2>3, LinkQuiet
<1>14. CASE ConnectResume(t)
  <2>1. pc[t] = "resume" /\ UNCHANGED held /\ UNCHANGED link
    BY <1>14 DEF ConnectResume, Step, transport
  <2>2. pc'[t] \in {"commit", "login"} /\ pc'[Rak] = pc[Rak]
    BY <1>2, <1>14 DEF ConnectResume, Step, Goto
  <2>3. LinkOf(t)'
    BY <2>2 DEF LinkOf
  <2> QED BY <1>1, <2>1, <2>2, <2>3, LinkQuiet
<1>15. CASE ConnectLogin(t)
  <2>1. /\ pc[t] = "login" /\ UNCHANGED <<held, link>>
        /\ \E l \in {"admit", "allow", "prepFail", "recheck", "commit"} : Goto(t, l)
    BY <1>15 DEF ConnectLogin, Listener, EmitClose, transport
  <2>2. /\ pc'[t] \in {"admit", "allow", "prepFail", "recheck", "commit"}
        /\ pc'[Rak] = pc[Rak]
    BY <1>2, <2>1 DEF Goto
  <2>3. LinkOf(t)'
    BY <2>2 DEF LinkOf
  <2> QED BY <1>1, <2>1, <2>2, <2>3, LinkQuiet
<1>16. CASE ConnectRecheck(t)
  <2>1. pc[t] = "recheck" /\ UNCHANGED held /\ UNCHANGED link
    BY <1>16 DEF ConnectRecheck, Step, transport
  <2>2. pc'[t] \in {"commit", "reset"} /\ pc'[Rak] = pc[Rak]
    BY <1>2, <1>16 DEF ConnectRecheck, Step, Goto
  <2>3. LinkOf(t)'
    BY <2>2 DEF LinkOf
  <2> QED BY <1>1, <2>1, <2>2, <2>3, LinkQuiet
<1>17. CASE ConnectReset(t)
  <2>1. pc[t] = "reset" /\ UNCHANGED held /\ UNCHANGED link
    BY <1>17 DEF ConnectReset, Step, transport
  <2>2. pc'[t] \in {"install"} /\ pc'[Rak] = pc[Rak]
    BY <1>2, <1>17 DEF ConnectReset, Step, Goto
  <2>3. LinkOf(t)'
    BY <2>2 DEF LinkOf
  <2> QED BY <1>1, <2>1, <2>2, <2>3, LinkQuiet
<1>18. CASE ConnectInstall(t)
  <2>1. CASE stopReq
    <3>1. /\ pc[t] = "install" /\ pc'[t] = "commit" /\ UNCHANGED <<held, link>>
          /\ pc'[Rak] = pc[Rak]
      BY <1>2, <1>18, <2>1 DEF ConnectInstall, Goto, transport
    <3>2. LinkOf(t)'
      BY <3>1 DEF LinkOf
    <3> QED BY <1>1, <3>1, <3>2, LinkQuiet
  <2>2. CASE ~stopReq
    <3>1. /\ pc[t] = "install" /\ pc'[t] = "postInstall" /\ pc'[Rak] = "off"
          /\ held' /\ link' = "new"
      BY <1>2, <1>18, <2>2 DEF ConnectInstall, Goto
    <3>2. ASSUME NEW u \in Apps PROVE LinkOf(u)'
      <4>1. CASE u = t
        BY <3>1, <4>1 DEF LinkOf
      <4>2. CASE u # t
        <5>1. pc'[u] = pc[u] /\ u \in Threads
          BY <1>1, <4>2 DEF Threads
        <5>2. pc[u] \notin AfterStopFlag
          BY <2>2, <5>1 DEF LatchInv
        <5>3. pc[u] \notin {"postInstall", "rakConnect"}
          BY <3>1, <4>2, OneInstaller DEF ConnectLabels
        <5> QED BY <5>1, <5>2, <5>3 DEF LinkOf, AfterStopFlag
      <4> QED BY <4>1, <4>2
    <3> QED BY <3>1, <3>2 DEF LinkInv, LinkOf
  <2> QED BY <2>1, <2>2
<1>19. CASE ConnectPostInstall(t)
  <2>1. CASE stopReq
    <3>1. /\ pc[t] = "postInstall" /\ pc'[t] = "commit" /\ ~held'
          /\ link' = Stopped(link) /\ pc'[Rak] = pc[Rak]
      BY <1>2, <1>19, <2>1 DEF ConnectPostInstall, Goto
    <3>2. pc[Rak] = "off" /\ link' \notin Live
      BY <1>2, <3>1, StoppedDead DEF LinkOf
    <3>3. ASSUME NEW u \in Apps PROVE LinkOf(u)'
      <4>1. CASE u = t
        BY <3>1, <4>1 DEF LinkOf
      <4>2. CASE u # t
        <5>1. pc'[u] = pc[u]
          BY <1>1, <4>2
        <5>2. pc[u] \notin {"postInstall", "rakConnect"}
          BY <3>1, <4>2, OneInstaller DEF ConnectLabels
        <5> QED BY <3>1, <5>1, <5>2 DEF LinkOf
      <4> QED BY <4>1, <4>2
    <3> QED BY <3>1, <3>2, <3>3 DEF LinkInv, LinkOf, Live
  <2>2. CASE ~stopReq
    <3>1. /\ pc[t] = "postInstall" /\ pc'[t] = "rakConnect"
          /\ UNCHANGED <<held, link>> /\ pc'[Rak] = pc[Rak]
      BY <1>2, <1>19, <2>2 DEF ConnectPostInstall, Goto
    <3>2. LinkOf(t)'
      BY <1>2, <3>1 DEF LinkOf
    <3> QED BY <1>1, <3>1, <3>2, LinkQuiet
  <2> QED BY <2>1, <2>2
<1>20. CASE ConnectRak(t)
  <2>1. pc[t] = "rakConnect" /\ UNCHANGED <<held, stack>>
    BY <1>20 DEF ConnectRak
  <2>2. CASE link' = Stopped(link) /\ Goto(t, "failed")
    <3>1. pc'[t] = "failed" /\ pc'[Rak] = pc[Rak]
      BY <1>2, <2>2 DEF Goto
    <3>2. LinkOf(t)'
      BY <3>1 DEF LinkOf
    <3> QED BY <1>1, <2>1, <2>2, <3>1, <3>2, LinkQuiet
  <2>3. CASE /\ link = "new"
             /\ pc' = [pc EXCEPT ![t] = "rakWait", ![Rak] = "loop"]
    <3>1. pc'[t] = "rakWait"
      BY <1>2, <2>3
    <3>2. ASSUME NEW u \in Apps PROVE LinkOf(u)'
      <4>1. CASE u = t
        BY <3>1, <4>1 DEF LinkOf
      <4>2. CASE u # t
        <5>1. pc'[u] = pc[u] /\ stack'[u] = stack[u] /\ LinkOf(u)
          BY <1>1, <4>2 DEF LinkInv, LinkOf
        <5>2. pc[u] \notin {"postInstall", "rakConnect"}
          BY <2>1, <4>2, OneInstaller DEF ConnectLabels
        <5> QED BY <2>1, <5>1, <5>2 DEF LinkOf, Takes, Depth, Base
      <4> QED BY <4>1, <4>2
    <3>3. ~held' => \E u \in Apps : pc'[u] = "rakClose"
      <4>1. ~held => \E u \in Apps : pc[u] = "rakClose"
        BY <2>3 DEF LinkInv
      <4> QED BY <1>1, <2>1, <4>1
    <3> QED BY <3>2, <3>3 DEF LinkInv, LinkOf
  <2> QED BY <1>20, <2>2, <2>3 DEF ConnectRak
<1>21. CASE ConnectRakWait(t)
  <2>1. pc[t] = "rakWait" /\ UNCHANGED held
        /\ (link' = link \/ link' = Stopped(link))
    BY <1>21 DEF ConnectRakWait, Step, transport, Stopped
  <2>2. pc'[t] \in {"commitOk", "rakReap", "failed"} /\ pc'[Rak] = pc[Rak]
    BY <1>2, <1>21 DEF ConnectRakWait, Step, Goto
  <2>3. LinkOf(t)'
    BY <2>2 DEF LinkOf
  <2> QED BY <1>1, <2>1, <2>2, <2>3, LinkQuiet
<1>22. CASE ConnectRakReap(t)
  <2>1. pc[t] = "rakReap" /\ UNCHANGED held /\ UNCHANGED link
    BY <1>22 DEF ConnectRakReap, Step, transport
  <2>2. pc'[t] \in {"failed"} /\ pc'[Rak] = pc[Rak]
    BY <1>2, <1>22 DEF ConnectRakReap, Step, Goto
  <2>3. LinkOf(t)'
    BY <2>2 DEF LinkOf
  <2> QED BY <1>1, <2>1, <2>2, <2>3, LinkQuiet
<1>23. CASE ConnectFailed(t)
  <2>1. pc[t] = "failed" /\ UNCHANGED held /\ UNCHANGED link
    BY <1>23 DEF ConnectFailed, Step, transport
  <2>2. pc'[t] \in {"failedStatus"} /\ pc'[Rak] = pc[Rak]
    BY <1>2, <1>23 DEF ConnectFailed, Step, Goto
  <2>3. LinkOf(t)'
    BY <2>2 DEF LinkOf
  <2> QED BY <1>1, <2>1, <2>2, <2>3, LinkQuiet
<1>24. CASE ConnectFailedStatus(t)
  <2>1. /\ pc[t] = "failedStatus" /\ UNCHANGED <<held, link>>
        /\ \E l \in {"admit", "allow", "prepFail", "recheck", "commit"} : Goto(t, l)
    BY <1>24 DEF ConnectFailedStatus, Listener, EmitClose, transport
  <2>2. /\ pc'[t] \in {"admit", "allow", "prepFail", "recheck", "commit"}
        /\ pc'[Rak] = pc[Rak]
    BY <1>2, <2>1 DEF Goto
  <2>3. LinkOf(t)'
    BY <2>2 DEF LinkOf
  <2> QED BY <1>1, <2>1, <2>2, <2>3, LinkQuiet
<1>25. CASE ConnectCommit(t)
  <2>1. pc[t] \in {"commitOk", "commit"} /\ UNCHANGED held /\ UNCHANGED link
    BY <1>25 DEF ConnectCommit, Step, transport
  <2>2. pc'[t] \in {"idle"} /\ pc'[Rak] = pc[Rak]
    BY <1>2, <1>25 DEF ConnectCommit, Step, Goto
  <2>3. LinkOf(t)'
    BY <2>2 DEF LinkOf
  <2> QED BY <1>1, <2>1, <2>2, <2>3, LinkQuiet
<1>26. CASE BeginClose(t)
  <2>1. /\ pc[t] = "idle" /\ UNCHANGED <<held, link>>
        /\ \E l \in {"admit", "allow", "prepFail", "recheck", "commit"} : Goto(t, l)
    BY <1>26 DEF BeginClose, Listener, EmitClose, transport
  <2>2. /\ pc'[t] \in {"admit", "allow", "prepFail", "recheck", "commit"}
        /\ pc'[Rak] = pc[Rak]
    BY <1>2, <2>1 DEF Goto
  <2>3. LinkOf(t)'
    BY <2>2 DEF LinkOf
  <2> QED BY <1>1, <2>1, <2>2, <2>3, LinkQuiet
<1>27. CASE BeginRequestStop(t)
  <2>1. pc[t] = "idle" /\ UNCHANGED held /\ UNCHANGED link
    BY <1>27 DEF BeginRequestStop, Step, transport
  <2>2. pc'[t] \in {"stopLink"} /\ pc'[Rak] = pc[Rak]
    BY <1>2, <1>27 DEF BeginRequestStop, Step, Goto
  <2>3. LinkOf(t)'
    BY <2>2 DEF LinkOf
  <2> QED BY <1>1, <2>1, <2>2, <2>3, LinkQuiet
<1>28. CASE RequestStopLink(t)
  <2>1. pc[t] = "stopLink" /\ UNCHANGED held
        /\ (link' = link \/ link' = Stopped(link))
    BY <1>28 DEF RequestStopLink, Step, transport
  <2>2. pc'[t] \in {"idle"} /\ pc'[Rak] = pc[Rak]
    BY <1>2, <1>28 DEF RequestStopLink, Step, Goto
  <2>3. LinkOf(t)'
    BY <2>2 DEF LinkOf
  <2> QED BY <1>1, <2>1, <2>2, <2>3, LinkQuiet
<1> QED
  BY <1>3, <1>4, <1>5, <1>6, <1>7, <1>8, <1>9, <1>10, <1>11, <1>12, <1>13,
     <1>14, <1>15, <1>16, <1>17, <1>18, <1>19, <1>20, <1>21, <1>22, <1>23,
     <1>24, <1>25, <1>26, <1>27, <1>28 DEF Prepare, Connect

\* The worker runs only while nobody is about to start one.
LEMMA WorkerLink ==
    ASSUME LinkInv, pc[Rak] # "off", UNCHANGED held,
           link' \in Live => link \in Live,
           \A u \in Apps : pc'[u] = pc[u] /\ stack'[u] = stack[u]
    PROVE  LinkInv'
<1>1. ASSUME NEW u \in Apps PROVE LinkOf(u)'
  <2>1. LinkOf(u)
    BY DEF LinkInv, LinkOf
  <2> QED BY <2>1 DEF LinkOf, Takes, Depth, Base
<1>2. ~held' /\ link' \in Live => \E u \in Apps : pc'[u] = "rakClose"
  BY DEF LinkInv, Live
<1>3. ~held' => \E u \in Apps : pc'[u] \in {"rakClose", "rakJoin"}
  BY DEF LinkInv
<1> QED BY <1>1, <1>2, <1>3 DEF LinkInv, LinkOf, Live

\* The worker's own steps.
LEMMA RakLink ==
    ASSUME TypeOK, PlaceInv, LinkInv, RunRak
    PROVE  LinkInv'
<1>1. \A u \in Apps : pc'[u] = pc[u] /\ stack'[u] = stack[u]
  BY RakSteps, RakOthers
<1>2. UNCHANGED held
  BY RakShared
<1>3. CASE RakAccepted
  <2>1. pc[Rak] # "off" /\ (link' \in Live => link \in Live)
    BY <1>3 DEF RakAccepted, Step, Live, transport
  <2> QED BY <1>1, <1>2, <2>1, WorkerLink
<1>4. CASE RakPayload
  <2>1. pc[Rak] # "off" /\ (link' \in Live => link \in Live)
    BY <1>4 DEF RakPayload, Step, Live, transport
  <2> QED BY <1>1, <1>2, <2>1, WorkerLink
<1>5. CASE RakPacket
  <2>1. pc[Rak] # "off" /\ (link' \in Live => link \in Live)
    BY <1>5 DEF RakPacket, Step, Live, transport
  <2> QED BY <1>1, <1>2, <2>1, WorkerLink
<1>6. CASE RakStatusEmit
  <2>1. pc[Rak] # "off" /\ (link' \in Live => link \in Live)
    BY <1>6 DEF RakStatusEmit, Step, Live, transport
  <2> QED BY <1>1, <1>2, <2>1, WorkerLink
<1>7. CASE RakStatusStore
  <2>1. pc[Rak] # "off" /\ (link' \in Live => link \in Live)
    BY <1>7 DEF RakStatusStore, Step, Live, transport
  <2> QED BY <1>1, <1>2, <2>1, WorkerLink
<1>8. CASE RakLost
  <2>1. pc[Rak] # "off" /\ (link' \in Live => link \in Live)
    BY <1>8 DEF RakLost, Step, Live, transport
  <2> QED BY <1>1, <1>2, <2>1, WorkerLink
<1>9. CASE RakExit
  <2>1. pc[Rak] # "off" /\ (link' \in Live => link \in Live)
    BY <1>9 DEF RakExit, Step, Live, transport
  <2> QED BY <1>1, <1>2, <2>1, WorkerLink
<1> QED
  BY <1>3, <1>4, <1>5, <1>6, <1>7, <1>8, <1>9 DEF RunRak

\* A close() of an application thread takes the transport, stops it and waits
\* for its worker; on the worker it leaves the transport to its owner.
LEMMA CloseLink ==
    ASSUME TypeOK, PlaceInv, LinkInv, NEW t \in Threads, Close(t)
    PROVE  LinkInv'
<1>1. CloseKind(t)
  BY CloseSteps
<1>2. /\ \A u \in Threads : u # t => pc'[u] = pc[u] /\ stack'[u] = stack[u]
      /\ Apps \subseteq Threads /\ Rak \in Threads /\ Rak \notin Apps
  BY <1>1, CloseOthers, ThreadAssumption DEF Threads
<1>3. pc \in [Threads -> Labels] /\ pc[t] \in CloseLabels
  BY <1>1 DEF TypeOK, CloseKind
<1>4. CASE t = Rak
  <2>1. pc[Rak] # "off"
    BY <1>3, <1>4 DEF CloseLabels
  <2>2. UNCHANGED held /\ (link' = link \/ link' = Stopped(link))
    <3>1. CASE CloseAdmit(t)
      BY <1>4, <3>1 DEF CloseAdmit, transport
    <3>2. CASE CloseListen(t)
      BY <1>4, <3>2 DEF CloseListen, transport
    <3>3. CASE CloseStopFlag(t)
      BY <1>4, <3>3 DEF CloseStopFlag, transport
    <3>4. CASE CloseStopQueue(t)
      BY <1>4, <3>4 DEF CloseStopQueue, transport
    <3>5. CASE CloseCommit(t)
      BY <1>4, <3>5 DEF CloseCommit, transport
    <3>6. CASE CloseTake(t)
      BY <1>4, <3>6 DEF CloseTake, TypeOK
    <3>7. CASE CloseRak(t)
      BY <1>4, <3>7 DEF CloseRak, transport
    <3>8. CASE CloseRakJoin(t)
      BY <1>4, <3>8 DEF CloseRakJoin, transport
    <3>9. CASE CloseFinish(t)
      BY <1>4, <3>9 DEF CloseFinish, transport
    <3>10. CASE CloseFinishPhase(t)
      BY <1>4, <3>10 DEF CloseFinishPhase, transport
    <3>11. CASE CloseRelease(t)
      BY <1>4, <3>11 DEF CloseRelease, transport
    <3> QED
      BY <3>1, <3>2, <3>3, <3>4, <3>5, <3>6, <3>7, <3>8, <3>9, <3>10, <3>11
         DEF Close
  <2>3. link' \in Live => link \in Live
    BY <2>2, StoppedDead
  <2> QED BY <1>2, <1>4, <2>1, <2>2, <2>3, WorkerLink
<1>5. CASE t \in Apps
  <2>1. pc'[Rak] = pc[Rak] /\ LinkOf(t)
    BY <1>2, <1>5 DEF LinkInv, LinkOf
  <2>2. \A u \in Apps : u # t => pc'[u] = pc[u] /\ stack'[u] = stack[u]
    BY <1>2
  <2>3. \A u \in Apps : LinkOf(u)
    BY DEF LinkInv, LinkOf
  <2>4. ASSUME Popped(t)
        PROVE  pc'[t] \notin {"postInstall", "rakConnect", "rakClose", "rakJoin",
                              "finish", "finishPhase", "release"}
    <3>1. Depth(t) > 0 /\ Place(t)
      BY <1>3, InClose DEF PlaceInv
    <3>2. Base(t).ret \in {"idle", "allow", "recheck", "commit"}
      BY <1>5, <3>1 DEF Place
    <3> QED BY <1>3, <2>4, <3>2 DEF Popped
  <2>5. CASE CloseAdmit(t)
    <3>1. UNCHANGED <<held, link>> /\ pc[t] = "admit"
      BY <2>5 DEF CloseAdmit, transport
    <3>2. Return(t) \/ pc'[t] = "listen"
      BY <1>3, <2>5 DEF CloseAdmit, Goto
    <3>3. Return(t) => Popped(t)
      BY <1>3, InClose, ReturnPops
    <3>4. LinkOf(t)'
      BY <2>4, <3>2, <3>3 DEF LinkOf
    <3> QED BY <1>5, <2>1, <2>2, <3>1, <3>4, LinkQuiet
  <2>6. CASE CloseListen(t)
    <3>1. UNCHANGED <<held, link>> /\ pc[t] = "listen"
      BY <2>6 DEF CloseListen, Step, transport
    <3>2. pc'[t] \in {"admit", "stopFlag", "abort", "stopQueue", "commitClose",
                      "take"}
      BY <1>3, <2>6 DEF CloseListen, Step, Goto, EmitClose
    <3>3. LinkOf(t)'
      BY <3>2 DEF LinkOf
    <3> QED BY <1>5, <2>1, <2>2, <3>1, <3>3, LinkQuiet
  <2>7. CASE CloseStopFlag(t)
    <3>1. UNCHANGED <<held, link>> /\ pc[t] = "stopFlag"
      BY <2>7 DEF CloseStopFlag, Step, transport
    <3>2. pc'[t] \in {"admit", "stopFlag", "abort", "stopQueue", "commitClose",
                      "take"}
      BY <1>3, <2>7 DEF CloseStopFlag, Step, Goto, EmitClose
    <3>3. LinkOf(t)'
      BY <3>2 DEF LinkOf
    <3> QED BY <1>5, <2>1, <2>2, <3>1, <3>3, LinkQuiet
  <2>8. CASE CloseStopQueue(t)
    <3>1. UNCHANGED <<held, link>> /\ pc[t] = "stopQueue"
      BY <2>8 DEF CloseStopQueue, Step, transport
    <3>2. pc'[t] \in {"admit", "stopFlag", "abort", "stopQueue", "commitClose",
                      "take"}
      BY <1>3, <2>8 DEF CloseStopQueue, Step, Goto, EmitClose
    <3>3. LinkOf(t)'
      BY <3>2 DEF LinkOf
    <3> QED BY <1>5, <2>1, <2>2, <3>1, <3>3, LinkQuiet
  <2>9. CASE CloseCommit(t)
    <3>1. UNCHANGED <<held, link>> /\ pc[t] = "commitClose"
      BY <2>9 DEF CloseCommit, Step, transport
    <3>2. pc'[t] \in {"admit", "stopFlag", "abort", "stopQueue", "commitClose",
                      "take"}
      BY <1>3, <2>9 DEF CloseCommit, Step, Goto, EmitClose
    <3>3. LinkOf(t)'
      BY <3>2 DEF LinkOf
    <3> QED BY <1>5, <2>1, <2>2, <3>1, <3>3, LinkQuiet
  <2>10. CASE CloseTake(t)
    <3>1. pc[t] = "take" /\ UNCHANGED <<link, stack>>
      BY <2>10 DEF CloseTake
    <3>2. Frame(t).trans <=> Takes(t)
      BY <1>3, InClose, TopFrame
    <3>3. CASE Frame(t).trans /\ held
      <4>1. pc'[t] = "rakClose" /\ ~held'
        BY <1>2, <1>3, <1>5, <2>10, <3>3 DEF CloseTake, Goto
      <4>2. ASSUME NEW u \in Apps PROVE LinkOf(u)'
        <5>1. CASE u = t
          BY <4>1, <5>1 DEF LinkOf
        <5>2. CASE u # t
          BY <2>1, <2>2, <2>3, <3>1, <4>1, <5>2 DEF LinkOf
        <5> QED BY <5>1, <5>2
      <4> QED BY <1>5, <4>1, <4>2 DEF LinkInv, LinkOf
    <3>4. CASE ~(Frame(t).trans /\ held)
      <4>1. pc'[t] = "finish" /\ UNCHANGED held
        BY <1>3, <2>10, <3>4 DEF CloseTake, Goto
      <4>2. Takes(t)' <=> Takes(t)
        BY <3>1 DEF Takes, Depth, Base
      <4>3. LinkOf(t)'
        BY <3>2, <3>4, <4>1, <4>2 DEF LinkOf
      <4> QED BY <1>5, <2>1, <2>2, <3>1, <4>1, <4>3, LinkQuiet
    <3> QED BY <3>3, <3>4
  <2>11. CASE CloseRak(t)
    <3>1. /\ pc[t] = "rakClose" /\ pc'[t] = "rakJoin" /\ UNCHANGED held
          /\ link' = Stopped(link)
      BY <1>3, <2>11 DEF CloseRak, Step, Goto
    <3>2. /\ link' \notin Live
          /\ link \in {"new", "dead"} => link' \in {"new", "dead"}
      BY <3>1, StoppedDead
    <3>3. ASSUME NEW u \in Apps PROVE LinkOf(u)'
      <4>1. CASE u = t
        BY <2>1, <3>1, <4>1 DEF LinkOf
      <4>2. CASE u # t
        BY <2>1, <2>2, <2>3, <3>1, <3>2, <4>2 DEF LinkOf, Takes, Depth, Base
      <4> QED BY <4>1, <4>2
    <3> QED BY <1>5, <3>1, <3>2, <3>3 DEF LinkInv, LinkOf, Live
  <2>12. CASE CloseRakJoin(t)
    <3>1. /\ pc[t] = "rakJoin" /\ pc'[t] = "finish" /\ pc[Rak] = "off"
          /\ UNCHANGED <<held, link>>
      BY <1>2, <1>3, <1>5, <2>12 DEF CloseRakJoin, Step, Goto, transport
    <3>2. ASSUME NEW u \in Apps PROVE LinkOf(u)'
      <4>1. CASE u = t
        BY <2>1, <3>1, <4>1 DEF LinkOf
      <4>2. CASE u # t
        BY <2>1, <2>2, <2>3, <3>1, <4>2 DEF LinkOf, Takes, Depth, Base
      <4> QED BY <4>1, <4>2
    <3>3. ~held' /\ link' \in Live => \E u \in Apps : pc'[u] = "rakClose"
      <4>1. ~held /\ link \in Live => \E u \in Apps : pc[u] = "rakClose"
        BY DEF LinkInv, Live
      <4> QED BY <2>2, <3>1, <4>1
    <3> QED BY <2>1, <3>1, <3>2, <3>3 DEF LinkInv, LinkOf, Live
  <2>13. CASE CloseFinish(t)
    <3>1. /\ UNCHANGED <<held, link, stack>> /\ pc[t] = "finish"
          /\ pc'[t] = "finishPhase"
      BY <1>3, <2>13 DEF CloseFinish, Step, Goto, transport
    <3>2. LinkOf(t)'
      BY <2>1, <3>1 DEF LinkOf, Takes, Depth, Base
    <3> QED BY <1>5, <2>1, <2>2, <3>1, <3>2, LinkQuiet
  <2>14. CASE CloseFinishPhase(t)
    <3>1. /\ UNCHANGED <<held, link, stack>> /\ pc[t] = "finishPhase"
          /\ pc'[t] = "release"
      BY <1>3, <2>14 DEF CloseFinishPhase, Step, Goto, transport
    <3>2. LinkOf(t)'
      BY <2>1, <3>1 DEF LinkOf, Takes, Depth, Base
    <3> QED BY <1>5, <2>1, <2>2, <3>1, <3>2, LinkQuiet
  <2>15. CASE CloseRelease(t)
    <3>1. UNCHANGED <<held, link>> /\ pc[t] \in {"release", "abort"}
      BY <2>15 DEF CloseRelease, transport
    <3>2. Return(t) \/ pc'[t] = "listen"
      BY <1>3, <2>15 DEF CloseRelease, Goto
    <3>3. Return(t) => Popped(t)
      BY <1>3, InClose, ReturnPops
    <3>4. LinkOf(t)'
      BY <2>4, <3>2, <3>3 DEF LinkOf
    <3> QED BY <1>5, <2>1, <2>2, <3>1, <3>4, LinkQuiet
  <2> QED
    BY <2>5, <2>6, <2>7, <2>8, <2>9, <2>10, <2>11, <2>12, <2>13, <2>14, <2>15
       DEF Close
<1> QED BY <1>4, <1>5 DEF Threads

-----------------------------------------------------------------------------
(* What a close() leaves behind.                                           *)

\* A step outside emitClose undoes nothing of it.
LEMMA OutsideShut ==
    ASSUME ShutInv, Outside, UNCHANGED done,
           QueueShut => QueueShut', StatusShut => StatusShut',
           PhaseShut => PhaseShut', stopReq /\ ~held => ~held'
    PROVE  ShutInv'
<1>1. \A u \in Threads : pc'[u] \in AfterStopQueue => pc'[u] = pc[u]
  BY DEF Outside, AfterStopQueue, AfterStopFlag, CloseLabels
<1>2. Apps \subseteq Threads /\ {"rakClose", "rakJoin", "finishPhase", "release"}
        \subseteq AfterStopQueue
  BY DEF Threads, AfterStopQueue, AfterStopFlag
<1>3. ASSUME NEW u \in Threads
      PROVE  /\ pc'[u] \in AfterStopQueue => QueueShut'
             /\ pc'[u] \in {"finishPhase", "release"} => StatusShut'
             /\ pc'[u] = "release" => PhaseShut'
  BY <1>1, <1>2 DEF ShutInv
<1>4. done => ~held' /\ QueueShut' /\ StatusShut' /\ PhaseShut'
  BY DEF ShutInv, QueueShut
<1>5. done => \A u \in Apps : pc'[u] \notin {"rakClose", "rakJoin"}
  BY <1>1, <1>2 DEF ShutInv
<1> QED BY <1>3, <1>4, <1>5 DEF ShutInv

\* Whoever was connecting or preparing undoes nothing of it either: each looks
\* at rakNetStopRequested_ before it changes what close() has set.
LEMMA AppShut ==
    ASSUME TypeOK, PlaceInv, LinkInv, ShutInv, NEW t \in Apps,
           \/ Prepare(t) \/ Connect(t) \/ BeginClose(t) \/ BeginRequestStop(t)
           \/ RequestStopLink(t)
    PROVE  ShutInv'
<1>1. Outside /\ \A u \in Apps : u # t => pc'[u] = pc[u]
  BY AppSteps, AppOutside, AppOthers
<1>2. UNCHANGED done /\ (stopReq => stopReq') /\ (StatusShut => StatusShut')
  BY AppShared DEF StatusShut
<1>3. pc \in [Threads -> Labels] /\ t \in Threads
  BY DEF TypeOK, Threads
<1> SUFFICES /\ queueOn' => queueOn \/ lateQueue' \/ ~stopReq
             /\ lateQueue => lateQueue'
             /\ stopReq /\ ~held => ~held'
             /\ stopReq /\ phase \notin {"Prepared", "Active"} =>
                    phase' \notin {"Prepared", "Active"}
             /\ stopReq => \/ closedFlag'
                           \/ pc[t] # "install" /\ (closedFlag => closedFlag')
                           \/ pc'[t] = "install"
  <2>1. QueueShut => QueueShut'
    BY <1>2 DEF QueueShut
  <2>2. PhaseShut => PhaseShut'
    BY <1>1, <1>2 DEF PhaseShut
  <2> QED BY <1>1, <1>2, <2>1, <2>2, OutsideShut
<1> USE DEF conn, transport, history
<1>4. CASE BeginPrepare(t)
  BY <1>4 DEF BeginPrepare, Step
<1>5. CASE PrepareAdmit(t)
  BY <1>5 DEF PrepareAdmit, Step
<1>6. CASE PrepareAuth(t)
  BY <1>6 DEF PrepareAuth, Step
<1>7. CASE PrepareAllow(t)
  BY <1>7 DEF PrepareAllow, Step
<1>8. CASE PrepareStartQueue(t)
  <2>1. pc[t] # "install" /\ UNCHANGED <<held, phase, closedFlag>>
    BY <1>8 DEF PrepareStartQueue
  <2>2. /\ lateQueue => lateQueue'
        /\ queueOn' => queueOn \/ lateQueue' \/ ~stopReq
    BY <1>8 DEF PrepareStartQueue
  <2> QED BY <2>1, <2>2
<1>9. CASE PrepareFail(t)
  BY <1>9 DEF PrepareFail, Step
<1>10. CASE PrepareCommit(t)
  BY <1>10 DEF PrepareCommit, Step
<1>11. CASE PrepareStop(t)
  BY <1>11 DEF PrepareStop, Step
<1>12. CASE BeginConnect(t)
  BY <1>12 DEF BeginConnect, Step
<1>13. CASE ConnectDecide(t)
  BY <1>13 DEF ConnectDecide, Step
<1>14. CASE ConnectWaitPhase(t)
  BY <1>14 DEF ConnectWaitPhase, Step
<1>15. CASE ConnectResume(t)
  BY <1>15 DEF ConnectResume, Step
<1>16. CASE ConnectLogin(t)
  BY <1>16 DEF ConnectLogin, Step
<1>17. CASE ConnectRecheck(t)
  BY <1>17 DEF ConnectRecheck, Step
<1>18. CASE ConnectReset(t)
  <2>1. pc'[t] = "install"
    BY <1>3, <1>18 DEF ConnectReset, Step, Goto
  <2> QED BY <1>18, <2>1 DEF ConnectReset
<1>19. CASE ConnectInstall(t)
  BY <1>19 DEF ConnectInstall, Step
<1>20. CASE ConnectPostInstall(t)
  BY <1>20 DEF ConnectPostInstall, Step
<1>21. CASE ConnectRak(t)
  BY <1>21 DEF ConnectRak, Step
<1>22. CASE ConnectRakWait(t)
  BY <1>22 DEF ConnectRakWait, Step
<1>23. CASE ConnectRakReap(t)
  BY <1>23 DEF ConnectRakReap, Step
<1>24. CASE ConnectFailed(t)
  BY <1>24 DEF ConnectFailed, Step
<1>25. CASE ConnectFailedStatus(t)
  BY <1>25 DEF ConnectFailedStatus, Step
<1>26. CASE ConnectCommit(t)
  BY <1>26 DEF ConnectCommit, Step
<1>27. CASE BeginClose(t)
  BY <1>27 DEF BeginClose, Step
<1>28. CASE BeginRequestStop(t)
  BY <1>28 DEF BeginRequestStop, Step
<1>29. CASE RequestStopLink(t)
  BY <1>29 DEF RequestStopLink, Step
<1> QED
  BY <1>4, <1>5, <1>6, <1>7, <1>8, <1>9, <1>10, <1>11, <1>12, <1>13, <1>14,
     <1>15, <1>16, <1>17, <1>18, <1>19, <1>20, <1>21, <1>22, <1>23, <1>24,
     <1>25, <1>26, <1>27, <1>28, <1>29 DEF Prepare, Connect

\* Nor does the worker.
LEMMA RakShut ==
    ASSUME TypeOK, PlaceInv, ShutInv, RunRak
    PROVE  ShutInv'
<1>1. Outside /\ \A u \in Apps : pc'[u] = pc[u]
  BY RakSteps, RakOutside, RakOthers
<1>2. /\ UNCHANGED <<phase, lateQueue, done, stopReq, closedFlag, queueOn, held>>
      /\ stopReq /\ status = "Disconnected" => status' = "Disconnected"
  BY RakShared DEF conn, history
<1>3. /\ QueueShut => QueueShut'
      /\ StatusShut => StatusShut'
      /\ PhaseShut => PhaseShut'
  BY <1>1, <1>2 DEF QueueShut, StatusShut, PhaseShut
<1> QED BY <1>1, <1>2, <1>3, OutsideShut

\* A close() establishes it piece by piece, and takes nothing back.
LEMMA CloseShut ==
    ASSUME TypeOK, PlaceInv, LatchInv, LinkInv, ShutInv, NEW t \in Threads,
           Close(t)
    PROVE  ShutInv'
<1>1. CloseKind(t)
  BY CloseSteps
<1>2. /\ \A u \in Threads : u # t => pc'[u] = pc[u]
      /\ pc \in [Threads -> Labels] /\ pc[t] \in CloseLabels
      /\ Apps \subseteq Threads
  BY <1>1, CloseOthers DEF TypeOK, CloseKind, Threads
<1>3. /\ stopReq => stopReq'
      /\ UNCHANGED lateQueue /\ (queueOn' => queueOn)
      /\ status' \in {status, "Disconnected"}
      /\ phase' \in {phase, "Idle"} /\ (closedFlag => closedFlag')
      /\ held' => held
  <2>1. CASE CloseAdmit(t)
    BY <2>1 DEF CloseAdmit, conn, history, transport
  <2>2. CASE CloseListen(t)
    BY <2>2 DEF CloseListen, conn, history, transport
  <2>3. CASE CloseStopFlag(t)
    BY <2>3 DEF CloseStopFlag, conn, history, transport
  <2>4. CASE CloseStopQueue(t)
    BY <2>4 DEF CloseStopQueue, conn, history, transport
  <2>5. CASE CloseCommit(t)
    BY <2>5 DEF CloseCommit, conn, history, transport
  <2>6. CASE CloseTake(t)
    BY <2>6 DEF CloseTake, conn, history, transport
  <2>7. CASE CloseRak(t)
    BY <2>7 DEF CloseRak, conn, history, transport
  <2>8. CASE CloseRakJoin(t)
    BY <2>8 DEF CloseRakJoin, conn, history, transport
  <2>9. CASE CloseFinish(t)
    BY <2>9 DEF CloseFinish, conn, history, transport
  <2>10. CASE CloseFinishPhase(t)
    BY <2>10 DEF CloseFinishPhase, conn, history, transport
  <2>11. CASE CloseRelease(t)
    BY <2>11 DEF CloseRelease, conn, history, transport
  <2> QED
    BY <2>1, <2>2, <2>3, <2>4, <2>5, <2>6, <2>7, <2>8, <2>9, <2>10, <2>11
       DEF Close
<1>4. /\ QueueShut => QueueShut'
      /\ StatusShut => StatusShut'
      /\ PhaseShut => PhaseShut'
  <2>1. pc[t] # "install"
    BY <1>2 DEF CloseLabels
  <2> QED BY <1>2, <1>3, <2>1 DEF QueueShut, StatusShut, PhaseShut
<1>5. /\ pc[t] \in AfterStopFlag => stopReq
      /\ pc[t] \in AfterStopQueue => QueueShut
      /\ pc[t] \in {"finishPhase", "release"} => StatusShut
      /\ pc[t] = "release" => PhaseShut
  BY DEF LatchInv, ShutInv
<1>6. ASSUME Return(t)
      PROVE  pc'[t] \notin AfterStopQueue
  <2>1. Popped(t)
    BY <1>2, <1>6, InClose, ReturnPops
  <2>2. pc'[t] = "stopFlag" \/ pc'[t] \notin CloseLabels
    BY <1>2, <2>1, PoppedTo
  <2> QED BY <2>2 DEF AfterStopQueue, AfterStopFlag, CloseLabels
<1>7. /\ pc'[t] \in AfterStopQueue => QueueShut'
      /\ pc'[t] \in {"finishPhase", "release"} => StatusShut'
      /\ pc'[t] = "release" => PhaseShut'
      /\ pc'[t] \in {"rakClose", "rakJoin"} => held \/ pc[t] = "rakClose"
  <2> USE DEF AfterStopQueue, AfterStopFlag
  <2>1. CASE CloseAdmit(t)
    <3>1. Return(t) \/ pc'[t] = "listen"
      BY <1>2, <2>1 DEF CloseAdmit, Goto
    <3> QED BY <1>6, <3>1
  <2>2. CASE CloseListen(t)
    <3>1. pc'[t] \in {"admit", "stopFlag", "abort", "stopQueue"}
      BY <1>2, <2>2 DEF CloseListen, Step, Goto, EmitClose
    <3> QED BY <3>1
  <2>3. CASE CloseStopFlag(t)
    <3>1. pc'[t] \in {"admit", "stopFlag", "abort", "stopQueue"}
      BY <1>2, <2>3 DEF CloseStopFlag, Step, Goto, EmitClose
    <3> QED BY <3>1
  <2>4. CASE CloseStopQueue(t)
    <3>1. /\ pc[t] = "stopQueue" /\ pc'[t] = "commitClose"
          /\ queueOn' = FALSE /\ UNCHANGED stopReq
      BY <1>2, <2>4 DEF CloseStopQueue, Step, Goto
    <3> QED BY <1>5, <3>1 DEF QueueShut
  <2>5. CASE CloseCommit(t)
    <3>1. pc[t] = "commitClose" /\ pc'[t] \in {"take"}
      BY <1>2, <2>5 DEF CloseCommit, Step, Goto
    <3> QED BY <1>4, <1>5, <3>1
  <2>6. CASE CloseTake(t)
    <3>1. /\ pc[t] = "take" /\ pc'[t] \in {"rakClose", "finish"}
          /\ pc'[t] = "rakClose" => held
      BY <1>2, <2>6 DEF CloseTake, Step, Goto
    <3> QED BY <1>4, <1>5, <3>1
  <2>7. CASE CloseRak(t)
    <3>1. pc[t] = "rakClose" /\ pc'[t] \in {"rakJoin"}
      BY <1>2, <2>7 DEF CloseRak, Step, Goto
    <3> QED BY <1>4, <1>5, <3>1
  <2>8. CASE CloseRakJoin(t)
    <3>1. pc[t] = "rakJoin" /\ pc'[t] \in {"finish"}
      BY <1>2, <2>8 DEF CloseRakJoin, Step, Goto
    <3> QED BY <1>4, <1>5, <3>1
  <2>9. CASE CloseFinish(t)
    <3>1. /\ pc[t] = "finish" /\ pc'[t] = "finishPhase"
          /\ status' = "Disconnected" /\ UNCHANGED stopReq
      BY <1>2, <2>9 DEF CloseFinish, Step, Goto
    <3> QED BY <1>4, <1>5, <3>1 DEF StatusShut
  <2>10. CASE CloseFinishPhase(t)
    <3>1. /\ pc[t] = "finishPhase" /\ pc'[t] = "release" /\ closedFlag'
          /\ phase' \in {"Connecting", "Idle"} /\ UNCHANGED stopReq
      BY <1>2, <2>10 DEF CloseFinishPhase, Step, Goto
    <3> QED BY <1>4, <1>5, <3>1 DEF PhaseShut
  <2>11. CASE CloseRelease(t)
    <3>1. Return(t) \/ pc'[t] = "listen"
      BY <1>2, <2>11 DEF CloseRelease, Goto
    <3> QED BY <1>6, <3>1
  <2> QED
    BY <2>1, <2>2, <2>3, <2>4, <2>5, <2>6, <2>7, <2>8, <2>9, <2>10, <2>11
       DEF Close
<1>8. ASSUME NEW u \in Threads
      PROVE  /\ pc'[u] \in AfterStopQueue => QueueShut'
             /\ pc'[u] \in {"finishPhase", "release"} => StatusShut'
             /\ pc'[u] = "release" => PhaseShut'
  <2>1. CASE u = t
    BY <1>7, <2>1
  <2>2. CASE u # t
    BY <1>2, <1>4, <2>2 DEF ShutInv
  <2> QED BY <2>1, <2>2
<1>9. ASSUME done
      PROVE  /\ QueueShut' /\ StatusShut' /\ PhaseShut' /\ ~held'
             /\ \A u \in Apps : pc'[u] \notin {"rakClose", "rakJoin"}
  <2>1. /\ QueueShut /\ StatusShut /\ PhaseShut /\ ~held
        /\ \A u \in Apps : pc[u] \notin {"rakClose", "rakJoin"}
    BY <1>9 DEF ShutInv
  <2>2. ASSUME NEW u \in Apps PROVE pc'[u] \notin {"rakClose", "rakJoin"}
    <3>1. CASE u = t
      BY <1>7, <2>1, <3>1
    <3>2. CASE u # t
      BY <1>2, <2>1, <3>2
    <3> QED BY <3>1, <3>2
  <2> QED BY <1>3, <1>4, <2>1, <2>2
<1>10. ASSUME done', ~done
       PROVE  /\ QueueShut' /\ StatusShut' /\ PhaseShut' /\ ~held'
              /\ \A u \in Apps : pc'[u] \notin {"rakClose", "rakJoin"}
  <2>1. CloseRelease(t)
    BY <1>10
       DEF Close, CloseAdmit, CloseListen, CloseStopFlag, CloseStopQueue,
           CloseCommit, CloseTake, CloseRak, CloseRakJoin, CloseFinish,
           CloseFinishPhase, history
  <2>2. pc[t] = "release" /\ t \in Apps /\ Frame(t).trans /\ Return(t)
    BY <1>10, <2>1 DEF CloseRelease
  <2>3. ~held
    <3>1. Takes(t)
      BY <1>2, <2>2, InClose, TopFrame
    <3> QED BY <2>2, <3>1 DEF LinkInv
  <2>4. closing = t
    BY <2>2 DEF LatchInv, Admitted, CloseLabels
  <2>5. ASSUME NEW u \in Apps PROVE pc'[u] \notin {"rakClose", "rakJoin"}
    <3>1. CASE u = t
      BY <1>6, <2>2, <3>1 DEF AfterStopQueue, AfterStopFlag
    <3>2. CASE u # t
      <4>1. pc[u] \notin Admitted
        BY <1>2, <2>4, <3>2 DEF LatchInv
      <4> QED BY <1>2, <3>2, <4>1 DEF Admitted, CloseLabels
    <3> QED BY <3>1, <3>2
  <2>6. QueueShut /\ StatusShut /\ PhaseShut
    BY <1>5, <2>2 DEF AfterStopQueue, AfterStopFlag
  <2> QED BY <1>3, <1>4, <2>3, <2>5, <2>6
<1> HIDE DEF QueueShut, StatusShut, PhaseShut
<1>11. done' => /\ QueueShut' /\ StatusShut' /\ PhaseShut' /\ ~held'
                /\ \A u \in Apps : pc'[u] \notin {"rakClose", "rakJoin"}
  BY <1>9, <1>10
<1> QED BY <1>8, <1>11 DEF ShutInv

-----------------------------------------------------------------------------
(* The theorems.                                                           *)

\* A new client satisfies the invariant.
LEMMA InitInv == Init => Inv
<1> SUFFICES ASSUME Init PROVE Inv
  OBVIOUS
<1>1. TypeOK
  <2>1. <<>> \in Seq(Frames) /\ {"idle", "off"} \subseteq Labels
    BY DEF Labels, RakLabels
  <2>2. /\ pc \in [Threads -> Labels] /\ stack \in [Threads -> Seq(Frames)]
        /\ rej \in [Threads -> BOOLEAN] /\ late \in [Threads -> BOOLEAN]
        /\ prepRet \in [Threads -> Labels]
    BY <2>1 DEF Init
  <2>3. {rejected, committed, held, accepted, stopReq, closedFlag, queueOn,
         lateQueue, done} \subseteq BOOLEAN
    BY DEF Init
  <2>4. closing \in Threads \cup {NoThread} /\ owner \in Apps \cup {NoThread}
    BY DEF Init
  <2> QED BY <2>2, <2>3, <2>4 DEF Init, TypeOK, Phases, Statuses
<1>2. \A t \in Threads : /\ Len(stack[t]) = 0 /\ pc[t] \in {"idle", "off"}
                         /\ prepRet[t] = "idle" /\ (t \in Apps => pc[t] = "idle")
                         /\ (t = Rak => pc[t] = "off")
  BY ThreadAssumption DEF Init, Threads
<1>3. Apps \subseteq Threads /\ Rak \in Threads
  BY DEF Threads
<1>4. PlaceInv
  BY <1>2 DEF PlaceInv, Place, Depth, CloseLabels, AppLabels, RakLabels
<1>5. AttemptInv
  BY <1>2, <1>3 DEF AttemptInv, Prepares, Connects, At, Depth, ConnectLabels
<1>6. LatchInv
  BY <1>2, ThreadAssumption
     DEF Init, LatchInv, Admitted, CloseLabels, AfterStopFlag
<1>7. EmitInv
  BY DEF Init, EmitInv
<1>8. LinkInv
  BY <1>2, <1>3 DEF Init, LinkInv
<1>9. ShutInv
  BY <1>2 DEF Init, ShutInv, AfterStopQueue, AfterStopFlag
<1> QED BY <1>1, <1>4, <1>5, <1>6, <1>7, <1>8, <1>9 DEF Inv

\* Every step keeps the invariant, whoever makes it.
LEMMA StepInv == Inv /\ [Next]_vars => Inv'
<1> SUFFICES ASSUME Inv, [Next]_vars PROVE Inv'
  OBVIOUS
<1> USE DEF Inv
<1>1. ASSUME NEW t \in Apps,
             \/ Prepare(t) \/ Connect(t) \/ BeginClose(t) \/ BeginRequestStop(t)
             \/ RequestStopLink(t)
      PROVE  Inv'
  <2>1. TypeOK' /\ PlaceInv'
    BY <1>1, AppType
  <2>2. LatchInv'
    <3>1. Outside /\ UNCHANGED latch /\ (stopReq => stopReq')
      BY <1>1, AppSteps, AppOutside, AppShared
    <3> QED BY <3>1, OutsideLatch
  <2>3. EmitInv'
    <3>1. /\ Outside /\ UNCHANGED <<latch, emitted>> /\ (stopReq => stopReq')
          /\ stopReq /\ status = "Disconnected" => status' = "Disconnected"
      BY <1>1, AppSteps, AppOutside, AppShared
    <3> QED BY <3>1, OutsideEmit
  <2>4. AttemptInv' /\ LinkInv' /\ ShutInv'
    BY <1>1, AppAttempt, AppLink, AppShut
  <2> QED BY <2>1, <2>2, <2>3, <2>4
<1>2. ASSUME NEW t \in Threads, Close(t) PROVE Inv'
  BY <1>2, CloseType, CloseLatch, CloseEmit, CloseAttempt, CloseLink, CloseShut
<1>3. CASE RunRak
  <2>1. TypeOK' /\ PlaceInv'
    BY <1>3, RakType
  <2>2. /\ Outside /\ UNCHANGED <<latch, emitted>> /\ (stopReq => stopReq')
        /\ stopReq /\ status = "Disconnected" => status' = "Disconnected"
    BY <1>3, RakSteps, RakOutside, RakShared DEF history
  <2>3. LatchInv' /\ EmitInv'
    BY <2>2, OutsideLatch, OutsideEmit
  <2>4. AttemptInv' /\ LinkInv' /\ ShutInv'
    BY <1>3, RakAttempt, RakLink, RakShut
  <2> QED BY <2>1, <2>3, <2>4
<1>4. CASE UNCHANGED vars
  BY <1>4
     DEF vars, conn, latch, transport, history, TypeOK, PlaceInv, Place, Depth,
         Base, AttemptInv, Prepares, Connects, At, LatchInv, EmitInv, LinkInv,
         Takes, ShutInv, QueueShut, StatusShut, PhaseShut
<1> QED BY <1>1, <1>2, <1>3, <1>4 DEF Next

\* The invariant holds throughout.
LEMMA Invariance == Spec => []Inv
<1> HIDE DEF Inv
<1> QED BY InitInv, StepInv, PTL DEF Spec

\* What serialises the threads has one owner: whoever is past the admission of
\* emitClose() holds the close latch, and whoever is in connect() past
\* taking the phase, listeners' closes at any depth included, owns it.
THEOREM LatchAndPhaseOwned == Spec => []OneOwner
<1>1. Inv => OneOwner
  <2> SUFFICES ASSUME Inv PROVE OneOwner
    OBVIOUS
  <2> USE DEF Inv
  <2>1. ASSUME NEW t \in Threads, pc[t] \in CloseLabels \ {"admit"}
        PROVE  closing = t /\ depth >= 1
    <3>1. closing = t /\ depth = Len(stack[t])
      BY <2>1 DEF LatchInv, Admitted, Depth
    <3>2. Len(stack[t]) > 0 /\ Len(stack[t]) \in Nat
      BY <2>1, InClose DEF Depth, TypeOK
    <3>3. depth > 0 /\ depth \in Nat
      BY <3>1, <3>2
    <3> QED BY <3>1, <3>3
  <2>2. ASSUME NEW t \in Apps,
               pc[t] \in ConnectLabels \ {"decide", "waitPhase"}
                 \/ (\E i \in DOMAIN stack[t] :
                        stack[t][i].ret \in {"recheck", "commit"})
        PROVE  phase = "Connecting" /\ owner = t
    <3>1. /\ t \in Threads /\ stack[t] \in Seq(Frames) /\ Place(t)
          /\ Len(stack[t]) \in Nat
      BY DEF Threads, TypeOK, PlaceInv
    <3>2. CASE pc[t] \in ConnectLabels \ {"decide", "waitPhase"}
      <4>1. ~(Depth(t) > 0)
        BY <3>1, <3>2 DEF Place, ConnectLabels, CloseLabels
      <4>2. Connects(t)
        BY <3>2, <4>1 DEF Connects, At
      <4> QED BY <4>2 DEF AttemptInv
    <3>3. CASE \E i \in DOMAIN stack[t] :
                  stack[t][i].ret \in {"recheck", "commit"}
      <4>1. PICK i \in DOMAIN stack[t] :
                  stack[t][i].ret \in {"recheck", "commit"}
        BY <3>3
      <4>2. i \in 1..Len(stack[t])
        BY <3>1
      <4>3. i \notin 2..Len(stack[t])
        BY <3>1, <4>1 DEF Place, NestedFrame, Depth
      <4>4. i = 1 /\ Len(stack[t]) > 0
        BY <3>1, <4>2, <4>3
      <4>5. Connects(t)
        BY <4>1, <4>4 DEF Connects, At, Depth, Base, ConnectLabels
      <4> QED BY <4>5 DEF AttemptInv
    <3> QED BY <2>2, <3>2, <3>3
  <2> QED BY <2>1, <2>2 DEF OneOwner, LatchOwned, OneAttempt
<1> QED BY <1>1, Invariance, PTL

\* The close event is emitted by one close, however many threads, nested
\* listeners and transport callbacks call emitClose().
THEOREM CloseEventOnce == Spec => []CloseEmittedOnce
<1>1. Inv => CloseEmittedOnce
  BY DEF Inv, EmitInv, CloseEmittedOnce
<1> QED BY <1>1, Invariance, PTL

\* Once a close() has returned to an application thread the client is closed
\* for good, whatever connect(), prepareConnectLifecycle(), requestRakNetStop()
\* and the worker's callbacks were doing meanwhile.
THEOREM ClosedForGood == Spec => []ClosedStaysClosed
<1>1. Inv => ClosedStaysClosed
  <2> SUFFICES ASSUME Inv, done
               PROVE  /\ stopReq /\ status = "Disconnected"
                      /\ ~held /\ link \notin {"connecting", "up"}
                      /\ pc[Rak] = "off"
                      /\ phase \notin {"Prepared", "Active"}
                      /\ phase # "Connecting" => closedFlag
                      /\ queueOn => lateQueue
    BY DEF ClosedStaysClosed
  <2>1. /\ QueueShut /\ StatusShut /\ PhaseShut /\ ~held
        /\ \A u \in Apps : pc[u] \notin {"rakClose", "rakJoin"}
    BY DEF Inv, ShutInv
  <2>2. link \notin {"connecting", "up"} /\ pc[Rak] = "off"
    BY <2>1 DEF Inv, LinkInv
  <2>3. ASSUME NEW u \in Apps, pc[u] = "install" PROVE phase = "Connecting"
    <3>1. ~(Depth(u) > 0)
      BY <2>3 DEF Inv, PlaceInv, Place, CloseLabels, Threads
    <3>2. Connects(u)
      BY <2>3, <3>1 DEF Connects, At, ConnectLabels
    <3> QED BY <3>2 DEF Inv, AttemptInv
  <2> QED BY <2>1, <2>2, <2>3 DEF QueueShut, StatusShut, PhaseShut
<1> QED BY <1>1, Invariance, PTL
=============================================================================
