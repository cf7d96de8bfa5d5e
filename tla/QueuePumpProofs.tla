--------------------------- MODULE QueuePumpProofs ---------------------------
(* What holds of the send queue for every number of callers, packets and    *)
(* nested closes: the pump is under control, demand for it is never lost,   *)
(* and every packet is sent once and in order, cleared by a stop, or lost   *)
(* to a send without a connection.                                          *)
EXTENDS QueuePump, FiniteSetTheorems, TLAPS

-----------------------------------------------------------------------------
(* Lists: their elements when one is appended or taken.                    *)

\* Lists in which no element occurs twice.
Distinct(s) == \A i, j \in DOMAIN s : s[i] = s[j] => i = j

\* The elements of a list are of the type of its elements.
LEMMA ElementsTyped ==
    ASSUME NEW S, NEW s \in Seq(S)
    PROVE  ToSet(s) \subseteq S
BY DEF ToSet

\* The empty list has no elements.
LEMMA EmptyList == ToSet(<<>>) = {} /\ Distinct(<<>>)
BY DEF ToSet, Distinct

\* Two lists without a common element, one behind the other.
LEMMA Joined ==
    ASSUME NEW S, NEW s \in Seq(S), NEW u \in Seq(S), Distinct(s), Distinct(u),
           ToSet(s) \cap ToSet(u) = {}
    PROVE  /\ ToSet(s \o u) = ToSet(s) \cup ToSet(u)
           /\ Distinct(s \o u)
<1> DEFINE a == s \o u
           m == Len(s)
           n == Len(u)
<1>1. /\ m \in Nat /\ n \in Nat
      /\ DOMAIN a = 1..(m + n) /\ DOMAIN s = 1..m /\ DOMAIN u = 1..n
      /\ \A i \in 1..m : a[i] = s[i]
      /\ \A i \in 1..(m + n) : i > m => a[i] = u[i - m]
      /\ \A i \in 1..n : a[i + m] = u[i]
  OBVIOUS
<1> HIDE DEF a, m, n
<1>2. ToSet(a) \subseteq ToSet(s) \cup ToSet(u)
  <2> SUFFICES ASSUME NEW i \in DOMAIN a
               PROVE  a[i] \in ToSet(s) \cup ToSet(u)
    BY DEF ToSet
  <2>0. i \in 1..(m + n)
    BY <1>1
  <2>1. CASE i <= m
    <3>1. i \in DOMAIN s /\ a[i] = s[i]
      BY <1>1, <2>0, <2>1
    <3> QED BY <3>1 DEF ToSet
  <2>2. CASE i > m
    <3>1. i - m \in DOMAIN u /\ a[i] = u[i - m]
      BY <1>1, <2>0, <2>2
    <3> QED BY <3>1 DEF ToSet
  <2> QED BY <1>1, <2>0, <2>1, <2>2
<1>3. ToSet(s) \cup ToSet(u) \subseteq ToSet(a)
  <2>1. ASSUME NEW i \in DOMAIN s PROVE s[i] \in ToSet(a)
    <3>1. i \in DOMAIN a /\ a[i] = s[i]
      BY <1>1
    <3> QED BY <3>1 DEF ToSet
  <2>2. ASSUME NEW i \in DOMAIN u PROVE u[i] \in ToSet(a)
    <3>1. i + m \in DOMAIN a /\ a[i + m] = u[i]
      BY <1>1
    <3> QED BY <3>1 DEF ToSet
  <2>3. ToSet(s) \subseteq ToSet(a)
    BY <2>1 DEF ToSet
  <2>4. ToSet(u) \subseteq ToSet(a)
    BY <2>2 DEF ToSet
  <2> QED BY <2>3, <2>4
<1>4. Distinct(a)
  <2> SUFFICES ASSUME NEW i \in 1..(m + n), NEW j \in 1..(m + n), a[i] = a[j]
               PROVE  i = j
    BY <1>1 DEF Distinct
  <2>1. CASE i <= m /\ j <= m
    <3>1. i \in DOMAIN s /\ j \in DOMAIN s /\ s[i] = s[j]
      BY <1>1, <2>1
    <3> QED BY <3>1 DEF Distinct
  <2>2. CASE i > m /\ j > m
    <3>1. i - m \in DOMAIN u /\ j - m \in DOMAIN u /\ u[i - m] = u[j - m]
      BY <1>1, <2>2
    <3>2. i - m = j - m
      BY <3>1 DEF Distinct
    <3> QED BY <1>1, <3>2
  <2>3. CASE i <= m /\ j > m
    <3>1. j - m \in 1..n
      BY <1>1, <2>3
    <3>2. i \in DOMAIN s /\ a[i] = s[i]
      BY <1>1, <2>3
    <3>3. j - m \in DOMAIN u /\ a[j] = u[j - m]
      BY <1>1, <2>3, <3>1
    <3>4. a[i] \in ToSet(s)
      BY <3>2 DEF ToSet
    <3>5. a[j] \in ToSet(u)
      BY <3>3 DEF ToSet
    <3> QED BY <3>4, <3>5
  <2>4. CASE i > m /\ j <= m
    <3>1. i - m \in 1..n
      BY <1>1, <2>4
    <3>2. j \in DOMAIN s /\ a[j] = s[j]
      BY <1>1, <2>4
    <3>3. i - m \in DOMAIN u /\ a[i] = u[i - m]
      BY <1>1, <2>4, <3>1
    <3>4. a[j] \in ToSet(s)
      BY <3>2 DEF ToSet
    <3>5. a[i] \in ToSet(u)
      BY <3>3 DEF ToSet
    <3> QED BY <3>4, <3>5
  <2> QED BY <1>1, <2>1, <2>2, <2>3, <2>4
<1> QED BY <1>2, <1>3, <1>4 DEF a

-----------------------------------------------------------------------------
(* Control: who holds queueLifecycleMutex_ and the closing latch.          *)

HoldsLifecycle == {"startStop", "startJoin", "startArm", "startSpawn",
                   "stopFlag", "stopJoin"}
InCall == HoldsLifecycle \cup {"startLock", "stopLock", "stopIfRunning"}
InClose == {"pause", "pauseWait", "listen", "closeStop", "closeCommit",
            "closeTransport", "release"}

\* queueLifecycleMutex_ is held exactly inside startQueue() and stopQueue().
LifecycleOwned == \A t \in Callers : lifecycle = t <=> pc[t] \in HoldsLifecycle

\* The pump thread, by how far the start or the stop has come.
Running == IF stopQ THEN pump = "none" ELSE pump \in {"loop", "send", "sent"}
PumpPosition ==
    /\ lifecycle = NoThread => Running
    /\ \A t \in Callers :
         /\ pc[t] \in {"startStop", "stopFlag"} => Running
         /\ pc[t] \in {"startJoin", "stopJoin"} => stopQ
         /\ pc[t] = "startArm" => stopQ /\ pump = "none"
         /\ pc[t] = "startSpawn" => ~stopQ /\ pump = "none"
    /\ inFlight <=> pump \in {"send", "sent"}

\* The latch belongs to the thread that is closing, also while its listener
\* is in another call, and is open when no close is counted.
LatchOwned ==
    /\ closing = NoThread <=> depth = 0
    /\ \A t \in Callers :
         /\ pc[t] \in InClose => closing = t
         /\ pc[t] \in InCall => (closing = t <=> back[t] # "idle")
         /\ pc[t] = "idle" => closing # t

\* From the pause on the pump is off, and from the end of its wait at rest.
Paused ==
    \A t \in Callers :
        closing = t =>
            /\ pc[t] # "pause" => ~enabled
            /\ pc[t] \notin {"pause", "pauseWait"} => ~inFlight

\* A close that goes on to its commit has published the stop.
StopPublished ==
    /\ committed => stopReq
    /\ \A t \in Callers :
         /\ pc[t] \in {"closeStop", "closeCommit"} => stopReq
         /\ pc[t] \in InCall /\ back[t] = "closeCommit" => stopReq

\* The inductive invariant of the control.
ControlInv ==
    TypeOK /\ LifecycleOwned /\ PumpPosition /\ LatchOwned /\ Paused
           /\ StopPublished /\ DemandArmed

-----------------------------------------------------------------------------
\* What waits is packets, and stays so when the transport is lost.
LEMMA WaitingTyped ==
    ASSUME TypeOK
    PROVE  Waiting \subseteq Packets /\ (Disconnect => exposed' \subseteq Packets)
<1>1. ToSet(queued) \subseteq Packets /\ ToSet(batch) \subseteq Packets
  BY ElementsTyped DEF TypeOK
<1>2. \A t \in Callers : ToSet(taken[t]) \subseteq Packets
  BY ElementsTyped DEF TypeOK
<1>3. Waiting \subseteq Packets
  BY <1>1, <1>2 DEF Waiting
<1> QED BY <1>3 DEF TypeOK, Disconnect

\* A send adds packets to the wire or to those lost.
LEMMA SendTyped ==
    ASSUME TypeOK, NEW s \in Seq(Packets), SendPacketsLocked(s)
    PROVE  /\ wire' \in Seq(Packets) /\ lost' \subseteq Packets
           /\ exposed' \subseteq Packets
<1>1. ToSet(s) \subseteq Packets
  BY ElementsTyped
<1>2. wire \in Seq(Packets) /\ lost \subseteq Packets /\ exposed \subseteq Packets
  BY DEF TypeOK
<1>3. CASE raknet = "connected"
  <2>1. wire' = wire \o s /\ lost' = lost /\ exposed' = exposed \ ToSet(s)
    BY <1>3 DEF SendPacketsLocked
  <2> QED BY <1>2, <2>1
<1>4. CASE raknet # "connected"
  <2>1. wire' = wire /\ lost' = lost \cup ToSet(s) /\ exposed' = exposed
    BY <1>4 DEF SendPacketsLocked
  <2> QED BY <1>1, <1>2, <2>1
<1> QED BY <1>3, <1>4

\* Types are kept by every step.
LEMMA TypeStep == ControlInv /\ [Next]_vars => TypeOK'
<1> SUFFICES ASSUME ControlInv, [Next]_vars
             PROVE  TypeOK'
  OBVIOUS
<1> USE ThreadAssumption, BoundAssumption
<1> USE DEF ControlInv, TypeOK, Labels, Packets, Goto, Step, Return, Free, Home,
            flags, latch, locals, history
<1>1. ASSUME NEW t \in Callers, Queue(t) PROVE TypeOK'
  BY <1>1 DEF Queue, LatchOwned
<1>2. ASSUME NEW t \in Callers, SendQueuedTake(t) PROVE TypeOK'
  <2>1. pc' \in [Callers -> Labels]
    BY <1>2 DEF SendQueuedTake
  <2>2. queued' \in Seq(Packets) /\ taken' \in [Callers -> Seq(Packets)]
    BY <1>2 DEF SendQueuedTake
  <2>3. overlap' \in BOOLEAN
    BY <1>2, Zenon DEF SendQueuedTake
  <2> QED BY <2>1, <2>2, <2>3, <1>2 DEF SendQueuedTake
<1>3. ASSUME NEW t \in Callers, SendQueuedSend(t) PROVE TypeOK'
  <2>1. taken[t] \in Seq(Packets) /\ pc' \in [Callers -> Labels]
    BY <1>3 DEF SendQueuedSend
  <2>2. /\ wire' \in Seq(Packets) /\ lost' \subseteq Packets
        /\ exposed' \subseteq Packets
    BY <1>3, <2>1, SendTyped DEF SendQueuedSend
  <2>3. taken' \in [Callers -> Seq(Packets)]
    BY <1>3 DEF SendQueuedSend
  <2> QED BY <2>1, <2>2, <2>3, <1>3 DEF SendQueuedSend
<1>4. ASSUME NEW t \in Callers, BeginStart(t) PROVE TypeOK'
  BY <1>4 DEF BeginStart, LatchOwned
<1>5. ASSUME NEW t \in Callers, StartLock(t) PROVE TypeOK'
  <2>1. pc' \in [Callers -> Labels]
    BY <1>5 DEF StartLock
  <2>2. back' \in [Callers -> {"idle", "listen", "closeCommit"}]
    BY <1>5 DEF StartLock
  <2>3. late' \in [Callers -> BOOLEAN]
    BY <1>5 DEF StartLock
  <2>4. lifecycle' \in Callers \cup {NoThread}
    BY <1>5 DEF StartLock
  <2> QED BY <2>1, <2>2, <2>3, <2>4, <1>5 DEF StartLock
<1>6. ASSUME NEW t \in Callers, StartStop(t) PROVE TypeOK'
  <2>1. dropped' \subseteq Packets /\ exposed' \subseteq Packets
    BY ElementsTyped, <1>6 DEF StartStop, StopFlags
  <2>2. resumeDue' \in BOOLEAN
    BY <1>6, Zenon DEF StartStop, StopFlags
  <2>3. pc' \in [Callers -> Labels]
    BY <1>6 DEF StartStop
  <2>4. queued' \in Seq(Packets) /\ timers' \subseteq Timers
    BY <1>6 DEF StartStop, StopFlags
  <2>5. stopQ' \in BOOLEAN /\ requested' \in BOOLEAN /\ enabled' \in BOOLEAN
    BY <1>6 DEF StartStop, StopFlags
  <2> QED BY <2>1, <2>2, <2>3, <2>4, <2>5, <1>6 DEF StartStop
<1>7. ASSUME NEW t \in Callers, StartJoin(t) PROVE TypeOK'
  BY <1>7 DEF StartJoin, LatchOwned
<1>8. ASSUME NEW t \in Callers, StartArm(t) PROVE TypeOK'
  <2>1. pc' \in [Callers -> Labels]
    BY <1>8 DEF StartArm
  <2>2. /\ stopQ' \in BOOLEAN /\ requested' \in BOOLEAN /\ enabled' \in BOOLEAN
        /\ inFlight' \in BOOLEAN /\ resumeDue' \in BOOLEAN
    BY <1>8, Zenon DEF StartArm
  <2>3. lifecycle' \in Callers \cup {NoThread}
    BY <1>8 DEF StartArm
  <2> QED BY <2>1, <2>2, <2>3, <1>8 DEF StartArm
<1>9. ASSUME NEW t \in Callers, StartSpawn(t) PROVE TypeOK'
  BY <1>9, ZenonT(40) DEF StartSpawn, LatchOwned
<1>10. ASSUME NEW t \in Callers, Resume(t) PROVE TypeOK'
  BY <1>10 DEF Resume, LatchOwned
<1>11. ASSUME NEW t \in Callers, BeginStop(t) PROVE TypeOK'
  <2>1. pc' \in [Callers -> Labels]
    BY <1>11 DEF BeginStop
  <2> QED BY <2>1, <1>11 DEF BeginStop
<1>12. ASSUME NEW t \in Callers, StopLock(t) PROVE TypeOK'
  <2>1. pc' \in [Callers -> Labels]
    BY <1>12, ZenonT(40) DEF StopLock
  <2>2. back' \in [Callers -> {"idle", "listen", "closeCommit"}]
    BY <1>12 DEF StopLock
  <2>3. late' \in [Callers -> BOOLEAN]
    BY <1>12 DEF StopLock
  <2>4. lifecycle' \in Callers \cup {NoThread}
    BY <1>12 DEF StopLock
  <2> QED BY <2>1, <2>2, <2>3, <2>4, <1>12 DEF StopLock
<1>13. ASSUME NEW t \in Callers, StopFlag(t) PROVE TypeOK'
  <2>1. dropped' \subseteq Packets /\ exposed' \subseteq Packets
    BY ElementsTyped, <1>13 DEF StopFlag, StopFlags
  <2>2. resumeDue' \in BOOLEAN
    BY <1>13, Zenon DEF StopFlag, StopFlags
  <2>3. pc' \in [Callers -> Labels]
    BY <1>13 DEF StopFlag
  <2>4. queued' \in Seq(Packets) /\ timers' \subseteq Timers
    BY <1>13 DEF StopFlag, StopFlags
  <2>5. stopQ' \in BOOLEAN /\ requested' \in BOOLEAN /\ enabled' \in BOOLEAN
    BY <1>13 DEF StopFlag, StopFlags
  <2> QED BY <2>1, <2>2, <2>3, <2>4, <2>5, <1>13 DEF StopFlag
<1>14. ASSUME NEW t \in Callers, StopJoin(t) PROVE TypeOK'
  BY <1>14 DEF StopJoin, LatchOwned
<1>15. ASSUME NEW t \in Callers, CloseAdmit(t) PROVE TypeOK'
  <2>1. pc' \in [Callers -> Labels]
    BY <1>15 DEF CloseAdmit
  <2>2. closing' \in Callers \cup {NoThread} /\ depth' \in 0..MaxDepth
    BY <1>15 DEF CloseAdmit
  <2>3. committed' \in BOOLEAN
    BY <1>15 DEF CloseAdmit
  <2>4. /\ UNCHANGED <<flags, timers, queued, lifecycle, stopReq, raknet>>
        /\ UNCHANGED <<pump, batch, back, late, taken, history>>
    BY <1>15 DEF CloseAdmit
  <2> QED BY <2>1, <2>2, <2>3, <2>4
<1>16. ASSUME NEW t \in Callers, ClosePause(t) PROVE TypeOK'
  BY <1>16, ZenonT(40) DEF ClosePause, LatchOwned
<1>17. ASSUME NEW t \in Callers, ClosePauseWait(t) PROVE TypeOK'
  BY <1>17 DEF ClosePauseWait, LatchOwned
<1>18. ASSUME NEW t \in Callers, CloseListened(t) PROVE TypeOK'
  <2>1. pc' \in [Callers -> Labels]
    BY <1>18 DEF CloseListened
  <2>2. stopReq' \in BOOLEAN
    BY <1>18 DEF CloseListened
  <2> QED BY <2>1, <2>2, <1>18 DEF CloseListened
<1>19. ASSUME NEW t \in Callers, CloseStop(t) PROVE TypeOK'
  BY <1>19 DEF CloseStop, LatchOwned
<1>20. ASSUME NEW t \in Callers, CloseCommit(t) PROVE TypeOK'
  BY <1>20 DEF CloseCommit, LatchOwned
<1>21. ASSUME NEW t \in Callers, CloseRelease(t) PROVE TypeOK'
  <2>1. pc' \in [Callers -> Labels]
    BY <1>21, ZenonT(40) DEF CloseRelease
  <2>2. depth # 0
    BY <1>21 DEF CloseRelease, LatchOwned, InClose
  <2>3. /\ closing' \in Callers \cup {NoThread} /\ depth' \in 0..MaxDepth
    BY <2>2, <1>21 DEF CloseRelease
  <2>4. committed' \in BOOLEAN /\ enabled' \in BOOLEAN /\ resumeDue' \in BOOLEAN
    BY <1>21, Zenon DEF CloseRelease
  <2> QED BY <2>1, <2>3, <2>4, <1>21 DEF CloseRelease
<1>22. ASSUME NEW k \in Timers, ArmTimer(k) PROVE TypeOK'
  BY <1>22 DEF ArmTimer
<1>23. ASSUME NEW t \in Callers, RequestStop(t) PROVE TypeOK'
  BY <1>23 DEF RequestStop
<1>24. CASE PumpExit
  BY <1>24 DEF PumpExit
<1>25. CASE PumpResume
  BY <1>25 DEF PumpResume
<1>26. CASE PumpTick
  BY <1>26 DEF PumpTick
<1>27. CASE PumpSend
  <2>1. /\ wire' \in Seq(Packets) /\ lost' \subseteq Packets
        /\ exposed' \subseteq Packets
    BY <1>27, SendTyped DEF PumpSend
  <2> QED BY <2>1, <1>27 DEF PumpSend
<1>28. CASE PumpSent
  BY <1>28 DEF PumpSent
<1>29. ASSUME NEW t \in Callers, RequestStopTransport(t) PROVE TypeOK'
  <2>1. pc' \in [Callers -> Labels]
    BY <1>29 DEF RequestStopTransport
  <2>2. exposed' \subseteq Packets /\ raknet' = "none"
    BY <1>29, WaitingTyped DEF RequestStopTransport, Disconnect
  <2> QED BY <2>1, <2>2, <1>29 DEF RequestStopTransport
<1>30. ASSUME NEW t \in Callers, CloseTransport(t) PROVE TypeOK'
  <2>1. pc' \in [Callers -> Labels]
    BY <1>30 DEF CloseTransport
  <2>2. /\ exposed' \subseteq Packets
        /\ raknet' \in {"none", "installed", "connected"}
    BY <1>30, WaitingTyped DEF CloseTransport, Disconnect
  <2> QED BY <2>1, <2>2, <1>30 DEF CloseTransport
<1>31. CASE InstallTransport \/ TransportConnected
  <2>1. /\ raknet' \in {"none", "installed", "connected"}
        /\ UNCHANGED <<flags, timers, queued, lifecycle, stopReq>>
        /\ UNCHANGED <<latch, pump, batch, locals, history>>
    BY <1>31 DEF InstallTransport, TransportConnected
  <2> QED BY <2>1
<1>32. CASE TransportLost
  <2>1. exposed' \subseteq Packets /\ raknet' = "none"
    BY <1>32, WaitingTyped DEF TransportLost, Disconnect
  <2> QED BY <2>1, <1>32 DEF TransportLost
<1>33. CASE UNCHANGED vars
  BY <1>33 DEF vars
<1> QED BY <1>1, <1>2, <1>3, <1>4, <1>5, <1>6, <1>7, <1>8, <1>9, <1>10, <1>11,
        <1>12, <1>13, <1>14, <1>15, <1>16, <1>17, <1>18, <1>19, <1>20, <1>21,
        <1>22, <1>23, <1>24, <1>25, <1>26, <1>27, <1>28, <1>29,
        <1>30, <1>31, <1>32, <1>33
        DEF Next, Start, Stop, Close, Pump

\* The control is kept by every step.
LEMMA ControlStep == ControlInv /\ [Next]_vars => ControlInv'
<1> SUFFICES ASSUME ControlInv, [Next]_vars
             PROVE  ControlInv'
  OBVIOUS
<1> TypeOK' BY TypeStep
<1> USE ThreadAssumption, BoundAssumption
<1> USE DEF ControlInv, Labels, Goto, Step, Return, Free, Home, flags, latch,
            locals, history, TypeOK, LifecycleOwned, PumpPosition, Running, LatchOwned,
            Paused, StopPublished, DemandArmed, HoldsLifecycle, InCall, InClose
<1>1. ASSUME NEW t \in Callers, Queue(t) PROVE ControlInv'
  BY <1>1 DEF Queue
<1>2. ASSUME NEW t \in Callers, SendQueuedTake(t) PROVE ControlInv'
  BY <1>2 DEF SendQueuedTake
<1>3. ASSUME NEW t \in Callers, SendQueuedSend(t) PROVE ControlInv'
  BY <1>3 DEF SendQueuedSend
<1>4. ASSUME NEW t \in Callers, BeginStart(t) PROVE ControlInv'
  BY <1>4 DEF BeginStart
<1>5. ASSUME NEW t \in Callers, StartLock(t) PROVE ControlInv'
  <2>1. CASE Refused(t)
    BY <2>1, <1>5 DEF StartLock
  <2>2. CASE ~Refused(t)
    BY <2>2, <1>5 DEF StartLock
  <2> QED BY <2>1, <2>2
<1>6. ASSUME NEW t \in Callers, StartStop(t) PROVE ControlInv'
  BY <1>6 DEF StartStop, StopFlags
<1>7. ASSUME NEW t \in Callers, StartJoin(t) PROVE ControlInv'
  BY <1>7 DEF StartJoin
<1>8. ASSUME NEW t \in Callers, StartArm(t) PROVE ControlInv'
  <2>1. LifecycleOwned'
    <3>0. lifecycle = t /\ back[t] \notin HoldsLifecycle
      BY <1>8 DEF StartArm
    <3>1. CASE Refused(t)
      <4>1. lifecycle' = NoThread /\ pc' = [pc EXCEPT ![t] = back[t]]
        BY <3>1, <1>8 DEF StartArm
      <4> QED BY <3>0, <4>1
    <3>2. CASE ~Refused(t)
      BY <3>2, <1>8 DEF StartArm
    <3> QED BY <3>1, <3>2
  <2>2. PumpPosition'
    <3>1. CASE Refused(t)
      BY <3>1, <1>8 DEF StartArm
    <3>2. CASE ~Refused(t)
      <4>1. /\ pc[t] = "startArm" /\ pc' = [pc EXCEPT ![t] = "startSpawn"]
            /\ stopQ' = FALSE /\ inFlight' = FALSE
            /\ lifecycle' = lifecycle /\ pump' = pump
        BY <3>2, <1>8 DEF StartArm
      <4>2. /\ lifecycle = t /\ pump = "none" /\ t # NoThread
            /\ \A u \in Callers : u # t => pc[u] \notin HoldsLifecycle
        BY <4>1
      <4> QED BY <4>1, <4>2
    <3> QED BY <3>1, <3>2
  <2>3. LatchOwned'
    BY <1>8 DEF StartArm, Refused
  <2>4. Paused'
    BY <1>8 DEF StartArm, Refused
  <2>5. StopPublished'
    BY <1>8 DEF StartArm, Refused
  <2>6. DemandArmed'
    BY <1>8 DEF StartArm, Refused
  <2> QED BY <2>1, <2>2, <2>3, <2>4, <2>5, <2>6
<1>9. ASSUME NEW t \in Callers, StartSpawn(t) PROVE ControlInv'
  BY <1>9 DEF StartSpawn
<1>10. ASSUME NEW t \in Callers, Resume(t) PROVE ControlInv'
  <2>1. LifecycleOwned'
    BY <1>10 DEF Resume
  <2>2. PumpPosition'
    BY <1>10 DEF Resume
  <2>3. LatchOwned'
    BY <1>10 DEF Resume
  <2>4. Paused'
    BY <1>10 DEF Resume
  <2>5. StopPublished'
    BY <1>10 DEF Resume
  <2>6. DemandArmed'
    BY <1>10 DEF Resume
  <2> QED BY <2>1, <2>2, <2>3, <2>4, <2>5, <2>6
<1>11. ASSUME NEW t \in Callers, BeginStop(t) PROVE ControlInv'
  BY <1>11 DEF BeginStop
<1>12. ASSUME NEW t \in Callers, StopLock(t) PROVE ControlInv'
  <2>1. CASE pc[t] = "stopIfRunning" /\ stopQ
    <3>1. /\ pc' = [pc EXCEPT ![t] = back[t]]
          /\ back' = [back EXCEPT ![t] = "idle"]
          /\ UNCHANGED <<flags, timers, queued, lifecycle, stopReq, raknet>>
          /\ UNCHANGED <<latch, pump, batch, taken, history>>
          /\ pc[t] \in {"stopLock", "stopIfRunning"}
      BY <2>1, <1>12 DEF StopLock
    <3>2. LifecycleOwned' /\ PumpPosition'
      BY <3>1
    <3>3. LatchOwned' /\ Paused'
      BY <3>1
    <3>4. StopPublished' /\ DemandArmed'
      BY <3>1
    <3> QED BY <3>2, <3>3, <3>4
  <2>2. CASE ~(pc[t] = "stopIfRunning" /\ stopQ)
    <3>1. /\ pc' = [pc EXCEPT ![t] = "stopFlag"]
          /\ lifecycle = NoThread /\ lifecycle' = t
          /\ UNCHANGED <<flags, timers, queued, stopReq, raknet, latch, pump>>
          /\ UNCHANGED <<batch, back, late, taken, history>>
          /\ pc[t] \in {"stopLock", "stopIfRunning"}
      BY <2>2, <1>12 DEF StopLock
    <3>2. LifecycleOwned' /\ PumpPosition'
      BY <3>1
    <3>3. LatchOwned' /\ Paused' /\ StopPublished' /\ DemandArmed'
      BY <3>1
    <3> QED BY <3>2, <3>3
  <2> QED BY <2>1, <2>2
<1>13. ASSUME NEW t \in Callers, StopFlag(t) PROVE ControlInv'
  BY <1>13 DEF StopFlag, StopFlags
<1>14. ASSUME NEW t \in Callers, StopJoin(t) PROVE ControlInv'
  BY <1>14 DEF StopJoin
<1>15. ASSUME NEW t \in Callers, CloseAdmit(t) PROVE ControlInv'
  BY <1>15 DEF CloseAdmit
<1>16. ASSUME NEW t \in Callers, ClosePause(t) PROVE ControlInv'
  BY <1>16 DEF ClosePause
<1>17. ASSUME NEW t \in Callers, ClosePauseWait(t) PROVE ControlInv'
  BY <1>17 DEF ClosePauseWait
<1>18. ASSUME NEW t \in Callers, CloseListened(t) PROVE ControlInv'
  BY <1>18 DEF CloseListened
<1>19. ASSUME NEW t \in Callers, CloseStop(t) PROVE ControlInv'
  BY <1>19 DEF CloseStop
<1>20. ASSUME NEW t \in Callers, CloseCommit(t) PROVE ControlInv'
  BY <1>20 DEF CloseCommit
<1>21. ASSUME NEW t \in Callers, CloseRelease(t) PROVE ControlInv'
  <2>1. LifecycleOwned'
    BY <1>21 DEF CloseRelease
  <2>2. PumpPosition'
    BY <1>21 DEF CloseRelease
  <2>3. LatchOwned'
    BY <1>21 DEF CloseRelease
  <2>4. Paused'
    BY <1>21 DEF CloseRelease
  <2>5. StopPublished'
    BY <1>21 DEF CloseRelease
  <2>6. DemandArmed'
    BY <1>21 DEF CloseRelease
  <2> QED BY <2>1, <2>2, <2>3, <2>4, <2>5, <2>6
<1>22. ASSUME NEW k \in Timers, ArmTimer(k) PROVE ControlInv'
  BY <1>22 DEF ArmTimer
<1>23. ASSUME NEW t \in Callers, RequestStop(t) PROVE ControlInv'
  BY <1>23 DEF RequestStop
<1>24. CASE PumpExit
  BY <1>24 DEF PumpExit
<1>25. CASE PumpResume
  BY <1>25 DEF PumpResume
<1>26. CASE PumpTick
  BY <1>26 DEF PumpTick
<1>27. CASE PumpSend
  BY <1>27 DEF PumpSend
<1>28. CASE PumpSent
  BY <1>28 DEF PumpSent
<1>29. ASSUME NEW t \in Callers, RequestStopTransport(t) PROVE ControlInv'
  BY <1>29 DEF RequestStopTransport
<1>30. ASSUME NEW t \in Callers, CloseTransport(t) PROVE ControlInv'
  BY <1>30 DEF CloseTransport
<1>31. CASE InstallTransport \/ TransportConnected \/ TransportLost
  BY <1>31 DEF InstallTransport, TransportConnected, TransportLost
<1>32. CASE UNCHANGED vars
  BY <1>32 DEF vars
<1> QED BY <1>1, <1>2, <1>3, <1>4, <1>5, <1>6, <1>7, <1>8, <1>9, <1>10, <1>11,
        <1>12, <1>13, <1>14, <1>15, <1>16, <1>17, <1>18, <1>19, <1>20, <1>21,
        <1>22, <1>23, <1>24, <1>25, <1>26, <1>27, <1>28, <1>29,
        <1>30, <1>31, <1>32
        DEF Next, Start, Stop, Close, Pump

-----------------------------------------------------------------------------
(* Packets: the pump's hand is batch, the hand of a caller is taken.       *)

Hands == Callers \cup {NoThread}
Hand(h) == IF h = NoThread THEN batch ELSE taken[h]
Increasing(s) == \A i, j \in DOMAIN s : i < j => s[i] < s[j]
Below(S, T) == \A p \in S, q \in T : p < q

\* Only a sender holds packets.
HandsFree ==
    /\ pump # "send" => batch = <<>>
    /\ \A t \in Callers : pc[t] # "flush" => taken[t] = <<>>

\* Every accepted packet is somewhere, and nowhere else.
Covered ==
    \A p \in 1..accepted :
        \/ p \in ToSet(queued) \/ p \in ToSet(wire) \/ p \in dropped \/ p \in lost
        \/ \E h \in Hands : p \in ToSet(Hand(h))
Accepted ==
    /\ ToSet(queued) \subseteq 1..accepted /\ ToSet(wire) \subseteq 1..accepted
    /\ dropped \subseteq 1..accepted /\ lost \subseteq 1..accepted
    /\ \A h \in Hands : ToSet(Hand(h)) \subseteq 1..accepted
Apart ==
    /\ ToSet(queued) \cap ToSet(wire) = {} /\ ToSet(queued) \cap dropped = {}
    /\ ToSet(wire) \cap dropped = {}
    /\ lost \cap ToSet(queued) = {} /\ lost \cap ToSet(wire) = {}
    /\ lost \cap dropped = {}
    /\ \A h \in Hands :
         /\ ToSet(Hand(h)) \cap ToSet(queued) = {}
         /\ ToSet(Hand(h)) \cap ToSet(wire) = {}
         /\ ToSet(Hand(h)) \cap dropped = {} /\ ToSet(Hand(h)) \cap lost = {}
         /\ \A g \in Hands : g # h => ToSet(Hand(h)) \cap ToSet(Hand(g)) = {}

\* Lists are in the order of queue(), the wire only while no two hands were
\* full at once.
Sorted ==
    /\ Increasing(queued) /\ Distinct(wire)
    /\ \A h \in Hands : Increasing(Hand(h))
InTurn ==
    ~overlap =>
        /\ Increasing(wire) /\ Below(ToSet(wire), ToSet(queued))
        /\ \A h \in Hands :
             /\ Below(ToSet(wire), ToSet(Hand(h)))
             /\ Below(ToSet(Hand(h)), ToSet(queued))
             /\ \A g \in Hands : Hand(h) # <<>> /\ Hand(g) # <<>> => g = h

\* Without a connection whatever waits is exposed, as whatever was lost is.
Unprotected ==
    /\ lost \subseteq exposed
    /\ raknet # "connected" =>
         /\ ToSet(queued) \subseteq exposed
         /\ \A h \in Hands : ToSet(Hand(h)) \subseteq exposed

\* The inductive invariant of the packets.
PacketInv ==
    HandsFree /\ Covered /\ Accepted /\ Apart /\ Sorted /\ InTurn /\ Unprotected

-----------------------------------------------------------------------------
\* An increasing list has no repetitions.
LEMMA IncreasingDistinct ==
    ASSUME NEW n \in Nat, NEW s \in Seq(1..n), Increasing(s)
    PROVE  Distinct(s)
<1> SUFFICES ASSUME NEW i \in DOMAIN s, NEW j \in DOMAIN s, s[i] = s[j], i # j
             PROVE  FALSE
  BY DEF Distinct
<1>1. i \in Nat /\ j \in Nat /\ s[i] \in Nat /\ s[j] \in Nat
  OBVIOUS
<1> QED BY <1>1 DEF Increasing

\* A larger element at the end of an increasing list.
LEMMA IncreasingAppend ==
    ASSUME NEW n \in Nat, NEW s \in Seq(1..n), NEW d \in 1..n, Increasing(s),
           \A p \in ToSet(s) : p < d
    PROVE  Increasing(Append(s, d)) /\ ToSet(Append(s, d)) = ToSet(s) \cup {d}
<1> DEFINE a == Append(s, d)
<1>1. /\ DOMAIN a = 1..(Len(s) + 1) /\ DOMAIN s = 1..Len(s) /\ Len(s) \in Nat
      /\ \A i \in 1..Len(s) : a[i] = s[i]
      /\ a[Len(s) + 1] = d
  OBVIOUS
<1> HIDE DEF a
<1>2. ToSet(a) = ToSet(s) \cup {d}
  BY <1>1 DEF ToSet
<1>3. Increasing(a)
  BY <1>1 DEF Increasing, ToSet
<1> QED BY <1>2, <1>3 DEF a

\* Two increasing lists, the second above the first.
LEMMA IncreasingJoin ==
    ASSUME NEW n \in Nat, NEW s \in Seq(1..n), NEW u \in Seq(1..n),
           Increasing(s), Increasing(u), Below(ToSet(s), ToSet(u))
    PROVE  Increasing(s \o u)
<1> DEFINE a == s \o u
           l == Len(s)
           m == Len(u)
<1>1. /\ l \in Nat /\ m \in Nat
      /\ DOMAIN a = 1..(l + m) /\ DOMAIN s = 1..l /\ DOMAIN u = 1..m
      /\ \A i \in 1..l : a[i] = s[i] /\ s[i] \in ToSet(s)
      /\ \A i \in (l + 1)..(l + m) : a[i] = u[i - l] /\ u[i - l] \in ToSet(u)
  BY DEF ToSet
<1> HIDE DEF a, l, m
<1> SUFFICES ASSUME NEW i \in DOMAIN a, NEW j \in DOMAIN a, i < j
             PROVE  a[i] < a[j]
  BY DEF Increasing, a
<1>2. CASE j <= l
  <2>1. i \in DOMAIN s /\ j \in DOMAIN s
    BY <1>1, <1>2
  <2> QED BY <1>1, <2>1 DEF Increasing
<1>3. CASE i > l
  <2>1. i - l \in 1..m /\ j - l \in 1..m /\ i - l < j - l
    BY <1>1, <1>3
  <2> QED BY <1>1, <1>3, <2>1 DEF Increasing
<1>4. CASE i <= l /\ j > l
  BY <1>1, <1>4 DEF Below
<1> QED BY <1>1, <1>2, <1>3, <1>4

\* Hands hold packets.
LEMMA HandsTyped ==
    ASSUME TypeOK
    PROVE  \A h \in Hands : Hand(h) \in Seq(1..MaxPackets)
BY ThreadAssumption DEF TypeOK, Hands, Hand, Packets

\* queue() puts a new packet behind the others.
LEMMA QueueStep ==
    ASSUME TypeOK, PacketInv, accepted < MaxPackets, accepted' = accepted + 1,
           queued' = Append(queued, accepted'), HandsFree',
           exposed' = IF raknet = "connected" THEN exposed
                      ELSE exposed \cup {accepted'},
           UNCHANGED <<wire, dropped, lost, raknet, overlap, batch, taken>>
    PROVE  PacketInv'
<1> USE BoundAssumption
<1>1. /\ accepted \in Nat /\ accepted' \in 1..MaxPackets
      /\ queued \in Seq(1..MaxPackets)
  BY DEF TypeOK, Packets
<1>2. /\ Increasing(queued') /\ ToSet(queued') = ToSet(queued) \cup {accepted'}
  <2>1. \A p \in ToSet(queued) : p < accepted'
    BY <1>1 DEF PacketInv, Accepted
  <2> QED BY <1>1, <2>1, IncreasingAppend DEF PacketInv, Sorted
<1>3. \A h \in Hands : Hand(h)' = Hand(h)
  BY DEF Hand
<1>4. /\ wire' = wire /\ ToSet(wire') = ToSet(wire)
      /\ dropped' = dropped /\ overlap' = overlap /\ lost' = lost
      /\ raknet' = raknet /\ exposed \subseteq exposed'
      /\ raknet # "connected" => accepted' \in exposed'
  OBVIOUS
<1>5. /\ 1..accepted' = (1..accepted) \cup {accepted'}
      /\ accepted' \notin 1..accepted
  BY <1>1
<1> HIDE DEF Hands, Hand
<1>6. Covered' /\ Accepted'
  BY <1>2, <1>3, <1>4, <1>5 DEF PacketInv, Covered, Accepted
<1>7. Apart'
  BY <1>2, <1>3, <1>4, <1>5 DEF PacketInv, Accepted, Apart
<1>8. Sorted'
  BY <1>2, <1>3, <1>4 DEF PacketInv, Sorted
<1>9. InTurn'
  <2>1. \A S : Below(S, ToSet(queued)) /\ S \subseteq 1..accepted
               => Below(S, ToSet(queued'))
    BY <1>1, <1>2 DEF Below
  <2> QED BY <1>2, <1>3, <1>4, <2>1 DEF PacketInv, Accepted, InTurn
<1>10. Unprotected'
  BY <1>2, <1>3, <1>4 DEF PacketInv, Unprotected
<1> QED BY <1>6, <1>7, <1>8, <1>9, <1>10 DEF PacketInv

\* The pump or a caller with an empty hand takes the whole queue.
LEMMA TakeStep ==
    ASSUME TypeOK, PacketInv, NEW h \in Hands, Hand(h) = <<>>,
           Hand(h)' = queued, \A g \in Hands : g # h => Hand(g)' = Hand(g),
           queued' = <<>>, overlap' = (overlap \/ (Holding /\ queued # <<>>)),
           HandsFree', UNCHANGED <<wire, dropped, accepted, lost, exposed, raknet>>
    PROVE  PacketInv'
<1>1. ToSet(queued') = {} /\ Increasing(queued')
  BY EmptyList DEF Increasing
<1>2. ToSet(Hand(h)') = ToSet(queued) /\ ToSet(Hand(h)) = {}
  BY EmptyList
<1>3. \A g \in Hands : g # h =>
        ToSet(Hand(g)') = ToSet(Hand(g)) /\ Hand(g)' = Hand(g)
  OBVIOUS
<1>4. /\ wire' = wire /\ ToSet(wire') = ToSet(wire)
      /\ dropped' = dropped /\ accepted' = accepted /\ lost' = lost
      /\ exposed' = exposed /\ raknet' = raknet
  OBVIOUS
<1>5. Holding <=> \E g \in Hands : Hand(g) # <<>>
  BY ThreadAssumption DEF Holding, Hands, Hand
<1> HIDE DEF Hands, Hand
<1>6. Covered'
  BY <1>1, <1>2, <1>3, <1>4 DEF PacketInv, Covered
<1>7. Accepted'
  BY <1>1, <1>2, <1>3, <1>4 DEF PacketInv, Accepted
<1>8. Apart'
  BY <1>1, <1>2, <1>3, <1>4 DEF PacketInv, Apart
<1>9. Sorted'
  BY <1>1, <1>3, <1>4 DEF PacketInv, Sorted
<1>10. InTurn'
  BY <1>1, <1>2, <1>3, <1>4, <1>5, EmptyList DEF PacketInv, InTurn, Below
<1>11. Unprotected'
  BY <1>1, <1>2, <1>3, <1>4 DEF PacketInv, Unprotected
<1> QED BY <1>6, <1>7, <1>8, <1>9, <1>10, <1>11 DEF PacketInv

\* The pump or a caller sends what it holds.
LEMMA SendStep ==
    ASSUME TypeOK, PacketInv, NEW h \in Hands, raknet = "connected",
           wire' = wire \o Hand(h), exposed' = exposed \ ToSet(Hand(h)),
           Hand(h)' = <<>>, \A g \in Hands : g # h => Hand(g)' = Hand(g),
           HandsFree',
           UNCHANGED <<queued, dropped, accepted, overlap, lost, raknet>>
    PROVE  PacketInv'
<1> USE BoundAssumption
<1>0. /\ Hand(h) \in Seq(1..MaxPackets) /\ wire \in Seq(1..MaxPackets)
      /\ MaxPackets \in Nat
  BY HandsTyped DEF TypeOK, Packets
<1>1. /\ ToSet(wire') = ToSet(wire) \cup ToSet(Hand(h))
      /\ Distinct(wire')
  <2>1. /\ Distinct(wire) /\ Distinct(Hand(h))
        /\ ToSet(wire) \cap ToSet(Hand(h)) = {}
    BY <1>0, IncreasingDistinct DEF PacketInv, Sorted, Apart
  <2> QED BY <1>0, <2>1, Joined
<1>2. ToSet(Hand(h)') = {} /\ Increasing(Hand(h)')
  BY EmptyList DEF Increasing
<1>3. \A g \in Hands : g # h =>
        ToSet(Hand(g)') = ToSet(Hand(g)) /\ Hand(g)' = Hand(g)
  OBVIOUS
<1>4. /\ queued' = queued /\ ToSet(queued') = ToSet(queued)
      /\ dropped' = dropped /\ accepted' = accepted /\ overlap' = overlap
      /\ lost' = lost /\ exposed' = exposed \ ToSet(Hand(h)) /\ raknet' = raknet
  OBVIOUS
<1>5. ~overlap => Increasing(wire')
  BY <1>0, IncreasingJoin DEF PacketInv, InTurn, Sorted
<1> HIDE DEF Hands, Hand
<1>6. Covered'
  BY <1>1, <1>2, <1>3, <1>4 DEF PacketInv, Covered
<1>7. Accepted'
  BY <1>1, <1>2, <1>3, <1>4 DEF PacketInv, Accepted
<1>8. Apart'
  BY <1>1, <1>2, <1>3, <1>4 DEF PacketInv, Apart
<1>9. Sorted'
  BY <1>1, <1>2, <1>3, <1>4 DEF PacketInv, Sorted
<1>10. InTurn'
  <2>1. \A g \in Hands : g # h /\ Hand(h) # <<>> /\ ~overlap => Hand(g) = <<>>
    BY DEF PacketInv, InTurn
  <2>2. Hand(h) = <<>> => ToSet(Hand(h)) = {}
    BY EmptyList
  <2> QED BY <1>1, <1>2, <1>3, <1>4, <1>5, <2>1, <2>2, EmptyList
          DEF PacketInv, InTurn, Below
<1>11. Unprotected'
  BY <1>4 DEF PacketInv, Unprotected, Apart
<1> QED BY <1>6, <1>7, <1>8, <1>9, <1>10, <1>11 DEF PacketInv

\* The pump or a caller loses what it holds, without a connection.
LEMMA LoseStep ==
    ASSUME TypeOK, PacketInv, NEW h \in Hands, raknet # "connected",
           lost' = lost \cup ToSet(Hand(h)),
           Hand(h)' = <<>>, \A g \in Hands : g # h => Hand(g)' = Hand(g),
           HandsFree',
           UNCHANGED <<queued, wire, dropped, accepted, overlap, exposed, raknet>>
    PROVE  PacketInv'
<1>1. ToSet(Hand(h)') = {} /\ Increasing(Hand(h)')
  BY EmptyList DEF Increasing
<1>2. \A g \in Hands : g # h =>
        ToSet(Hand(g)') = ToSet(Hand(g)) /\ Hand(g)' = Hand(g)
  OBVIOUS
<1>3. /\ queued' = queued /\ ToSet(queued') = ToSet(queued)
      /\ wire' = wire /\ ToSet(wire') = ToSet(wire)
      /\ dropped' = dropped /\ accepted' = accepted /\ overlap' = overlap
      /\ exposed' = exposed /\ raknet' = raknet
  OBVIOUS
<1> HIDE DEF Hands, Hand
<1>4. Covered'
  BY <1>1, <1>2, <1>3 DEF PacketInv, Covered
<1>5. Accepted'
  BY <1>1, <1>2, <1>3 DEF PacketInv, Accepted
<1>6. Apart'
  BY <1>1, <1>2, <1>3 DEF PacketInv, Apart
<1>7. Sorted'
  BY <1>1, <1>2, <1>3 DEF PacketInv, Sorted
<1>8. InTurn'
  BY <1>1, <1>2, <1>3, EmptyList DEF PacketInv, InTurn, Below
<1>9. Unprotected'
  BY <1>1, <1>2, <1>3 DEF PacketInv, Unprotected
<1> QED BY <1>4, <1>5, <1>6, <1>7, <1>8, <1>9 DEF PacketInv

\* So a send keeps the packets, with a connection or without.
LEMMA SendOrLose ==
    ASSUME TypeOK, PacketInv, NEW h \in Hands, SendPacketsLocked(Hand(h)),
           Hand(h)' = <<>>, \A g \in Hands : g # h => Hand(g)' = Hand(g),
           HandsFree', UNCHANGED <<queued, dropped, accepted, overlap, raknet>>
    PROVE  PacketInv'
<1> HIDE DEF Hands, Hand
<1>1. CASE raknet = "connected"
  BY <1>1, SendStep DEF SendPacketsLocked
<1>2. CASE raknet # "connected"
  BY <1>2, LoseStep DEF SendPacketsLocked
<1> QED BY <1>1, <1>2

\* The transport is lost: whatever waits is exposed.
LEMMA ExposeStep ==
    ASSUME PacketInv, Disconnect, HandsFree',
           UNCHANGED <<queued, batch, taken, wire, dropped, lost, accepted, overlap>>
    PROVE  PacketInv'
<1>1. \A h \in Hands : Hand(h)' = Hand(h)
  BY DEF Hand
<1>2. /\ exposed \subseteq exposed' /\ ToSet(queued) \subseteq exposed'
      /\ \A h \in Hands : ToSet(Hand(h)) \subseteq exposed'
  BY DEF Disconnect, Waiting, Hands, Hand
<1>3. Unprotected'
  BY <1>1, <1>2 DEF PacketInv, Unprotected
<1> HIDE DEF Hands, Hand
<1> QED BY <1>1, <1>3 DEF PacketInv, Covered, Accepted, Apart, Sorted, InTurn

\* A stop clears the queue.
LEMMA DropStep ==
    ASSUME PacketInv, queued' = <<>>, dropped' = dropped \cup ToSet(queued),
           exposed' = exposed \ ToSet(queued), HandsFree',
           UNCHANGED <<wire, accepted, overlap, batch, taken, lost, raknet>>
    PROVE  PacketInv'
<1>1. ToSet(queued') = {} /\ Increasing(queued')
  BY EmptyList DEF Increasing
<1>2. \A h \in Hands : Hand(h)' = Hand(h) /\ ToSet(Hand(h)') = ToSet(Hand(h))
  BY DEF Hand
<1> HIDE DEF Hands, Hand
<1>3. Covered' /\ Accepted'
  BY <1>1, <1>2 DEF PacketInv, Covered, Accepted
<1>4. Apart'
  BY <1>1, <1>2 DEF PacketInv, Apart
<1>5. Sorted' /\ InTurn'
  BY <1>1, <1>2 DEF PacketInv, Sorted, InTurn, Below
<1>6. Unprotected'
  BY <1>1, <1>2 DEF PacketInv, Unprotected, Apart
<1> QED BY <1>3, <1>4, <1>5, <1>6 DEF PacketInv

packetVars == <<queued, batch, taken, wire, dropped, lost, exposed, accepted,
                overlap>>

\* Nothing about packets changes.
LEMMA NoPacketStep ==
    ASSUME PacketInv, HandsFree', UNCHANGED packetVars,
           raknet' # "connected" => raknet # "connected"
    PROVE  PacketInv'
<1>1. \A h \in Hands : Hand(h)' = Hand(h)
  BY DEF Hand, packetVars
<1> HIDE DEF Hands, Hand
<1> QED BY <1>1
        DEF PacketInv, packetVars, Covered, Accepted, Apart, Sorted, InTurn,
            Unprotected

\* A hand is full only while its owner sends.
LEMMA HandsFreeStep == ControlInv /\ HandsFree /\ [Next]_vars => HandsFree'
<1> SUFFICES ASSUME TypeOK, PumpPosition, HandsFree, [Next]_vars
             PROVE  HandsFree'
  BY DEF ControlInv
<1> USE DEF TypeOK, HandsFree, Goto, Step, Return, Free, flags, latch, locals,
            history
<1>1. ASSUME NEW t \in Callers,
             \/ Queue(t) \/ SendQueuedTake(t) \/ SendQueuedSend(t) \/ Resume(t)
             \/ RequestStop(t) \/ RequestStopTransport(t)
      PROVE  HandsFree'
  BY <1>1
     DEF Queue, SendQueuedTake, SendQueuedSend, Home, Resume, RequestStop,
         RequestStopTransport
<1>2. ASSUME NEW t \in Callers, BeginStart(t) \/ Start(t)
      PROVE  HandsFree'
  <2>1. ASSUME BeginStart(t) \/ StartLock(t) \/ StartStop(t) \/ StartJoin(t)
        PROVE  HandsFree'
    BY <2>1 DEF BeginStart, StartLock, StartStop, StopFlags, StartJoin
  <2>2. CASE StartArm(t)
    <3>1. pc[t] = "startArm" /\ UNCHANGED <<pump, batch, taken>>
          /\ \A u \in Callers : u # t => pc'[u] = pc[u]
      BY <2>2 DEF StartArm
    <3> QED BY <3>1
  <2>3. CASE StartSpawn(t)
    BY <2>3 DEF StartSpawn, PumpPosition
  <2> QED BY <1>2, <2>1, <2>2, <2>3 DEF Start
<1>3. ASSUME NEW t \in Callers, BeginStop(t) \/ Stop(t)
      PROVE  HandsFree'
  BY <1>3 DEF BeginStop, Stop, StopLock, StopFlag, StopFlags, StopJoin
<1>4. ASSUME NEW t \in Callers, CloseAdmit(t) \/ Close(t)
      PROVE  HandsFree'
  BY <1>4
     DEF CloseAdmit, Close, ClosePause, ClosePauseWait, CloseListened,
         CloseStop, CloseCommit, CloseTransport, CloseRelease
<1>5. CASE \/ Pump \/ \E k \in Timers : ArmTimer(k)
           \/ InstallTransport \/ TransportConnected \/ TransportLost
  BY <1>5
     DEF InstallTransport, TransportConnected, TransportLost, ArmTimer, Pump, PumpExit, PumpResume, PumpTick, PumpSend,
         PumpSent
<1>6. CASE UNCHANGED vars
  BY <1>6 DEF vars
<1> QED BY <1>1, <1>2, <1>3, <1>4, <1>5, <1>6 DEF Next

\* Every step queues, takes, sends or drops packets, or leaves them alone.
LEMMA PacketStep == ControlInv /\ PacketInv /\ [Next]_vars => PacketInv'
<1> SUFFICES ASSUME ControlInv, PacketInv, [Next]_vars
             PROVE  PacketInv'
  OBVIOUS
<1> TypeOK BY DEF ControlInv
<1> HandsFree' BY HandsFreeStep DEF PacketInv
<1>1. ASSUME NEW t \in Callers, Queue(t) PROVE PacketInv'
  BY <1>1, QueueStep DEF Queue, locals
<1>2. ASSUME NEW t \in Callers, SendQueuedTake(t) PROVE PacketInv'
  <2>1. /\ Hand(t) = <<>> /\ Hand(t)' = queued /\ t \in Hands
        /\ \A g \in Hands : g # t => Hand(g)' = Hand(g)
    BY <1>2, ThreadAssumption
       DEF SendQueuedTake, Hand, Hands, PacketInv, HandsFree, Free, TypeOK
  <2> QED BY <1>2, <2>1, TakeStep DEF SendQueuedTake
<1>3. ASSUME NEW t \in Callers, SendQueuedSend(t) PROVE PacketInv'
  <2>1. /\ Hand(t) = taken[t] /\ Hand(t)' = <<>> /\ t \in Hands
        /\ \A g \in Hands : g # t => Hand(g)' = Hand(g)
    BY <1>3, ThreadAssumption DEF SendQueuedSend, Hand, Hands, TypeOK
  <2> QED BY <1>3, <2>1, SendOrLose DEF SendQueuedSend
<1>4. ASSUME NEW t \in Callers, StartStop(t) \/ StopFlag(t) PROVE PacketInv'
  BY <1>4, DropStep DEF StartStop, StopFlag, StopFlags
<1>5. CASE PumpTick
  <2>1. /\ Hand(NoThread) = <<>> /\ Hand(NoThread)' = queued
        /\ NoThread \in Hands
        /\ \A g \in Hands : g # NoThread => Hand(g)' = Hand(g)
    BY <1>5, ThreadAssumption
       DEF PumpTick, Hand, Hands, PacketInv, HandsFree, locals
  <2> QED BY <1>5, <2>1, TakeStep DEF PumpTick
<1>6. CASE PumpSend
  <2>1. /\ Hand(NoThread) = batch /\ Hand(NoThread)' = <<>>
        /\ NoThread \in Hands
        /\ \A g \in Hands : g # NoThread => Hand(g)' = Hand(g)
    BY <1>6, ThreadAssumption DEF PumpSend, Hand, Hands, locals
  <2> QED BY <1>6, <2>1, SendOrLose DEF PumpSend
<1>7. ASSUME NEW t \in Callers,
             BeginStart(t) \/ StartLock(t) \/ StartJoin(t) \/ StartArm(t)
             \/ StartSpawn(t) \/ Resume(t)
      PROVE  PacketInv'
  BY <1>7, NoPacketStep
     DEF BeginStart, StartLock, StartJoin, StartArm, StartSpawn, Resume,
         packetVars, history, locals
<1>8. ASSUME NEW t \in Callers, BeginStop(t) \/ StopLock(t) \/ StopJoin(t)
      PROVE  PacketInv'
  BY <1>8, NoPacketStep DEF BeginStop, StopLock, StopJoin, packetVars, history
<1>9. ASSUME NEW t \in Callers,
             \/ RequestStop(t) \/ CloseAdmit(t) \/ ClosePause(t)
             \/ ClosePauseWait(t) \/ CloseListened(t) \/ CloseStop(t)
             \/ CloseCommit(t) \/ CloseRelease(t)
      PROVE  PacketInv'
  BY <1>9, NoPacketStep
     DEF RequestStop, CloseAdmit, ClosePause, ClosePauseWait, CloseListened,
         CloseStop, CloseCommit, CloseRelease, packetVars, history
<1>10. CASE \/ InstallTransport \/ TransportConnected
            \/ PumpExit \/ PumpResume \/ PumpSent
            \/ \E k \in Timers : ArmTimer(k)
  BY <1>10, NoPacketStep
     DEF InstallTransport, TransportConnected, ArmTimer, PumpExit, PumpResume,
         PumpSent, packetVars, history, locals
<1>11. CASE UNCHANGED vars
  BY <1>11, NoPacketStep DEF vars, packetVars, history, locals
<1>12. CASE TransportLost
  BY <1>12, ExposeStep DEF TransportLost, locals
<1>13. ASSUME NEW t \in Callers, RequestStopTransport(t) PROVE PacketInv'
  BY <1>13, ExposeStep DEF RequestStopTransport
<1>14. ASSUME NEW t \in Callers, CloseTransport(t) PROVE PacketInv'
  <2>1. CASE Disconnect
    BY <1>14, <2>1, ExposeStep DEF CloseTransport
  <2>2. CASE UNCHANGED <<raknet, exposed>>
    BY <1>14, <2>2, NoPacketStep DEF CloseTransport, packetVars
  <2> QED BY <1>14, <2>1, <2>2 DEF CloseTransport
<1> QED BY <1>1, <1>2, <1>3, <1>4, <1>5, <1>6, <1>7, <1>8, <1>9, <1>10, <1>11,
           <1>12, <1>13, <1>14
        DEF Next, Start, Stop, Close, Pump

-----------------------------------------------------------------------------
\* At first nothing runs and nothing is queued.
LEMMA InitControl == Init => ControlInv /\ PacketInv
<1> SUFFICES ASSUME Init PROVE ControlInv /\ PacketInv
  OBVIOUS
<1> USE ThreadAssumption, BoundAssumption DEF Init
<1>1. TypeOK
  <2>1. pc \in [Callers -> Labels]
    BY DEF Labels
  <2>2. /\ queued \in Seq(Packets) /\ batch \in Seq(Packets)
        /\ wire \in Seq(Packets) /\ taken \in [Callers -> Seq(Packets)]
    OBVIOUS
  <2>3. /\ back \in [Callers -> {"idle", "listen", "closeCommit"}]
        /\ late \in [Callers -> BOOLEAN]
    OBVIOUS
  <2>4. depth \in 0..MaxDepth /\ accepted \in 0..MaxPackets
    OBVIOUS
  <2> QED BY <2>1, <2>2, <2>3, <2>4 DEF TypeOK
<1>2. LifecycleOwned /\ PumpPosition /\ LatchOwned
  BY DEF LifecycleOwned, PumpPosition, Running, LatchOwned, HoldsLifecycle,
         InCall, InClose
<1>3. Paused /\ StopPublished /\ DemandArmed
  BY DEF Paused, StopPublished, DemandArmed, InCall, HoldsLifecycle
<1>4. \A h \in Hands : Hand(h) = <<>>
  BY DEF Hands, Hand
<1>5. HandsFree /\ Covered
  BY DEF HandsFree, Covered
<1>6. Accepted /\ Apart
  BY <1>4, EmptyList DEF Accepted, Apart
<1>7. Sorted /\ InTurn /\ Unprotected
  BY <1>4, EmptyList DEF Sorted, InTurn, Below, Increasing, Unprotected
<1> QED BY <1>1, <1>2, <1>3, <1>5, <1>6, <1>7 DEF ControlInv, PacketInv

\* What the invariants say of the pump.
LEMMA ControlImplies == ControlInv => PumpUnderControl /\ DemandArmed
BY DEF ControlInv, PumpUnderControl, QuietListeners, OnePump, PumpPosition,
       Running, Paused

\* ... and of the packets.
LEMMA PacketImplies == ControlInv /\ PacketInv => PacketsOnce
<1> SUFFICES ASSUME ControlInv, PacketInv PROVE PacketsOnce
  OBVIOUS
<1>1. \A p : InHand(p) <=> \E h \in Hands : p \in ToSet(Hand(h))
  BY ThreadAssumption DEF InHand, Hands, Hand
<1>2. EachPacketOnce
  <2>1. IsInjective(wire)
    BY DEF PacketInv, Sorted, Distinct, IsInjective
  <2>2. ASSUME NEW p \in 1..accepted
        PROVE  Cardinality({s \in {"queued", "hand", "sent", "dropped", "lost"} :
             CASE s = "queued" -> p \in ToSet(queued)
               [] s = "hand" -> InHand(p)
               [] s = "sent" -> p \in ToSet(wire)
               [] s = "dropped" -> p \in dropped
               [] s = "lost" -> p \in lost}) = 1
    <3> DEFINE P == {s \in {"queued", "hand", "sent", "dropped", "lost"} :
             CASE s = "queued" -> p \in ToSet(queued)
               [] s = "hand" -> InHand(p)
               [] s = "sent" -> p \in ToSet(wire)
               [] s = "dropped" -> p \in dropped
               [] s = "lost" -> p \in lost}
    <3>1. /\ "queued" \in P <=> p \in ToSet(queued)
          /\ "hand" \in P <=> InHand(p)
          /\ "sent" \in P <=> p \in ToSet(wire)
          /\ "dropped" \in P <=> p \in dropped
          /\ "lost" \in P <=> p \in lost
          /\ P \subseteq {"queued", "hand", "sent", "dropped", "lost"}
      OBVIOUS
    <3> HIDE DEF P
    <3>2. \/ "queued" \in P \/ "hand" \in P \/ "sent" \in P \/ "dropped" \in P
          \/ "lost" \in P
      BY <1>1, <3>1 DEF PacketInv, Covered
    <3>3. /\ "queued" \in P =>
               "hand" \notin P /\ "sent" \notin P /\ "dropped" \notin P
          /\ "hand" \in P => "sent" \notin P /\ "dropped" \notin P
          /\ "sent" \in P => "dropped" \notin P
          /\ "lost" \in P => /\ "queued" \notin P /\ "hand" \notin P
                             /\ "sent" \notin P /\ "dropped" \notin P
      BY <1>1, <3>1 DEF PacketInv, Apart
    <3>4. PICK x : P = {x}
      BY <3>1, <3>2, <3>3
    <3>5. Cardinality(P) = 1
      BY <3>4, FS_Singleton
    <3> QED BY <3>5 DEF P
  <2> QED BY <2>1, <2>2 DEF EachPacketOnce
<1>3. SentInOrder
  BY DEF PacketInv, InTurn, Increasing, SentInOrder
<1>4. LostOnlyExposed
  BY DEF PacketInv, Unprotected, LostOnlyExposed
<1> QED BY <1>2, <1>3, <1>4 DEF PacketsOnce

\* The inductive invariants hold always.
LEMMA QueueInvariant == Spec => [](ControlInv /\ PacketInv)
<1>1. ControlInv /\ PacketInv /\ [Next]_vars => (ControlInv /\ PacketInv)'
  BY ControlStep, PacketStep
<1> QED BY InitControl, <1>1, PTL DEF Spec

\* Close listeners run with the pump at rest and a returned stop leaves no
\* pump thread, for any number of threads that start, resume, stop and close
\* the queue, and any depth of nested closes.
THEOREM PumpControlled == Spec => []PumpUnderControl
BY QueueInvariant, ControlImplies, PTL

\* The demand for the pump survives every throwing close, restart and resume.
THEOREM DemandKept == Spec => []DemandArmed
BY QueueInvariant, ControlImplies, PTL

\* Whatever the number of callers and packets, every packet that queue() takes
\* is sent once and in order, cleared by a stop, or lost to a send without a
\* connected transport, and the last only when the connection was missing at
\* some time while the packet waited.
THEOREM PacketsKept == Spec => []PacketsOnce
BY QueueInvariant, PacketImplies, PTL

=============================================================================
