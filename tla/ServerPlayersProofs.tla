------------------------- MODULE ServerPlayersProofs -------------------------
(* What holds of the player registry for every number of threads, endpoints *)
(* and sessions: a close event is the player's own and comes once, the      *)
(* registry and its count are exact, and no closed player is remembered.    *)
EXTENDS ServerPlayers, FiniteSetTheorems, TLAPS

InOpen == {"openErase", "openRegister"}
InPeerClosed == {"peerErase", "pcFind", "pcMark", "pcEmit", "pcDetach",
                 "pcErase", "pcCount"}
InClosePlayer == {"plMark", "plEmit", "plPeer", "plStatus", "plDetach"}
InDisconnect == {"dcRoute", "dcNative", "dcTimer"}
InClose == {"scSnap", "scNext", "scClear", "scDetach", "scShutdown", "scJoin"}
Emitting == {"pcEmit", "plEmit"}

\* Sessions have keys of their own, and only they are referred to.
KeysOwn ==
    /\ \A s \in Known : key[s] \in Keys
    /\ \A r, s \in Known : key[r] = key[s] => r = s
    /\ \A e \in Endpoints :
         conn[e] # 0 => conn[e] \in Known /\ key[conn[e]][1] = e
    /\ \A t \in Threads : todo[t] \subseteq Known /\ cut[t] \subseteq Known

\* The worker opens a connection whose key no session has.
FreshKey ==
    \A t \in Threads : pc[t] \in InOpen =>
        /\ t = Worker /\ opened < MaxSessions /\ peer[t] \in Keys
        /\ \A s \in Known : key[s] # peer[t]

\* A thread that closes a player works on a session that was ended, under its
\* own key.
Ended == Known \cap cause
OwnSession(t) == sess[t] \in Ended /\ key[sess[t]] = peer[t]
OwnedBy(t) ==
    /\ pc[t] \in InClosePlayer \cup {"pcMark", "pcEmit"} => OwnSession(t)
    /\ back[t] = "plStatus" => OwnSession(t)
    /\ pc[t] \in InDisconnect => sess[t] \in Ended
    /\ pc[t] \in InPeerClosed => peer[t] \in Keys
    /\ pc[t] \in {"peerErase", "pcFind"}
       => \A k \in Keys : peer[t] = k => Registered(k) \in cause \cup {0}
Pending ==
    timed \subseteq Ended /\ \A k \in sched : \E s \in Ended : key[s] = k
Owned == Pending /\ \A t \in Threads : OwnedBy(t)

\* Where the calls return to.
Returns ==
    \A t \in Threads :
        /\ back[t] = "plStatus" => pc[t] \in InPeerClosed \cup {"plStatus"}
        /\ pc[t] \in InPeerClosed => back[t] = "plStatus" \/ t = Worker
        /\ ret[t] = "scNext" => pc[t] \in InDisconnect \cup {"scNext"}
        /\ pc[t] \in InClose \/ ret[t] = "scNext" => closing

\* closedPlayers_ admits one emitter for each session.
EmitOnce ==
    /\ \A s \in Sessions :
         heard[s] <= 1 /\ (heard[s] > 0 => s \in Ended /\ key[s] \in closedP)
    /\ \A t \in Threads :
         /\ pc[t] \in {"pcEmit", "pcDetach", "pcErase", "pcCount", "plEmit"}
            => peer[t] \in closedP
         /\ pc[t] \in Emitting =>
              /\ heard[sess[t]] = 0
              /\ \A u \in Threads :
                   pc[u] \in Emitting /\ peer[u] = peer[t] => u = t

\* A closed player that is still remembered is being forgotten.
Forgetting ==
    /\ \A t \in Threads :
         pc[t] \in {"pcErase", "pcCount"} => peer[t] \notin detached
    /\ \A k \in detached \cap closedP : \E t \in Threads :
         /\ peer[t] = k
         /\ \/ back[t] = "plStatus"
            \/ pc[t] \in {"plEmit", "plPeer", "plDetach", "pcEmit", "pcDetach"}

\* Once Server#close has emptied the registry, closing_ keeps it empty.
Cleared == cleared => closing /\ \A e \in Endpoints : conn[e] = 0

\* The inductive invariant.
Inv == TypeOK /\ KeysOwn /\ FreshKey /\ Owned /\ Returns /\ EmitOnce
       /\ Forgetting /\ Cleared /\ CountExact

\* The types of the four groups of variables.
TypeNet ==
    /\ link \in [Endpoints -> Guids \cup {None}]
    /\ peers \in [Endpoints -> Guids \cup {None}]
    /\ running \in BOOLEAN /\ shutdown \in BOOLEAN /\ sched \subseteq Keys
TypeRegistry ==
    /\ closing \in BOOLEAN /\ listens \in 0..MaxListens
    /\ conn \in [Endpoints -> 0..MaxSessions] /\ count \in Int
    /\ status \in [Sessions -> {"Live", "Disconnected"}]
    /\ key \in [Sessions -> Keys \cup {NoKey}] /\ opened \in 0..MaxSessions
    /\ closedP \subseteq Keys /\ detached \subseteq Keys
    /\ timed \subseteq Sessions
TypeThreads ==
    /\ pc \in [Threads -> Labels]
    /\ ret \in [Threads -> {"idle", "scNext"}]
    /\ back \in [Threads -> {"idle", "plStatus"}]
    /\ sess \in [Threads -> 0..MaxSessions]
    /\ peer \in [Threads -> Keys \cup {NoKey}]
    /\ todo \in [Threads -> SUBSET Sessions]
    /\ cut \in [Threads -> SUBSET Sessions]
TypeHistory ==
    /\ heard \in [Sessions -> 0..2] /\ cause \subseteq Sessions
    /\ cleared \in BOOLEAN /\ overtaken \in BOOLEAN

\* A key is its endpoint and its GUID.
LEMMA KeyParts ==
    \A k \in Keys : k[1] \in Endpoints /\ k[2] \in Guids /\ k = <<k[1], k[2]>>
BY DEF Keys

\* The session registered under a key has that key.
LEMMA RegisteredTyped ==
    ASSUME TypeOK, NEW k \in Keys
    PROVE  /\ Registered(k) \in 0..MaxSessions
           /\ Registered(k) # 0 =>
                conn[k[1]] = Registered(k) /\ key[Registered(k)] = k
BY KeyParts, BoundAssumption DEF TypeOK, Registered, Sessions

\* A call that returns leaves its thread typed.
LEMMA ReturnTyped ==
    ASSUME TypeOK, NEW t \in Threads, NEW l \in Labels, Return(t, l)
    PROVE  /\ pc' \in [Threads -> Labels]
           /\ sess' \in [Threads -> 0..MaxSessions]
           /\ peer' \in [Threads -> Keys \cup {NoKey}]
BY BoundAssumption DEF TypeOK, Return, Goto

\* Types are kept by every step.
LEMMA TypeStep == Inv /\ [Next]_vars => TypeOK'
<1> SUFFICES ASSUME Inv, [Next]_vars
             PROVE  TypeOK'
  OBVIOUS
<1> USE ThreadAssumption, GuidAssumption, BoundAssumption
<1> USE DEF Goto, Step, Hear, net, registry, lifecycle, server, locals, history
<1> USE DEF Sessions, Threads, Inv
<1>t. TypeNet /\ TypeRegistry /\ TypeThreads /\ TypeHistory
  BY DEF TypeOK, TypeNet, TypeRegistry, TypeThreads, TypeHistory
<1> DEFINE Typed == TypeNet /\ TypeRegistry /\ TypeThreads /\ TypeHistory
<1>u. SUFFICES Typed'
  BY DEF TypeOK, TypeNet, TypeRegistry, TypeThreads, TypeHistory
<1>1. ASSUME NEW e \in Endpoints, NEW g \in Guids, NewIncoming(e, g)
      PROVE  Typed'
  <2>0. <<e, g>> \in Keys
    BY DEF Keys
  <2>1. TypeNet'
    BY <1>t, <1>1 DEF NewIncoming, TypeNet
  <2>2. TypeRegistry'
    BY <1>t, <1>1 DEF NewIncoming, TypeRegistry
  <2>3. TypeThreads'
    BY <1>t, <1>1, <2>0 DEF NewIncoming, TypeThreads, Labels
  <2>4. TypeHistory'
    BY <1>t, <1>1 DEF NewIncoming, TypeHistory
  <2> QED BY <2>1, <2>2, <2>3, <2>4
<1>2. ASSUME NEW e \in Endpoints, PeerLost(e) PROVE Typed'
  <2>0. link[e] # None => <<e, link[e]>> \in Keys
    BY <1>t DEF TypeNet, Keys
  <2>1. TypeNet'
    BY <1>t, <1>2 DEF PeerLost, TypeNet
  <2>2. TypeRegistry'
    BY <1>t, <1>2 DEF PeerLost, TypeRegistry
  <2>3. TypeThreads'
    BY <1>t, <1>2, <2>0 DEF PeerLost, TypeThreads, Labels
  <2>4. TypeHistory'
    <3>1. cause' \subseteq cause \cup ({Registered(<<e, link[e]>>)} \ {0})
      BY <1>2 DEF PeerLost
    <3>2. Registered(<<e, link[e]>>) \in 0..MaxSessions
      BY <1>2, <2>0, RegisteredTyped DEF PeerLost
    <3> QED BY <1>t, <1>2, <3>1, <3>2 DEF PeerLost, TypeHistory
  <2> QED BY <2>1, <2>2, <2>3, <2>4
<1>3. ASSUME NEW k \in sched, CloseDue(k) PROVE Typed'
  BY <1>t, <1>3
     DEF CloseDue, TypeNet, TypeRegistry, TypeThreads, TypeHistory, Labels,
         Return
<1>4. CASE OpenErase
  BY <1>t, <1>4
     DEF OpenErase, TypeNet, TypeRegistry, TypeThreads, TypeHistory, Labels,
         Return
<1>5. CASE OpenRegister
  <2>0. /\ peer[Worker] \in Keys /\ peer[Worker][1] \in Endpoints
        /\ opened + 1 \in Sessions
    BY <1>t, <1>5, KeyParts DEF FreshKey, InOpen, OpenRegister, TypeRegistry
  <2>1. TypeNet'
    BY <1>t, <1>5 DEF OpenRegister, TypeNet
  <2>2. TypeRegistry'
    <3>1. CASE closing
      BY <1>t, <1>5, <3>1 DEF OpenRegister, TypeRegistry
    <3>2. CASE ~closing
      <4>1. opened' \in 0..MaxSessions /\ count' \in Int
        BY <1>t, <1>5, <2>0, <3>2 DEF OpenRegister, TypeRegistry, Register
      <4>2. conn' \in [Endpoints -> 0..MaxSessions]
        BY <1>t, <1>5, <2>0, <3>2 DEF OpenRegister, TypeRegistry, Register
      <4>3. /\ key' \in [Sessions -> Keys \cup {NoKey}]
            /\ status' \in [Sessions -> {"Live", "Disconnected"}]
        BY <1>t, <1>5, <2>0, <3>2 DEF OpenRegister, TypeRegistry, Register
      <4> QED BY <1>t, <1>5, <4>1, <4>2, <4>3 DEF OpenRegister, TypeRegistry
    <3> QED BY <3>1, <3>2
  <2>3. TypeThreads'
    BY <1>t, <1>5, ReturnTyped DEF OpenRegister, TypeThreads, Labels
  <2>4. TypeHistory'
    BY <1>t, <1>5 DEF OpenRegister, Register, TypeHistory
  <2> QED BY <2>1, <2>2, <2>3, <2>4
<1>6. CASE ShutdownDue
  BY <1>t, <1>6
     DEF ShutdownDue, TypeNet, TypeRegistry, TypeThreads, TypeHistory, Labels,
         Return
<1>7. ASSUME NEW s \in timed, TimerDue(s) PROVE Typed'
  BY <1>t, <1>7
     DEF TimerDue, TypeNet, TypeRegistry, TypeThreads, TypeHistory, Labels,
         Return
<1>8. ASSUME NEW t \in Threads, PeerErase(t) PROVE Typed'
  <2>0. peer[t] \in Keys /\ peer[t][1] \in Endpoints
    BY <1>8, KeyParts
       DEF Owned, OwnedBy, OwnSession, KeysOwn, Ended, InPeerClosed,
           InClosePlayer, PeerErase
  <2>1. TypeNet'
    BY <1>t, <1>8, <2>0 DEF PeerErase, TypeNet
  <2>2. TypeRegistry'
    BY <1>t, <1>8 DEF PeerErase, TypeRegistry
  <2>3. TypeThreads'
    BY <1>t, <1>8, ReturnTyped DEF PeerErase, TypeThreads, Labels
  <2>4. TypeHistory'
    BY <1>t, <1>8 DEF PeerErase, TypeHistory
  <2> QED BY <2>1, <2>2, <2>3, <2>4
<1>9. ASSUME NEW t \in Threads, PcFind(t) PROVE Typed'
  <2>0. peer[t] \in Keys /\ peer[t][1] \in Endpoints
    BY <1>9, KeyParts
       DEF Owned, OwnedBy, OwnSession, KeysOwn, Ended, InPeerClosed,
           InClosePlayer, PcFind
  <2>1. TypeNet'
    BY <1>t, <1>9 DEF PcFind, TypeNet
  <2>2. TypeRegistry'
    BY <1>t, <1>9 DEF PcFind, TypeRegistry
  <2>3. TypeThreads'
    BY <1>t, <1>9, ReturnTyped, RegisteredTyped, <2>0
       DEF PcFind, TypeThreads, Labels
  <2>4. TypeHistory'
    BY <1>t, <1>9 DEF PcFind, TypeHistory
  <2> QED BY <2>1, <2>2, <2>3, <2>4
<1>10. ASSUME NEW t \in Threads, PcMark(t) PROVE Typed'
  <2>0. peer[t] \in Keys /\ peer[t][1] \in Endpoints
    BY <1>10, KeyParts
       DEF Owned, OwnedBy, OwnSession, KeysOwn, Ended, InPeerClosed,
           InClosePlayer, PcMark
  <2>1. TypeNet'
    BY <1>t, <1>10 DEF PcMark, TypeNet
  <2>2. TypeRegistry'
    BY <1>t, <1>10, <2>0 DEF PcMark, TypeRegistry
  <2>3. TypeThreads'
    BY <1>t, <1>10 DEF PcMark, TypeThreads, Labels
  <2>4. TypeHistory'
    BY <1>t, <1>10 DEF PcMark, TypeHistory
  <2> QED BY <2>1, <2>2, <2>3, <2>4
<1>11. ASSUME NEW t \in Threads, PcEmit(t) PROVE Typed'
  <2>0. sess[t] \in Sessions /\ heard[sess[t]] = 0
    BY <1>t, <1>11
       DEF PcEmit, Owned, OwnedBy, OwnSession, Ended, Known, InClosePlayer,
           EmitOnce, Emitting, TypeRegistry
  <2>1. TypeNet'
    BY <1>t, <1>11 DEF PcEmit, TypeNet
  <2>2. TypeRegistry'
    BY <1>t, <1>11 DEF PcEmit, TypeRegistry
  <2>3. TypeThreads'
    BY <1>t, <1>11 DEF PcEmit, TypeThreads, Labels
  <2>4. TypeHistory'
    BY <1>t, <1>11, <2>0 DEF PcEmit, TypeHistory
  <2> QED BY <2>1, <2>2, <2>3, <2>4
<1>12. ASSUME NEW t \in Threads, PcDetach(t) PROVE Typed'
  BY <1>t, <1>12
     DEF PcDetach, TypeNet, TypeRegistry, TypeThreads, TypeHistory, Labels,
         Return
<1>13. ASSUME NEW t \in Threads, PcErase(t) PROVE Typed'
  <2>0. peer[t] \in Keys /\ peer[t][1] \in Endpoints
    BY <1>13, KeyParts
       DEF Owned, OwnedBy, OwnSession, KeysOwn, Ended, InPeerClosed,
           InClosePlayer, PcErase
  <2>1. TypeNet'
    BY <1>t, <1>13 DEF PcErase, TypeNet
  <2>2. TypeRegistry'
    BY <1>t, <1>13, <2>0 DEF PcErase, TypeRegistry
  <2>3. TypeThreads'
    BY <1>t, <1>13, ReturnTyped DEF PcErase, TypeThreads, Labels
  <2>4. TypeHistory'
    BY <1>t, <1>13 DEF PcErase, TypeHistory
  <2> QED BY <2>1, <2>2, <2>3, <2>4
<1>14. ASSUME NEW t \in Threads, PcCount(t) PROVE Typed'
  BY <1>t, <1>14
     DEF PcCount, TypeNet, TypeRegistry, TypeThreads, TypeHistory, Labels,
         Return
<1>15. ASSUME NEW t \in Threads, PlMark(t) PROVE Typed'
  <2>0. peer[t] \in Keys /\ peer[t][1] \in Endpoints
    BY <1>15, KeyParts
       DEF Owned, OwnedBy, OwnSession, KeysOwn, Ended, InPeerClosed,
           InClosePlayer, PlMark
  <2>1. TypeNet'
    BY <1>t, <1>15 DEF PlMark, TypeNet
  <2>2. TypeRegistry'
    BY <1>t, <1>15, <2>0 DEF PlMark, TypeRegistry
  <2>3. TypeThreads'
    BY <1>t, <1>15, ReturnTyped DEF PlMark, TypeThreads, Labels
  <2>4. TypeHistory'
    BY <1>t, <1>15 DEF PlMark, TypeHistory
  <2> QED BY <2>1, <2>2, <2>3, <2>4
<1>16. ASSUME NEW t \in Threads, PlEmit(t) PROVE Typed'
  <2>0. sess[t] \in Sessions /\ heard[sess[t]] = 0
    BY <1>t, <1>16
       DEF PlEmit, Owned, OwnedBy, OwnSession, Ended, Known, InClosePlayer,
           EmitOnce, Emitting, TypeRegistry
  <2>1. TypeNet'
    BY <1>t, <1>16 DEF PlEmit, TypeNet
  <2>2. TypeRegistry'
    BY <1>t, <1>16 DEF PlEmit, TypeRegistry
  <2>3. TypeThreads'
    BY <1>t, <1>16 DEF PlEmit, TypeThreads, Labels
  <2>4. TypeHistory'
    BY <1>t, <1>16, <2>0 DEF PlEmit, TypeHistory
  <2> QED BY <2>1, <2>2, <2>3, <2>4
<1>17. ASSUME NEW t \in Threads, PlPeer(t) PROVE Typed'
  BY <1>t, <1>17
     DEF PlPeer, TypeNet, TypeRegistry, TypeThreads, TypeHistory, Labels,
         Return
<1>18. ASSUME NEW t \in Threads, PlStatus(t) PROVE Typed'
  BY <1>t, <1>18
     DEF PlStatus, TypeNet, TypeRegistry, TypeThreads, TypeHistory, Labels,
         Return
<1>19. ASSUME NEW t \in Threads, PlDetach(t) PROVE Typed'
  BY <1>t, <1>19
     DEF PlDetach, TypeNet, TypeRegistry, TypeThreads, TypeHistory, Labels,
         Return
<1>20. ASSUME NEW t \in Threads, DcRoute(t) PROVE Typed'
  BY <1>t, <1>20
     DEF DcRoute, TypeNet, TypeRegistry, TypeThreads, TypeHistory, Labels,
         Return
<1>21. ASSUME NEW t \in Threads, DcNative(t) PROVE Typed'
  <2>0. key[sess[t]] \in Keys
    BY <1>21 DEF DcNative, Owned, OwnedBy, Ended, InDisconnect, KeysOwn
  <2>1. TypeNet'
    BY <1>t, <1>21, <2>0 DEF DcNative, TypeNet
  <2>2. TypeRegistry'
    BY <1>t, <1>21 DEF DcNative, TypeRegistry
  <2>3. TypeThreads'
    BY <1>t, <1>21, ReturnTyped DEF DcNative, TypeThreads, Labels
  <2>4. TypeHistory'
    BY <1>t, <1>21 DEF DcNative, TypeHistory
  <2> QED BY <2>1, <2>2, <2>3, <2>4
<1>22. ASSUME NEW t \in Threads, DcTimer(t) PROVE Typed'
  <2>0. sess[t] \in Sessions
    BY <1>t, <1>22
       DEF DcTimer, Owned, OwnedBy, Ended, InDisconnect, Known, TypeRegistry
  <2>1. TypeNet'
    BY <1>t, <1>22 DEF DcTimer, TypeNet
  <2>2. TypeRegistry'
    BY <1>t, <1>22, <2>0 DEF DcTimer, TypeRegistry
  <2>3. TypeThreads'
    BY <1>t, <1>22, ReturnTyped DEF DcTimer, TypeThreads, Labels
  <2>4. TypeHistory'
    BY <1>t, <1>22 DEF DcTimer, TypeHistory
  <2> QED BY <2>1, <2>2, <2>3, <2>4
<1>23. ASSUME NEW t \in Threads, ScSnap(t) PROVE Typed'
  BY <1>t, <1>23
     DEF ScSnap, TypeNet, TypeRegistry, TypeThreads, TypeHistory, Labels,
         Return
<1>24. ASSUME NEW t \in Threads, ScDone(t) PROVE Typed'
  BY <1>t, <1>24
     DEF ScDone, TypeNet, TypeRegistry, TypeThreads, TypeHistory, Labels,
         Return
<1>25. ASSUME NEW t \in Threads, ScClear(t) PROVE Typed'
  BY <1>t, <1>25
     DEF ScClear, TypeNet, TypeRegistry, TypeThreads, TypeHistory, Labels,
         Return
<1>26. ASSUME NEW t \in Threads, ScDetach(t) PROVE Typed'
  <2>0. {key[s] : s \in cut[t]} \subseteq Keys
    BY DEF KeysOwn
  <2>1. TypeNet'
    BY <1>t, <1>26 DEF ScDetach, TypeNet
  <2>2. TypeRegistry'
    BY <1>t, <1>26, <2>0 DEF ScDetach, TypeRegistry
  <2>3. TypeThreads'
    BY <1>t, <1>26 DEF ScDetach, TypeThreads, Labels
  <2>4. TypeHistory'
    BY <1>t, <1>26 DEF ScDetach, TypeHistory
  <2> QED BY <2>1, <2>2, <2>3, <2>4
<1>27. ASSUME NEW t \in Threads, ScShutdown(t) PROVE Typed'
  BY <1>t, <1>27
     DEF ScShutdown, TypeNet, TypeRegistry, TypeThreads, TypeHistory, Labels,
         Return
<1>28. ASSUME NEW t \in Threads, ScJoin(t) PROVE Typed'
  BY <1>t, <1>28
     DEF ScJoin, TypeNet, TypeRegistry, TypeThreads, TypeHistory, Labels,
         Return
<1>29. ASSUME NEW t \in Threads, NEW s \in todo[t], ScNext(t, s) PROVE Typed'
  <2>0. s \in Sessions
    BY <1>t DEF TypeThreads
  <2>1. TypeNet'
    BY <1>t, <1>29 DEF ScNext, TypeNet
  <2>2. TypeRegistry'
    BY <1>t, <1>29 DEF ScNext, TypeRegistry
  <2>3. TypeThreads'
    BY <1>t, <1>29, <2>0 DEF ScNext, TypeThreads, Labels
  <2>4. TypeHistory'
    BY <1>t, <1>29, <2>0 DEF ScNext, TypeHistory
  <2> QED BY <2>1, <2>2, <2>3, <2>4
<1>30. ASSUME NEW t \in Threads, NEW s \in Known, BeginClosePlayer(t, s)
       PROVE  Typed'
  <2>0. s \in Sessions /\ key[s] \in Keys
    BY <1>t DEF Known, KeysOwn, TypeRegistry
  <2>1. TypeNet'
    BY <1>t, <1>30 DEF BeginClosePlayer, TypeNet
  <2>2. TypeRegistry'
    BY <1>t, <1>30 DEF BeginClosePlayer, TypeRegistry
  <2>3. TypeThreads'
    BY <1>t, <1>30, <2>0 DEF BeginClosePlayer, TypeThreads, Labels
  <2>4. TypeHistory'
    BY <1>t, <1>30, <2>0 DEF BeginClosePlayer, TypeHistory
  <2> QED BY <2>1, <2>2, <2>3, <2>4
<1>31. ASSUME NEW t \in Threads, NEW s \in Known, BeginDisconnect(t, s)
       PROVE  Typed'
  <2>0. s \in Sessions /\ key[s] \in Keys
    BY <1>t DEF Known, KeysOwn, TypeRegistry
  <2>1. TypeNet'
    BY <1>t, <1>31 DEF BeginDisconnect, TypeNet
  <2>2. TypeRegistry'
    BY <1>t, <1>31 DEF BeginDisconnect, TypeRegistry
  <2>3. TypeThreads'
    BY <1>t, <1>31, <2>0 DEF BeginDisconnect, TypeThreads, Labels
  <2>4. TypeHistory'
    BY <1>t, <1>31, <2>0 DEF BeginDisconnect, TypeHistory
  <2> QED BY <2>1, <2>2, <2>3, <2>4
<1>32. ASSUME NEW t \in Threads, BeginServerClose(t) PROVE Typed'
  BY <1>t, <1>32
     DEF BeginServerClose, TypeNet, TypeRegistry, TypeThreads, TypeHistory,
         Labels, Return
<1>33. ASSUME NEW t \in Threads, Listen(t) PROVE Typed'
  <2>1. TypeNet'
    BY <1>t, <1>33 DEF Listen, TypeNet
  <2>2. TypeRegistry'
    <3>0. listens < MaxListens /\ listens' = listens + 1 /\ closing' = FALSE
      BY <1>33 DEF Listen
    <3>1. listens' \in 0..MaxListens
      BY <1>t, <3>0 DEF TypeRegistry
    <3> QED BY <1>t, <3>0, <3>1, <1>33 DEF Listen, TypeRegistry
  <2>3. TypeThreads'
    BY <1>t, <1>33 DEF Listen, TypeThreads, Labels
  <2>4. TypeHistory'
    BY <1>t, <1>33 DEF Listen, TypeHistory
  <2> QED BY <2>1, <2>2, <2>3, <2>4
<1>34. CASE UNCHANGED vars
  BY <1>t, <1>34
     DEF vars, TypeNet, TypeRegistry, TypeThreads, TypeHistory, Labels, Return
<1> QED
  BY <1>1, <1>2, <1>3, <1>4, <1>5, <1>6, <1>7, <1>8, <1>9, <1>10, <1>11, <1>12,
     <1>13, <1>14, <1>15, <1>16, <1>17, <1>18, <1>19, <1>20, <1>21, <1>22,
     <1>23, <1>24, <1>25, <1>26, <1>27, <1>28, <1>29, <1>30, <1>31, <1>32,
     <1>33, <1>34
     DEF Next, RunWorker, Work, PeerClosed, ClosePlayer, Disconnect,
         ServerClose, Threads

\* The worker's new session gets a key of its own.
LEMMA KeysOwnStep == Inv /\ [Next]_vars => KeysOwn'
<1> SUFFICES ASSUME Inv, [Next]_vars
             PROVE  KeysOwn'
  OBVIOUS
<1> USE ThreadAssumption, GuidAssumption, BoundAssumption
<1> USE DEF Goto, Step, net, registry, lifecycle, server, locals, history
<1> TypeOK /\ TypeOK' BY TypeStep DEF Inv
<1> USE DEF TypeOK, Inv, KeysOwn, Known
<1>1. ASSUME NEW e \in Endpoints, NEW g \in Guids, NewIncoming(e, g)
      PROVE  KeysOwn'
  BY <1>1 DEF NewIncoming
<1>2. ASSUME NEW e \in Endpoints, PeerLost(e) PROVE KeysOwn'
  BY <1>2 DEF PeerLost
<1>3. ASSUME NEW k \in sched, CloseDue(k) PROVE KeysOwn'
  BY <1>3 DEF CloseDue
<1>4. CASE OpenErase
  BY <1>4 DEF OpenErase
<1>5. CASE OpenRegister
  <2>1. CASE closing
    BY <1>5, <2>1 DEF OpenRegister, Return
  <2>2. CASE ~closing
    <3> DEFINE n == opened + 1
               k == peer[Worker]
    <3>1. /\ n \in Sessions /\ opened' = n /\ Known' = Known \cup {n}
          /\ n \notin Known
          /\ Known \subseteq Sessions
      BY <1>5, <2>2
         DEF OpenRegister, Register, FreshKey, InOpen, Sessions, Threads
    <3>2. /\ key'[n] = k /\ \A s \in Known : key'[s] = key[s]
          /\ k \in Keys /\ k[1] \in Endpoints /\ \A s \in Known : key[s] # k
      BY <1>5, <2>2, <3>1, KeyParts
         DEF OpenRegister, Register, FreshKey, InOpen, Threads
    <3>3. /\ conn'[k[1]] = n
          /\ \A e \in Endpoints : e # k[1] => conn'[e] = conn[e]
          /\ todo' = todo /\ cut' = cut
      BY <1>5, <2>2, <3>2 DEF OpenRegister, Register
    <3> HIDE DEF n, k, Known
    <3> QED BY <3>1, <3>2, <3>3
  <2> QED BY <2>1, <2>2
<1>6. CASE ShutdownDue
  BY <1>6 DEF ShutdownDue
<1>7. ASSUME NEW s \in timed, TimerDue(s) PROVE KeysOwn'
  BY <1>7 DEF TimerDue
<1>8. ASSUME NEW t \in Threads, PeerClosed(t) PROVE KeysOwn'
  BY <1>8
     DEF PeerClosed, PeerErase, PcFind, PcMark, PcEmit, PcDetach, PcErase,
         PcCount, Return, Hear
<1>9. ASSUME NEW t \in Threads, ClosePlayer(t) PROVE KeysOwn'
  BY <1>9
     DEF ClosePlayer, PlMark, PlEmit, PlPeer, PlStatus, PlDetach, Return, Hear
<1>10. ASSUME NEW t \in Threads, Disconnect(t) PROVE KeysOwn'
  BY <1>10 DEF Disconnect, DcRoute, DcNative, DcTimer, Return, Hear
<1>11. ASSUME NEW t \in Threads, ScSnap(t) PROVE KeysOwn'
  <2>1. {conn[e] : e \in Endpoints} \ {0} \subseteq Known
    OBVIOUS
  <2> QED BY <1>11, <2>1 DEF ScSnap
<1>12. ASSUME NEW t \in Threads, ScClear(t) PROVE KeysOwn'
  <2>1. cut'[t] \subseteq cut[t] /\ \A u \in Threads : u # t => cut'[u] = cut[u]
    BY <1>12 DEF ScClear
  <2>2. /\ \A e \in Endpoints : conn'[e] = 0
        /\ UNCHANGED <<key, opened, todo>>
    BY <1>12 DEF ScClear
  <2> QED BY <2>1, <2>2
<1>13. ASSUME NEW t \in Threads, ScDetach(t) PROVE KeysOwn'
  <2>1. cut'[t] = {} /\ \A u \in Threads : u # t => cut'[u] = cut[u]
    BY <1>13 DEF ScDetach
  <2> QED BY <1>13, <2>1 DEF ScDetach
<1>14. ASSUME NEW t \in Threads,
             ScDone(t) \/ ScShutdown(t) \/ ScJoin(t)
      PROVE  KeysOwn'
  BY <1>14 DEF ScDone, ScShutdown, ScJoin, Return, Hear
<1>15. ASSUME NEW t \in Threads, NEW s \in todo[t], ScNext(t, s) PROVE KeysOwn'
  BY <1>15 DEF ScNext
<1>16. ASSUME NEW t \in Threads, NEW s \in Known, BeginClosePlayer(t, s)
       PROVE  KeysOwn'
  BY <1>16 DEF BeginClosePlayer
<1>17. ASSUME NEW t \in Threads, NEW s \in Known, BeginDisconnect(t, s)
       PROVE  KeysOwn'
  BY <1>17 DEF BeginDisconnect
<1>18. ASSUME NEW t \in Threads, BeginServerClose(t) PROVE KeysOwn'
  BY <1>18 DEF BeginServerClose
<1>19. ASSUME NEW t \in Threads, Listen(t) PROVE KeysOwn'
  BY <1>19 DEF Listen
<1>20. CASE UNCHANGED vars
  BY <1>20 DEF vars
<1> QED
  BY <1>1, <1>2, <1>3, <1>4, <1>5, <1>6, <1>7, <1>8, <1>9, <1>10, <1>11, <1>12,
     <1>13, <1>14, <1>15, <1>16, <1>17, <1>18, <1>19, <1>20
     DEF Next, RunWorker, Work, PeerClosed, ClosePlayer, Disconnect,
         ServerClose, Threads

\* No session gets the key of the connection that is being opened.
LEMMA FreshKeyStep == Inv /\ [Next]_vars => FreshKey'
<1> SUFFICES ASSUME Inv, [Next]_vars
             PROVE  FreshKey'
  OBVIOUS
<1> USE ThreadAssumption, GuidAssumption, BoundAssumption
<1> USE DEF Goto, Step, net, registry, lifecycle, server, locals, history
<1> TypeOK /\ TypeOK' BY TypeStep DEF Inv
<1> USE DEF TypeOK, Inv, FreshKey, Known, InOpen
<1>1. ASSUME NEW e \in Endpoints, NEW g \in Guids, NewIncoming(e, g)
      PROVE  FreshKey'
  <2>1. <<e, g>> \in Keys /\ \A s \in Known : key[s] # <<e, g>>
    BY <1>1 DEF NewIncoming, Keys
  <2>2. \/ UNCHANGED <<pc, peer>>
        \/ /\ pc' = [pc EXCEPT ![Worker] = "openErase"]
           /\ peer' = [peer EXCEPT ![Worker] = <<e, g>>]
    BY <1>1 DEF NewIncoming
  <2>3. opened < MaxSessions /\ UNCHANGED <<opened, key>> /\ pc[Worker] = "idle"
    BY <1>1 DEF NewIncoming
  <2>4. ASSUME NEW t \in Threads, pc'[t] \in InOpen
        PROVE  t = Worker /\ peer'[t] = <<e, g>>
    BY <2>2, <2>3, <2>4
  <2>5. Known' = Known
    BY <2>3
  <2> HIDE DEF Known
  <2> QED BY <2>1, <2>3, <2>4, <2>5, ZenonT(40)
<1>2. ASSUME NEW e \in Endpoints, PeerLost(e) PROVE FreshKey'
  BY <1>2 DEF PeerLost
<1>3. ASSUME NEW k \in sched, CloseDue(k) PROVE FreshKey'
  BY <1>3 DEF CloseDue
<1>4. CASE OpenErase
  BY <1>4 DEF OpenErase
<1>5. CASE OpenRegister
  BY <1>5 DEF OpenRegister, Register, Return
<1>6. CASE ShutdownDue
  BY <1>6 DEF ShutdownDue
<1>7. ASSUME NEW s \in timed, TimerDue(s) PROVE FreshKey'
  BY <1>7 DEF TimerDue
<1>8. ASSUME NEW t \in Threads, PeerClosed(t) PROVE FreshKey'
  BY <1>8
     DEF PeerClosed, PeerErase, PcFind, PcMark, PcEmit, PcDetach, PcErase,
         PcCount, Return, Hear
<1>9. ASSUME NEW t \in Threads, ClosePlayer(t) PROVE FreshKey'
  BY <1>9
     DEF ClosePlayer, PlMark, PlEmit, PlPeer, PlStatus, PlDetach, Return, Hear
<1>10. ASSUME NEW t \in Threads, Disconnect(t) PROVE FreshKey'
  BY <1>10 DEF Disconnect, DcRoute, DcNative, DcTimer, Return, Hear
<1>11. ASSUME NEW t \in Threads,
             ScSnap(t) \/ ScDone(t) \/ ScClear(t)
             \/ ScDetach(t) \/ ScShutdown(t) \/ ScJoin(t)
      PROVE  FreshKey'
  BY <1>11 DEF ScSnap, ScDone, ScClear, ScDetach, ScShutdown, ScJoin
<1>12. ASSUME NEW t \in Threads, NEW s \in todo[t], ScNext(t, s)
       PROVE  FreshKey'
  BY <1>12 DEF ScNext
<1>13. ASSUME NEW t \in Threads, NEW s \in Known, BeginClosePlayer(t, s)
       PROVE  FreshKey'
  BY <1>13 DEF BeginClosePlayer
<1>14. ASSUME NEW t \in Threads, NEW s \in Known, BeginDisconnect(t, s)
       PROVE  FreshKey'
  BY <1>14 DEF BeginDisconnect
<1>15. ASSUME NEW t \in Threads, BeginServerClose(t) PROVE FreshKey'
  BY <1>15 DEF BeginServerClose
<1>16. ASSUME NEW t \in Threads, Listen(t) PROVE FreshKey'
  BY <1>16 DEF Listen
<1>17. CASE UNCHANGED vars
  BY <1>17 DEF vars
<1> QED
  BY <1>1, <1>2, <1>3, <1>4, <1>5, <1>6, <1>7, <1>8, <1>9, <1>10, <1>11, <1>12,
     <1>13, <1>14, <1>15, <1>16, <1>17
     DEF Next, RunWorker, Work, PeerClosed, ClosePlayer, Disconnect,
         ServerClose, Threads

\* Calls return to where they were made, and Server#close runs while closing_.
LEMMA ReturnsStep == Inv /\ [Next]_vars => Returns'
<1> SUFFICES ASSUME Inv, [Next]_vars
             PROVE  Returns'
  OBVIOUS
<1> USE ThreadAssumption, GuidAssumption, BoundAssumption
<1> USE DEF Goto, Step, net, registry, lifecycle, server, locals, history
<1> TypeOK /\ TypeOK' BY TypeStep DEF Inv
<1> USE DEF TypeOK, Inv, Returns, InPeerClosed, InDisconnect, InClose
<1>1. ASSUME NEW e \in Endpoints, NEW g \in Guids, NewIncoming(e, g)
      PROVE  Returns'
  BY <1>1 DEF NewIncoming
<1>2. ASSUME NEW e \in Endpoints, PeerLost(e) PROVE Returns'
  BY <1>2 DEF PeerLost
<1>3. ASSUME NEW k \in sched, CloseDue(k) PROVE Returns'
  BY <1>3 DEF CloseDue
<1>4. CASE OpenErase
  BY <1>4 DEF OpenErase
<1>5. CASE OpenRegister
  BY <1>5 DEF OpenRegister, Register, Return
<1>6. CASE ShutdownDue
  BY <1>6 DEF ShutdownDue
<1>7. ASSUME NEW s \in timed, TimerDue(s) PROVE Returns'
  BY <1>7 DEF TimerDue
<1>8. ASSUME NEW t \in Threads, PeerClosed(t) PROVE Returns'
  BY <1>8
     DEF PeerClosed, PeerErase, PcFind, PcMark, PcEmit, PcDetach, PcErase,
         PcCount, Return, Hear
<1>9. ASSUME NEW t \in Threads, ClosePlayer(t) PROVE Returns'
  BY <1>9
     DEF ClosePlayer, PlMark, PlEmit, PlPeer, PlStatus, PlDetach, Return, Hear
<1>10. ASSUME NEW t \in Threads, Disconnect(t) PROVE Returns'
  BY <1>10 DEF Disconnect, DcRoute, DcNative, DcTimer, Return, Hear
<1>11. ASSUME NEW t \in Threads,
             ScSnap(t) \/ ScDone(t) \/ ScClear(t)
             \/ ScDetach(t) \/ ScShutdown(t) \/ ScJoin(t)
      PROVE  Returns'
  BY <1>11 DEF ScSnap, ScDone, ScClear, ScDetach, ScShutdown, ScJoin
<1>12. ASSUME NEW t \in Threads, NEW s \in todo[t], ScNext(t, s) PROVE Returns'
  BY <1>12 DEF ScNext
<1>13. ASSUME NEW t \in Threads, NEW s \in Known, BeginClosePlayer(t, s)
       PROVE  Returns'
  BY <1>13 DEF BeginClosePlayer
<1>14. ASSUME NEW t \in Threads, NEW s \in Known, BeginDisconnect(t, s)
       PROVE  Returns'
  BY <1>14 DEF BeginDisconnect
<1>15. ASSUME NEW t \in Threads, BeginServerClose(t) PROVE Returns'
  BY <1>15 DEF BeginServerClose
<1>16. ASSUME NEW t \in Threads, Listen(t) PROVE Returns'
  <2>1. \A u \in Threads : pc[u] \notin InClose /\ ret[u] # "scNext"
    BY <1>16 DEF Listen, InServerClose
  <2>2. pc' = pc \/ (pc' = [pc EXCEPT ![Worker] = "idle"] /\ pc[Worker] = "off")
    <3>1. CASE running
      BY <1>16, <3>1 DEF Listen
    <3>2. CASE ~running
      BY <1>16, <3>2 DEF Listen
    <3> QED BY <3>1, <3>2
  <2> QED BY <1>16, <2>1, <2>2 DEF Listen
<1>17. CASE UNCHANGED vars
  BY <1>17 DEF vars
<1> QED
  BY <1>1, <1>2, <1>3, <1>4, <1>5, <1>6, <1>7, <1>8, <1>9, <1>10, <1>11, <1>12,
     <1>13, <1>14, <1>15, <1>16, <1>17
     DEF Next, RunWorker, Work, PeerClosed, ClosePlayer, Disconnect,
         ServerClose, Threads

\* Nobody registers while closing_ is set.
LEMMA ClearedStep == Inv /\ [Next]_vars => Cleared'
<1> SUFFICES ASSUME Inv, [Next]_vars
             PROVE  Cleared'
  OBVIOUS
<1> USE ThreadAssumption, GuidAssumption, BoundAssumption
<1> USE DEF Goto, Step, net, registry, lifecycle, server, locals, history
<1> TypeOK /\ TypeOK' BY TypeStep DEF Inv
<1> USE DEF TypeOK, Inv, Cleared, Returns, InClose
<1>1. ASSUME NEW e \in Endpoints, NEW g \in Guids, NewIncoming(e, g)
      PROVE  Cleared'
  BY <1>1 DEF NewIncoming
<1>2. ASSUME NEW e \in Endpoints, PeerLost(e) PROVE Cleared'
  BY <1>2 DEF PeerLost
<1>3. ASSUME NEW k \in sched, CloseDue(k) PROVE Cleared'
  BY <1>3 DEF CloseDue
<1>4. CASE OpenErase
  BY <1>4 DEF OpenErase
<1>5. CASE OpenRegister
  BY <1>5 DEF OpenRegister, Register, Return
<1>6. CASE ShutdownDue
  BY <1>6 DEF ShutdownDue
<1>7. ASSUME NEW s \in timed, TimerDue(s) PROVE Cleared'
  BY <1>7 DEF TimerDue
<1>8. ASSUME NEW t \in Threads, PeerClosed(t) PROVE Cleared'
  <2>1. CASE PeerErase(t)
    BY <2>1 DEF PeerErase, Return
  <2>2. CASE PcFind(t)
    BY <2>2 DEF PcFind, Return
  <2>3. CASE PcMark(t)
    BY <2>3 DEF PcMark, Return
  <2>4. CASE PcEmit(t)
    BY <2>4 DEF PcEmit, Hear
  <2>5. CASE PcDetach(t)
    BY <2>5 DEF PcDetach, Return
  <2>6. CASE PcErase(t)
    BY <2>6 DEF PcErase, Return
  <2>7. CASE PcCount(t)
    BY <2>7 DEF PcCount, Return
  <2> QED BY <1>8, <2>1, <2>2, <2>3, <2>4, <2>5, <2>6, <2>7 DEF PeerClosed
<1>9. ASSUME NEW t \in Threads, ClosePlayer(t) PROVE Cleared'
  BY <1>9
     DEF ClosePlayer, PlMark, PlEmit, PlPeer, PlStatus, PlDetach, Return, Hear
<1>10. ASSUME NEW t \in Threads, Disconnect(t) PROVE Cleared'
  BY <1>10 DEF Disconnect, DcRoute, DcNative, DcTimer, Return, Hear
<1>11. ASSUME NEW t \in Threads, ScClear(t) PROVE Cleared'
  <2>1. closing /\ closing' = closing
    BY <1>11 DEF ScClear
  <2>2. \A e \in Endpoints : conn'[e] = 0
    BY <1>11 DEF ScClear
  <2> QED BY <2>1, <2>2
<1>12. ASSUME NEW t \in Threads,
             ScSnap(t) \/ ScDone(t) \/ ScDetach(t)
             \/ ScShutdown(t) \/ ScJoin(t)
      PROVE  Cleared'
  BY <1>12 DEF ScSnap, ScDone, ScDetach, ScShutdown, ScJoin, Return, Hear
<1>13. ASSUME NEW t \in Threads, NEW s \in todo[t], ScNext(t, s) PROVE Cleared'
  BY <1>13 DEF ScNext
<1>14. ASSUME NEW t \in Threads, NEW s \in Known, BeginClosePlayer(t, s)
       PROVE  Cleared'
  BY <1>14 DEF BeginClosePlayer
<1>15. ASSUME NEW t \in Threads, NEW s \in Known, BeginDisconnect(t, s)
       PROVE  Cleared'
  BY <1>15 DEF BeginDisconnect
<1>16. ASSUME NEW t \in Threads, BeginServerClose(t) PROVE Cleared'
  BY <1>16 DEF BeginServerClose
<1>17. ASSUME NEW t \in Threads, Listen(t) PROVE Cleared'
  BY <1>17 DEF Listen
<1>18. CASE UNCHANGED vars
  BY <1>18 DEF vars
<1> QED
  BY <1>1, <1>2, <1>3, <1>4, <1>5, <1>6, <1>7, <1>8, <1>9, <1>10, <1>11, <1>12,
     <1>13, <1>14, <1>15, <1>16, <1>17, <1>18
     DEF Next, RunWorker, Work, PeerClosed, ClosePlayer, Disconnect,
         ServerClose, Threads

\* Sessions are added, keep their keys, and stay ended.
Grows ==
    /\ Known \subseteq Known' /\ Ended \subseteq Ended'
    /\ \A s \in Known : key'[s] = key[s]

\* ... in every step.
LEMMA Growth == Inv /\ [Next]_vars => Grows
<1> USE DEF Grows
<1> SUFFICES ASSUME Inv, [Next]_vars
             PROVE  Grows
  OBVIOUS
<1> USE ThreadAssumption, GuidAssumption, BoundAssumption
<1> USE DEF Goto, Step, net, registry, lifecycle, server, locals, history
<1> TypeOK /\ TypeOK' BY TypeStep DEF Inv
<1> USE DEF TypeOK, Known, Ended, Sessions
<1>1. ASSUME NEW e \in Endpoints, NEW g \in Guids, NewIncoming(e, g)
      PROVE  Grows
  BY <1>1 DEF NewIncoming
<1>2. ASSUME NEW e \in Endpoints, PeerLost(e) PROVE Grows
  BY <1>2 DEF PeerLost
<1>3. ASSUME NEW k \in sched, CloseDue(k) PROVE Grows
  BY <1>3 DEF CloseDue
<1>4. CASE OpenErase
  BY <1>4 DEF OpenErase
<1>5. CASE OpenRegister
  <2>1. opened' = opened \/ opened' = opened + 1
    BY <1>5 DEF OpenRegister, Register
  <2>2. key' = key \/ key' = [key EXCEPT ![opened + 1] = peer[Worker]]
    BY <1>5 DEF OpenRegister, Register
  <2> QED BY <1>5, <2>1, <2>2 DEF OpenRegister
<1>6. CASE ShutdownDue
  BY <1>6 DEF ShutdownDue
<1>7. ASSUME NEW s \in timed, TimerDue(s) PROVE Grows
  BY <1>7 DEF TimerDue
<1>8. ASSUME NEW t \in Threads, PeerClosed(t) PROVE Grows
  BY <1>8
     DEF PeerClosed, PeerErase, PcFind, PcMark, PcEmit, PcDetach, PcErase,
         PcCount, Return, Hear
<1>9. ASSUME NEW t \in Threads, ClosePlayer(t) PROVE Grows
  BY <1>9
     DEF ClosePlayer, PlMark, PlEmit, PlPeer, PlStatus, PlDetach, Return, Hear
<1>10. ASSUME NEW t \in Threads, Disconnect(t) PROVE Grows
  BY <1>10 DEF Disconnect, DcRoute, DcNative, DcTimer, Return, Hear
<1>11. ASSUME NEW t \in Threads,
             ScSnap(t) \/ ScDone(t) \/ ScClear(t)
             \/ ScDetach(t) \/ ScShutdown(t) \/ ScJoin(t)
      PROVE  Grows
  BY <1>11 DEF ScSnap, ScDone, ScClear, ScDetach, ScShutdown, ScJoin
<1>12. ASSUME NEW t \in Threads, NEW s \in todo[t], ScNext(t, s) PROVE Grows
  BY <1>12 DEF ScNext
<1>13. ASSUME NEW t \in Threads, NEW s \in Known, BeginClosePlayer(t, s)
       PROVE  Grows
  BY <1>13 DEF BeginClosePlayer
<1>14. ASSUME NEW t \in Threads, NEW s \in Known, BeginDisconnect(t, s)
       PROVE  Grows
  BY <1>14 DEF BeginDisconnect
<1>15. ASSUME NEW t \in Threads, BeginServerClose(t) PROVE Grows
  BY <1>15 DEF BeginServerClose
<1>16. ASSUME NEW t \in Threads, Listen(t) PROVE Grows
  BY <1>16 DEF Listen
<1>17. CASE UNCHANGED vars
  BY <1>17 DEF vars
<1> QED
  BY <1>1, <1>2, <1>3, <1>4, <1>5, <1>6, <1>7, <1>8, <1>9, <1>10, <1>11, <1>12,
     <1>13, <1>14, <1>15, <1>16, <1>17
     DEF Next, RunWorker, Work, PeerClosed, ClosePlayer, Disconnect,
         ServerClose, Threads

\* A registration ends, or is the worker's new one.
LEMMA RegisteredStep ==
    ASSUME Inv, [Next]_vars, NEW k \in Keys,
           pc[Worker] = "openRegister" => k # peer[Worker]
    PROVE  Registered(k)' \in {Registered(k), 0}
<1> TypeOK /\ TypeOK' BY TypeStep DEF Inv
<1>1. k[1] \in Endpoints
  BY KeyParts
<1>2. CASE OpenRegister
  <2>1. CASE closing
    BY <1>2, <2>1 DEF OpenRegister, registry, Registered
  <2>2. CASE ~closing
    <3> DEFINE p == peer[Worker]
               n == opened + 1
    <3>1. /\ n \in Sessions /\ p \in Keys /\ p[1] \in Endpoints /\ n # 0
      BY <1>2, KeyParts, BoundAssumption
         DEF OpenRegister, Inv, FreshKey, InOpen, Threads, TypeOK, Sessions
    <3>2. /\ conn' = [conn EXCEPT ![p[1]] = n] /\ key' = [key EXCEPT ![n] = p]
          /\ pc[Worker] = "openRegister"
      BY <1>2, <2>2 DEF OpenRegister, Register
    <3>3. conn[k[1]] # 0 =>
            conn[k[1]] \in Known /\ conn[k[1]] # n /\ conn[k[1]] \in Sessions
      BY <1>1 DEF Inv, KeysOwn, Known, TypeOK, Sessions
    <3> HIDE DEF n, p, Known
    <3>4. CASE k[1] = p[1]
      BY <1>1, <3>1, <3>2, <3>4 DEF Registered, TypeOK, p
    <3>5. CASE k[1] # p[1]
      BY <1>1, <3>1, <3>2, <3>3, <3>5 DEF Registered, TypeOK
    <3> QED BY <3>4, <3>5
  <2> QED BY <2>1, <2>2
<1>3. CASE \E t \in Threads : PcErase(t)
  <2>1. PICK t \in Threads : PcErase(t)
    BY <1>3
  <2>2. key' = key /\ (conn' = conn \/ conn' = [conn EXCEPT ![peer[t][1]] = 0])
    BY <2>1 DEF PcErase
  <2> QED BY <1>1, <2>2 DEF Registered, TypeOK
<1>4. CASE \E t \in Threads : ScClear(t)
  BY <1>1, <1>4 DEF ScClear, Registered
<1>5. CASE UNCHANGED <<conn, key>>
  BY <1>5 DEF Registered
<1>6. \/ OpenRegister \/ UNCHANGED <<conn, key>>
      \/ \E t \in Threads : PcErase(t) \/ ScClear(t)
  BY ZenonT(40) DEF Next, RunWorker, NewIncoming, PeerLost, CloseDue, OpenErase,
         ShutdownDue, TimerDue, Work, PeerClosed, PeerErase, PcFind, PcMark,
         PcEmit, PcDetach, PcCount, ClosePlayer, PlMark, PlEmit, PlPeer,
         PlStatus, PlDetach, Disconnect, DcRoute, DcNative, DcTimer,
         ServerClose, ScSnap, ScNext, ScDone, ScDetach, ScShutdown, ScJoin,
         BeginClosePlayer, BeginDisconnect, BeginServerClose, Listen, vars,
         registry
<1> QED BY <1>2, <1>3, <1>4, <1>5, <1>6

\* A thread that did not move.
Same(u) ==
    /\ pc'[u] = pc[u] /\ back'[u] = back[u]
    /\ sess'[u] = sess[u] /\ peer'[u] = peer[u]

\* What a thread that does not move works on stays its own.
LEMMA OwnedFrame ==
    ASSUME Inv, [Next]_vars, NEW u \in Threads, Same(u)
    PROVE  OwnedBy(u)'
<1> TypeOK BY DEF Inv
<1>1. Grows
  BY Growth
<1>2. OwnedBy(u)
  BY DEF Inv, Owned
<1>3. OwnSession(u) => OwnSession(u)'
  BY <1>1 DEF OwnSession, Grows, Ended, Same
<1>4. ASSUME pc[u] \in {"peerErase", "pcFind"}, NEW k \in Keys, peer[u] = k
      PROVE  Registered(k)' \in cause' \cup {0}
  <2>1. pc[Worker] = "openRegister" => k # peer[Worker]
    BY <1>2, <1>4
       DEF Inv, OwnedBy, OwnSession, Returns, InPeerClosed, FreshKey, InOpen,
           Ended, Threads
  <2>2. /\ Registered(k)' \in {Registered(k), 0}
        /\ Registered(k) \in cause \cup {0}
    BY <1>2, <1>4, <2>1, RegisteredStep DEF OwnedBy
  <2>3. Registered(k) # 0 => Registered(k) \in Known
    BY KeyParts DEF Registered, Inv, KeysOwn
  <2> QED BY <1>1, <2>2, <2>3 DEF Grows, Ended
<1> QED BY <1>1, <1>2, <1>3, <1>4 DEF OwnedBy, Same, Grows

\* Every close is of a session that was ended, under its own key.
LEMMA OwnedStep == Inv /\ [Next]_vars => Owned'
<1> SUFFICES ASSUME Inv, [Next]_vars
             PROVE  Owned'
  OBVIOUS
<1> USE ThreadAssumption, GuidAssumption, BoundAssumption
<1> USE DEF Goto, Step, net, registry, lifecycle, server, locals, history
<1> TypeOK /\ TypeOK' BY TypeStep DEF Inv
<1>g. Grows
  BY Growth
<1>f. \A u \in Threads : Same(u) => OwnedBy(u)'
  BY OwnedFrame
<1>o. Pending /\ \A u \in Threads : OwnedBy(u)
  BY DEF Inv, Owned
<1>b. \A u \in Threads :
        /\ back[u] = "plStatus" => pc[u] \in InPeerClosed \cup {"plStatus"}
        /\ ret[u] = "scNext" => pc[u] \in InDisconnect \cup {"scNext"}
  BY DEF Inv, Returns
<1>h. UNCHANGED <<conn, key>> => \A k : Registered(k)' = Registered(k)
  BY DEF Registered
<1> USE DEF TypeOK
<1>1. ASSUME NEW e \in Endpoints, NEW g \in Guids, NewIncoming(e, g)
      PROVE  Owned'
  <2>1. \A u \in Threads \ {Worker} : Same(u)
    BY <1>1 DEF NewIncoming, Same, Threads
  <2>2. OwnedBy(Worker)'
    BY <1>b, <1>g, <1>o, <1>1
       DEF NewIncoming, OwnedBy, OwnSession, InClosePlayer, InPeerClosed,
           InDisconnect, Grows, Threads
  <2>3. Pending'
    BY <1>g, <1>o, <1>1 DEF NewIncoming, Pending, Grows, Ended
  <2> QED BY <1>f, <2>1, <2>2, <2>3 DEF Owned
<1>2. ASSUME NEW e \in Endpoints, PeerLost(e) PROVE Owned'
  <2>1. \A u \in Threads \ {Worker} : Same(u)
    BY <1>2 DEF PeerLost, Same, Threads
  <2>2. OwnedBy(Worker)'
    <3>0. /\ pc[Worker] = "idle" /\ back[Worker] = "idle"
          /\ UNCHANGED <<conn, key>>
          /\ UNCHANGED <<sess, opened>> /\ link[e] # None
      BY <1>b, <1>2 DEF PeerLost, InPeerClosed, Threads
    <3>1. CASE peers[e] = link[e]
      <4>1. PICK k \in Keys : k = <<e, link[e]>>
        BY <3>0, ZenonT(40) DEF Keys
      <4>2. /\ pc'[Worker] = "pcFind" /\ peer'[Worker] = k
            /\ back'[Worker] = "idle" /\ Registered(k) \in cause' \cup {0}
        BY <3>1, <4>1, <1>2 DEF PeerLost, Threads
      <4> QED BY <1>h, <3>0, <4>2
              DEF OwnedBy, InClosePlayer, InPeerClosed, InDisconnect
    <3>2. CASE peers[e] # link[e]
      BY <3>0, <3>2, <1>2
         DEF PeerLost, OwnedBy, OwnSession, InClosePlayer, InPeerClosed,
             InDisconnect, Threads
    <3> QED BY <3>1, <3>2
  <2>3. Pending'
    BY <1>g, <1>o, <1>2 DEF PeerLost, Pending, Grows, Ended
  <2> QED BY <1>f, <2>1, <2>2, <2>3 DEF Owned
<1>3. ASSUME NEW k \in sched, CloseDue(k) PROVE Owned'
  <2>1. \A u \in Threads \ {Worker} : Same(u)
    BY <1>3 DEF CloseDue, Same, Threads
  <2>2. OwnedBy(Worker)'
    <3>0. /\ pc'[Worker] = "peerErase" /\ back'[Worker] = "idle"
          /\ peer'[Worker] = k
          /\ k \in Keys /\ UNCHANGED <<conn, key, cause>>
      BY <1>3 DEF CloseDue, Threads
    <3>1. Registered(k)' = Registered(k)
      BY <3>0 DEF Registered
    <3>2. PICK s \in Ended : key[s] = k
      BY <1>o DEF Pending
    <3>3. Registered(k) # 0 => Registered(k) = s
      BY <3>0, <3>2, KeyParts DEF Registered, Inv, KeysOwn, Ended
    <3> QED BY <3>0, <3>1, <3>2, <3>3
            DEF OwnedBy, InClosePlayer, InPeerClosed, InDisconnect, Ended
  <2>3. Pending'
    BY <1>g, <1>o, <1>3 DEF CloseDue, Pending, Grows, Ended
  <2> QED BY <1>f, <2>1, <2>2, <2>3 DEF Owned
<1>4. CASE OpenErase
  <2>1. \A u \in Threads \ {Worker} : Same(u)
    BY <1>4 DEF OpenErase, Same, Threads
  <2>2. OwnedBy(Worker)'
    BY <1>b, <1>g, <1>o, <1>4
       DEF OpenErase, OwnedBy, OwnSession, InClosePlayer, InPeerClosed,
           InDisconnect, Grows, Threads
  <2>3. Pending'
    BY <1>g, <1>o, <1>4 DEF OpenErase, Pending, Grows, Ended
  <2> QED BY <1>f, <2>1, <2>2, <2>3 DEF Owned
<1>5. CASE OpenRegister
  <2>1. \A u \in Threads \ {Worker} : Same(u)
    BY <1>5 DEF OpenRegister, Same, Threads, Return
  <2>2. OwnedBy(Worker)'
    <3>1. /\ pc[Worker] = "openRegister" /\ pc'[Worker] = "idle"
          /\ back'[Worker] = "idle"
      BY <1>b, <1>5 DEF OpenRegister, Return, InPeerClosed, Threads
    <3> QED BY <3>1 DEF OwnedBy, InClosePlayer, InPeerClosed, InDisconnect
  <2>3. Pending'
    BY <1>g, <1>o, <1>5 DEF OpenRegister, Pending, Grows, Ended, Return
  <2> QED BY <1>f, <2>1, <2>2, <2>3 DEF Owned
<1>6. CASE ShutdownDue
  <2>1. \A u \in Threads \ {Worker} : Same(u)
    BY <1>6 DEF ShutdownDue, Same, Threads
  <2>2. OwnedBy(Worker)'
    BY <1>b, <1>g, <1>o, <1>6
       DEF ShutdownDue, OwnedBy, OwnSession, InClosePlayer, InPeerClosed,
           InDisconnect, Grows, Threads
  <2>3. Pending'
    BY <1>g, <1>o, <1>6 DEF ShutdownDue, Pending, Grows, Ended
  <2> QED BY <1>f, <2>1, <2>2, <2>3 DEF Owned
<1>7. ASSUME NEW s \in timed, TimerDue(s) PROVE Owned'
  <2>1. \A u \in Threads \ {Timer} : Same(u)
    BY <1>7 DEF TimerDue, Same, Threads
  <2>2. OwnedBy(Timer)'
    <3>1. /\ s \in Ended /\ pc'[Timer] = "plMark" /\ back'[Timer] = "idle"
          /\ sess'[Timer] = s /\ peer'[Timer] = key[s]
      BY <1>b, <1>o, <1>7 DEF TimerDue, Pending, InPeerClosed, Threads
    <3> QED BY <1>g, <3>1
            DEF OwnedBy, OwnSession, Grows, Ended, InPeerClosed, InDisconnect
  <2>3. Pending'
    BY <1>g, <1>o, <1>7 DEF TimerDue, Pending, Grows, Ended
  <2> QED BY <1>f, <2>1, <2>2, <2>3 DEF Owned
<1>8. ASSUME NEW t \in Threads, PeerErase(t) PROVE Owned'
  <2>1. \A u \in Threads \ {t} : Same(u)
    BY <1>8 DEF PeerErase, Same, Threads, Return
  <2>2. OwnedBy(t)'
    <3>1. CASE UNCHANGED <<peer, sess>> /\ pc'[t] = "pcFind"
      BY <1>g, <1>h, <1>o, <3>1, <1>8
         DEF PeerErase, OwnedBy, OwnSession, Grows, Ended, InClosePlayer,
             InPeerClosed, InDisconnect
    <3>2. CASE Return(t, back[t])
      BY <1>g, <1>o, <3>2, <1>8
         DEF PeerErase, Return, OwnedBy, OwnSession, Grows, Ended,
             InClosePlayer, InPeerClosed, InDisconnect
    <3> QED BY <3>1, <3>2, <1>8 DEF PeerErase
  <2>3. Pending'
    BY <1>g, <1>o, <1>8 DEF PeerErase, Pending, Grows, Ended, Return
  <2> QED BY <1>f, <2>1, <2>2, <2>3 DEF Owned
<1>9. ASSUME NEW t \in Threads, PcFind(t) PROVE Owned'
  <2>1. \A u \in Threads \ {t} : Same(u)
    BY <1>9 DEF PcFind, Same, Threads, Return
  <2>2. OwnedBy(t)'
    <3>1. CASE Registered(peer[t]) = 0
      <4>1. Return(t, back[t]) /\ back'[t] = back[t]
        BY <3>1, <1>9 DEF PcFind
      <4> QED BY <1>g, <1>o, <4>1
              DEF Return, OwnedBy, OwnSession, Grows, Ended, InClosePlayer,
                  InPeerClosed, InDisconnect
    <3>2. CASE Registered(peer[t]) # 0
      <4>1. PICK k \in Keys : k = peer[t]
        BY <1>o, <1>9 DEF PcFind, OwnedBy, InPeerClosed
      <4>2. /\ pc'[t] = "pcMark" /\ peer'[t] = k /\ sess'[t] = Registered(k)
            /\ UNCHANGED <<key, opened, cause>>
        BY <3>2, <4>1, <1>9 DEF PcFind
      <4>3. Registered(k) \in Ended /\ key[Registered(k)] = k
        BY <1>o, <3>2, <4>1, <1>9, KeyParts
           DEF PcFind, OwnedBy, Registered, Inv, KeysOwn, Ended
      <4> QED BY <1>g, <4>2, <4>3
              DEF OwnedBy, OwnSession, Grows, Ended, InClosePlayer,
                  InDisconnect
    <3> QED BY <3>1, <3>2
  <2>3. Pending'
    BY <1>g, <1>o, <1>9 DEF PcFind, Pending, Grows, Ended, Return
  <2> QED BY <1>f, <2>1, <2>2, <2>3 DEF Owned
<1>10. ASSUME NEW t \in Threads,
             PcMark(t) \/ PcEmit(t) \/ PcDetach(t) \/ PcErase(t) \/ PcCount(t)
      PROVE  Owned'
  <2>1. \A u \in Threads \ {t} : Same(u)
    BY <1>10 DEF PcMark, PcEmit, PcDetach, PcErase, PcCount, Return, Same
  <2>2. OwnedBy(t)'
    BY <1>b, <1>g, <1>o, <1>10
       DEF PcMark, PcEmit, PcDetach, PcErase, PcCount, Return, OwnedBy,
           OwnSession, InClosePlayer, InPeerClosed, InDisconnect, Grows
  <2>3. Pending'
    BY <1>g, <1>o, <1>10
       DEF PcMark, PcEmit, PcDetach, PcErase, PcCount, Return, Pending, Grows,
           Ended
  <2> QED BY <1>f, <2>1, <2>2, <2>3 DEF Owned
<1>11. ASSUME NEW t \in Threads, PlPeer(t) PROVE Owned'
  <2>1. \A u \in Threads \ {t} : Same(u)
    BY <1>11 DEF PlPeer, Same, Threads
  <2>2. OwnedBy(t)'
    <3>1. OwnSession(t)
      BY <1>o, <1>11 DEF PlPeer, OwnedBy, InClosePlayer
    <3>2. PICK k \in Keys : k = peer[t]
      BY <3>1 DEF OwnSession, Inv, KeysOwn, Ended
    <3>3. Registered(k) \in {0, sess[t]}
      BY <3>1, <3>2, KeyParts DEF Registered, OwnSession, Inv, KeysOwn, Ended
    <3>4. /\ pc'[t] \in {"peerErase", "plStatus"} /\ peer'[t] = k
          /\ UNCHANGED <<sess, conn, key, cause, opened>>
      BY <3>2, <1>11 DEF PlPeer
    <3> QED BY <1>g, <1>h, <3>1, <3>2, <3>3, <3>4
            DEF OwnedBy, OwnSession, Grows, Ended, InClosePlayer, InDisconnect
  <2>3. Pending'
    BY <1>g, <1>o, <1>11 DEF PlPeer, Pending, Grows, Ended
  <2> QED BY <1>f, <2>1, <2>2, <2>3 DEF Owned
<1>12. ASSUME NEW t \in Threads, PlDetach(t) PROVE Owned'
  <2>1. \A u \in Threads \ {t} : Same(u)
    BY <1>12 DEF PlDetach, Same, Threads, Return
  <2>2. OwnedBy(t)'
    <3>1. pc'[t] \in {"idle", "scNext"} /\ back'[t] = "idle"
      BY <1>b, <1>12 DEF PlDetach, Return, InPeerClosed
    <3> QED BY <3>1 DEF OwnedBy, InClosePlayer, InPeerClosed, InDisconnect
  <2>3. Pending'
    BY <1>g, <1>o, <1>12 DEF PlDetach, Pending, Grows, Ended, Return
  <2> QED BY <1>f, <2>1, <2>2, <2>3 DEF Owned
<1>13. ASSUME NEW t \in Threads,
             PlMark(t) \/ PlEmit(t) \/ PlStatus(t)
      PROVE  Owned'
  <2>1. \A u \in Threads \ {t} : Same(u)
    BY <1>13 DEF PlMark, PlEmit, PlStatus, Return, Same
  <2>2. OwnedBy(t)'
    BY <1>b, <1>g, <1>o, <1>13
       DEF PlMark, PlEmit, PlStatus, Return, OwnedBy, OwnSession,
           InClosePlayer, InPeerClosed, InDisconnect, Grows
  <2>3. Pending'
    BY <1>g, <1>o, <1>13
       DEF PlMark, PlEmit, PlStatus, Return, Pending, Grows, Ended
  <2> QED BY <1>f, <2>1, <2>2, <2>3 DEF Owned
<1>14. ASSUME NEW t \in Threads, DcNative(t) PROVE Owned'
  <2>1. \A u \in Threads \ {t} : Same(u)
    BY <1>14 DEF DcNative, Same, Threads, Return
  <2>2. OwnedBy(t)'
    <3>1. pc'[t] \in {"idle", "scNext"} /\ back'[t] = "idle"
      BY <1>b, <1>14 DEF DcNative, Return, InPeerClosed
    <3> QED BY <3>1 DEF OwnedBy, InClosePlayer, InPeerClosed, InDisconnect
  <2>3. Pending'
    <3>1. sess[t] \in Ended
      BY <1>o, <1>14 DEF DcNative, OwnedBy, InDisconnect
    <3>2. /\ UNCHANGED <<key, timed, opened, cause>>
          /\ sched' \subseteq sched \cup {key[sess[t]]}
      BY <1>14 DEF DcNative
    <3> QED BY <1>o, <3>1, <3>2 DEF Pending, Ended, Known
  <2> QED BY <1>f, <2>1, <2>2, <2>3 DEF Owned
<1>15. ASSUME NEW t \in Threads, DcTimer(t) PROVE Owned'
  <2>1. \A u \in Threads \ {t} : Same(u)
    BY <1>15 DEF DcTimer, Same, Threads, Return
  <2>2. OwnedBy(t)'
    <3>1. pc'[t] \in {"idle", "scNext"} /\ back'[t] = "idle"
      BY <1>b, <1>15 DEF DcTimer, Return, InPeerClosed
    <3> QED BY <3>1 DEF OwnedBy, InClosePlayer, InPeerClosed, InDisconnect
  <2>3. Pending'
    <3>1. sess[t] \in Ended
      BY <1>o, <1>15 DEF DcTimer, OwnedBy, InDisconnect
    <3> QED BY <1>o, <3>1, <1>15 DEF DcTimer, Pending, Ended, Known
  <2> QED BY <1>f, <2>1, <2>2, <2>3 DEF Owned
<1>16. ASSUME NEW t \in Threads,
             DcRoute(t)
      PROVE  Owned'
  <2>1. \A u \in Threads \ {t} : Same(u)
    BY <1>16 DEF DcRoute, Same
  <2>2. OwnedBy(t)'
    BY <1>b, <1>g, <1>o, <1>16
       DEF DcRoute, OwnedBy, OwnSession, InClosePlayer, InPeerClosed,
           InDisconnect, Grows
  <2>3. Pending'
    BY <1>g, <1>o, <1>16 DEF DcRoute, Pending, Grows, Ended
  <2> QED BY <1>f, <2>1, <2>2, <2>3 DEF Owned
<1>17. ASSUME NEW t \in Threads,
             ScSnap(t) \/ ScDone(t) \/ ScClear(t)
             \/ ScDetach(t) \/ ScShutdown(t) \/ ScJoin(t)
      PROVE  Owned'
  <2>1. \A u \in Threads \ {t} : Same(u)
    BY <1>17 DEF ScSnap, ScDone, ScClear, ScDetach, ScShutdown, ScJoin, Same
  <2>2. OwnedBy(t)'
    BY <1>b, <1>g, <1>o, <1>17
       DEF ScSnap, ScDone, ScClear, ScDetach, ScShutdown, ScJoin, OwnedBy,
           OwnSession, InClosePlayer, InPeerClosed, InDisconnect, Grows
  <2>3. Pending'
    BY <1>g, <1>o, <1>17
       DEF ScSnap, ScDone, ScClear, ScDetach, ScShutdown, ScJoin, Pending,
           Grows, Ended
  <2> QED BY <1>f, <2>1, <2>2, <2>3 DEF Owned
<1>18. ASSUME NEW t \in Threads, NEW s \in todo[t], ScNext(t, s) PROVE Owned'
  <2>1. \A u \in Threads \ {t} : Same(u)
    BY <1>18 DEF ScNext, Same, Threads
  <2>2. OwnedBy(t)'
    <3>1. CASE Writable(s)
      <4>1. s \in Known /\ s \in cause' /\ opened' = opened /\ pc[t] = "scNext"
        BY <3>1, <1>18 DEF ScNext, Inv, KeysOwn
      <4>2. /\ s \in Ended' /\ pc'[t] = "dcRoute"
            /\ sess'[t] = s /\ back'[t] = "idle"
        BY <1>b, <3>1, <4>1, <1>18 DEF ScNext, Ended, Known, InPeerClosed
      <4> QED BY <4>2 DEF OwnedBy, InClosePlayer, InPeerClosed, InDisconnect
    <3>2. CASE ~Writable(s)
      <4>1. Same(t)
        BY <3>2, <1>18 DEF ScNext, Same
      <4> QED BY <1>f, <4>1
    <3> QED BY <3>1, <3>2
  <2>3. Pending'
    BY <1>g, <1>o, <1>18 DEF ScNext, Pending, Grows, Ended
  <2> QED BY <1>f, <2>1, <2>2, <2>3 DEF Owned
<1>19. ASSUME NEW t \in Threads, NEW s \in Known, BeginClosePlayer(t, s)
       PROVE  Owned'
  <2>1. \A u \in Threads \ {t} : Same(u)
    BY <1>19 DEF BeginClosePlayer, Same, Threads
  <2>2. OwnedBy(t)'
    <3>1. pc[t] = "idle" /\ sess'[t] = s /\ key' = key
      BY <1>19 DEF BeginClosePlayer
    <3>2. s \in Ended'
      BY <1>19 DEF BeginClosePlayer, Ended, Known
    <3>3. back'[t] = "idle"
      BY <1>b, <1>19, <3>1 DEF BeginClosePlayer, InPeerClosed
    <3>4. key[s] \in Keys
      BY <1>19 DEF Known, Inv, KeysOwn
    <3> QED BY <3>1, <3>2, <3>3, <3>4, <1>19
            DEF BeginClosePlayer, OwnedBy, OwnSession, InClosePlayer,
                InPeerClosed, InDisconnect
  <2>3. Pending'
    BY <1>g, <1>o, <1>19 DEF BeginClosePlayer, Pending, Grows, Ended
  <2> QED BY <1>f, <2>1, <2>2, <2>3 DEF Owned
<1>20. ASSUME NEW t \in Threads, NEW s \in Known, BeginDisconnect(t, s)
       PROVE  Owned'
  <2>1. \A u \in Threads \ {t} : Same(u)
    BY <1>20 DEF BeginDisconnect, Same, Threads
  <2>2. OwnedBy(t)'
    <3>1. /\ s \in Ended' /\ pc[t] = "idle" /\ sess'[t] = s
          /\ back'[t] = "idle"
          /\ key' = key /\ key[s] \in Keys
      BY <1>b, <1>20
         DEF BeginDisconnect, Ended, Known, InPeerClosed, Inv, KeysOwn
    <3> QED BY <3>1, <1>20
            DEF BeginDisconnect, OwnedBy, OwnSession, InClosePlayer,
                InPeerClosed, InDisconnect
  <2>3. Pending'
    BY <1>g, <1>o, <1>20 DEF BeginDisconnect, Pending, Grows, Ended
  <2> QED BY <1>f, <2>1, <2>2, <2>3 DEF Owned
<1>21. ASSUME NEW t \in Threads, BeginServerClose(t) PROVE Owned'
  <2>1. \A u \in Threads \ {t} : Same(u)
    BY <1>21 DEF BeginServerClose, Same, Threads
  <2>2. OwnedBy(t)'
    BY <1>b, <1>g, <1>o, <1>21
       DEF BeginServerClose, OwnedBy, OwnSession, InClosePlayer, InPeerClosed,
           InDisconnect, Grows, Threads
  <2>3. Pending'
    BY <1>g, <1>o, <1>21 DEF BeginServerClose, Pending, Grows, Ended
  <2> QED BY <1>f, <2>1, <2>2, <2>3 DEF Owned
<1>22. ASSUME NEW t \in Threads, Listen(t) PROVE Owned'
  <2>1. \A u \in Threads \ {Worker} : Same(u)
    BY <1>22 DEF Listen, Same, Threads
  <2>2. OwnedBy(Worker)'
    <3>1. CASE running
      <4>1. Same(Worker)
        BY <3>1, <1>22 DEF Listen, Same
      <4> QED BY <1>f, <4>1 DEF Threads
    <3>2. CASE ~running
      <4>1. pc'[Worker] = "idle" /\ back'[Worker] = "idle"
        BY <1>b, <3>2, <1>22 DEF Listen, InPeerClosed, Threads
      <4> QED BY <4>1 DEF OwnedBy, InClosePlayer, InPeerClosed, InDisconnect
    <3> QED BY <3>1, <3>2
  <2>3. Pending'
    BY <1>g, <1>o, <1>22 DEF Listen, Pending, Grows, Ended
  <2> QED BY <1>f, <2>1, <2>2, <2>3 DEF Owned
<1>23. CASE UNCHANGED vars
  <2>1. (\A u \in Threads : Same(u)) /\ Pending'
    BY <1>o, <1>23 DEF vars, Same, Pending, Ended, Known
  <2> QED BY <1>f, <2>1 DEF Owned
<1> QED
  BY <1>1, <1>2, <1>3, <1>4, <1>5, <1>6, <1>7, <1>8, <1>9, <1>10, <1>11, <1>12,
     <1>13, <1>14, <1>15, <1>16, <1>17, <1>18, <1>19, <1>20, <1>21, <1>22,
     <1>23
     DEF Next, RunWorker, Work, PeerClosed, ClosePlayer, Disconnect,
         ServerClose, Threads

\* closedPlayers_ lets one thread emit for a session.
LEMMA EmitOnceStep == Inv /\ [Next]_vars => EmitOnce'
<1> SUFFICES ASSUME Inv, [Next]_vars
             PROVE  EmitOnce'
  OBVIOUS
<1> USE ThreadAssumption, GuidAssumption, BoundAssumption
<1> USE DEF Goto, Step, net, registry, lifecycle, server, locals, history
<1> TypeOK /\ TypeOK' BY TypeStep DEF Inv
<1>g. Grows
  BY Growth
<1>k. \A r, s \in Known : key[r] = key[s] => r = s
  BY DEF Inv, KeysOwn
<1>o. \A u \in Threads :
        pc[u] \in InClosePlayer \cup {"pcMark", "pcEmit"} => OwnSession(u)
  BY DEF Inv, Owned, OwnedBy
<1>e. EmitOnce
  BY DEF Inv
<1> USE DEF TypeOK, EmitOnce, Emitting, InClosePlayer
<1>1. ASSUME NEW e \in Endpoints, NEW g \in Guids, NewIncoming(e, g)
      PROVE  EmitOnce'
  BY <1>e, <1>g, <1>k, <1>o, <1>1
     DEF NewIncoming, OwnSession, Ended, Known, Grows
<1>2. ASSUME NEW e \in Endpoints, PeerLost(e) PROVE EmitOnce'
  <2>1. /\ \A u \in Threads :
             \/ pc'[u] = pc[u] /\ peer'[u] = peer[u]
             \/ pc'[u] = "pcFind"
        /\ UNCHANGED <<key, opened, closedP, heard, sess>>
        /\ cause \subseteq cause'
    BY <1>2 DEF PeerLost
  <2> QED BY <1>e, <2>1 DEF Ended, Known
<1>3. ASSUME NEW k \in sched, CloseDue(k) PROVE EmitOnce'
  BY <1>e, <1>g, <1>k, <1>o, <1>3 DEF CloseDue, OwnSession, Ended, Known, Grows
<1>4. CASE OpenErase
  <2>1. \A s \in Known : key[s] # peer[Worker]
    BY <1>4 DEF OpenErase, Inv, FreshKey, InOpen, Threads
  <2>2. ASSUME NEW u \in Threads,
               pc[u] \in {"pcEmit", "pcDetach", "pcErase", "pcCount", "plEmit"}
        PROVE  peer[u] # peer[Worker]
    BY <2>1, <2>2, <1>4
       DEF OpenErase, Inv, Owned, OwnedBy, OwnSession, Ended, Returns,
           InPeerClosed, Threads
  <2> QED BY <1>e, <2>1, <2>2, <1>4 DEF OpenErase, Ended, Known, Threads
<1>5. CASE OpenRegister
  BY <1>e, <1>g, <1>k, <1>o, <1>5
     DEF OpenRegister, Register, Return, OwnSession, Ended, Known, Grows
<1>6. CASE ShutdownDue
  BY <1>e, <1>g, <1>k, <1>o, <1>6
     DEF ShutdownDue, OwnSession, Ended, Known, Grows
<1>7. ASSUME NEW s \in timed, TimerDue(s) PROVE EmitOnce'
  BY <1>e, <1>g, <1>k, <1>o, <1>7 DEF TimerDue, OwnSession, Ended, Known, Grows
<1>8. ASSUME NEW t \in Threads, PeerClosed(t) PROVE EmitOnce'
  <2>1. CASE PeerErase(t)
    BY <1>e, <1>g, <1>k, <1>o, <2>1
       DEF PeerErase, Return, OwnSession, Ended, Known, Grows
  <2>2. CASE PcFind(t)
    BY <1>e, <1>g, <1>k, <1>o, <2>2
       DEF PcFind, Return, OwnSession, Ended, Known, Grows
  <2>3. CASE PcMark(t)
    BY <1>e, <1>g, <1>k, <1>o, <2>3
       DEF PcMark, Return, OwnSession, Ended, Known, Grows
  <2>4. CASE PcEmit(t)
    BY <1>e, <1>g, <1>k, <1>o, <2>4
       DEF PcEmit, Hear, OwnSession, Ended, Known, Grows
  <2>5. CASE PcDetach(t)
    BY <1>e, <1>g, <1>k, <1>o, <2>5
       DEF PcDetach, Return, OwnSession, Ended, Known, Grows
  <2>6. CASE PcErase(t)
    BY <1>e, <1>g, <1>k, <1>o, <2>6
       DEF PcErase, Return, OwnSession, Ended, Known, Grows
  <2>7. CASE PcCount(t)
    BY <1>e, <1>g, <1>k, <1>o, <2>7
       DEF PcCount, Return, OwnSession, Ended, Known, Grows
  <2> QED BY <1>8, <2>1, <2>2, <2>3, <2>4, <2>5, <2>6, <2>7 DEF PeerClosed
<1>9. ASSUME NEW t \in Threads, PlMark(t) PROVE EmitOnce'
  BY <1>e, <1>g, <1>k, <1>o, <1>9
     DEF PlMark, Return, OwnSession, Ended, Known, Grows
<1>10. ASSUME NEW t \in Threads, PlEmit(t) PROVE EmitOnce'
  BY <1>e, <1>g, <1>k, <1>o, <1>10
     DEF PlEmit, Hear, OwnSession, Ended, Known, Grows
<1>11. ASSUME NEW t \in Threads,
             PlPeer(t) \/ PlStatus(t) \/ PlDetach(t)
      PROVE  EmitOnce'
  <2>1. CASE PlPeer(t)
    BY <1>e, <1>g, <1>k, <1>o, <2>1
       DEF PlPeer, Return, OwnSession, Ended, Known, Grows
  <2>2. CASE PlStatus(t)
    BY <1>e, <1>g, <1>k, <1>o, <2>2
       DEF PlStatus, Return, OwnSession, Ended, Known, Grows
  <2>3. CASE PlDetach(t)
    BY <1>e, <1>g, <1>k, <1>o, <2>3
       DEF PlDetach, Return, OwnSession, Ended, Known, Grows
  <2> QED BY <1>11, <2>1, <2>2, <2>3
<1>12. ASSUME NEW t \in Threads, Disconnect(t) PROVE EmitOnce'
  <2>1. CASE DcRoute(t)
    BY <1>e, <1>g, <1>k, <1>o, <2>1
       DEF DcRoute, Return, OwnSession, Ended, Known, Grows
  <2>2. CASE DcNative(t)
    BY <1>e, <1>g, <1>k, <1>o, <2>2
       DEF DcNative, Return, OwnSession, Ended, Known, Grows
  <2>3. CASE DcTimer(t)
    BY <1>e, <1>g, <1>k, <1>o, <2>3
       DEF DcTimer, Return, OwnSession, Ended, Known, Grows
  <2> QED BY <1>12, <2>1, <2>2, <2>3 DEF Disconnect
<1>13. ASSUME NEW t \in Threads,
             ScSnap(t) \/ ScDone(t) \/ ScClear(t)
             \/ ScDetach(t) \/ ScShutdown(t) \/ ScJoin(t)
      PROVE  EmitOnce'
  BY <1>e, <1>g, <1>k, <1>o, <1>13
     DEF ScSnap, ScDone, ScClear, ScDetach, ScShutdown, ScJoin, OwnSession,
         Ended, Known, Grows
<1>14. ASSUME NEW t \in Threads, NEW s \in todo[t], ScNext(t, s)
       PROVE  EmitOnce'
  BY <1>e, <1>g, <1>k, <1>o, <1>14 DEF ScNext, OwnSession, Ended, Known, Grows
<1>15. ASSUME NEW t \in Threads, NEW s \in Known, BeginClosePlayer(t, s)
       PROVE  EmitOnce'
  BY <1>e, <1>g, <1>k, <1>o, <1>15
     DEF BeginClosePlayer, OwnSession, Ended, Known, Grows
<1>16. ASSUME NEW t \in Threads, NEW s \in Known, BeginDisconnect(t, s)
       PROVE  EmitOnce'
  BY <1>e, <1>g, <1>k, <1>o, <1>16
     DEF BeginDisconnect, OwnSession, Ended, Known, Grows
<1>17. ASSUME NEW t \in Threads, BeginServerClose(t) PROVE EmitOnce'
  BY <1>e, <1>g, <1>k, <1>o, <1>17
     DEF BeginServerClose, OwnSession, Ended, Known, Grows
<1>18. ASSUME NEW t \in Threads, Listen(t) PROVE EmitOnce'
  BY <1>e, <1>g, <1>k, <1>o, <1>18 DEF Listen, OwnSession, Ended, Known, Grows
<1>19. CASE UNCHANGED vars
  BY <1>e, <1>g, <1>k, <1>o, <1>19 DEF vars, OwnSession, Ended, Known, Grows
<1> QED
  BY <1>1, <1>2, <1>3, <1>4, <1>5, <1>6, <1>7, <1>8, <1>9, <1>10, <1>11, <1>12,
     <1>13, <1>14, <1>15, <1>16, <1>17, <1>18, <1>19
     DEF Next, RunWorker, Work, PeerClosed, ClosePlayer, Disconnect,
         ServerClose, Threads

\* A status that Server#close detached goes when its player is closed.
LEMMA ForgettingStep == Inv /\ [Next]_vars => Forgetting'
<1> SUFFICES ASSUME Inv, [Next]_vars
             PROVE  Forgetting'
  OBVIOUS
<1> USE ThreadAssumption, GuidAssumption, BoundAssumption
<1> USE DEF Goto, Step, net, registry, lifecycle, server, locals, history
<1> TypeOK /\ TypeOK' BY TypeStep DEF Inv
<1>r. Returns /\ Returns'
  BY ReturnsStep DEF Inv
<1>f. Forgetting /\ EmitOnce
  BY DEF Inv
<1> USE DEF TypeOK
<1>1. ASSUME NEW e \in Endpoints, NEW g \in Guids, NewIncoming(e, g)
      PROVE  Forgetting'
  BY <1>f, <1>r, <1>1
     DEF NewIncoming, Forgetting, EmitOnce, Returns, InPeerClosed,
         InDisconnect, Threads
<1>2. ASSUME NEW e \in Endpoints, PeerLost(e) PROVE Forgetting'
  BY <1>f, <1>r, <1>2
     DEF PeerLost, Forgetting, EmitOnce, Returns, InPeerClosed, InDisconnect,
         Threads
<1>3. ASSUME NEW k \in sched, CloseDue(k) PROVE Forgetting'
  BY <1>f, <1>r, <1>3
     DEF CloseDue, Forgetting, EmitOnce, Returns, InPeerClosed, InDisconnect,
         Threads
<1>4. CASE OpenErase
  <2>1. \A s \in Known : key[s] # peer[Worker]
    BY <1>4 DEF OpenErase, Inv, FreshKey, InOpen, Threads
  <2> QED BY <1>f, <2>1, <1>4 DEF OpenErase, Forgetting, Threads
<1>5. CASE OpenRegister
  BY <1>f, <1>r, <1>5
     DEF OpenRegister, Register, Return, Forgetting, EmitOnce, Returns,
         InPeerClosed, InDisconnect, Threads
<1>6. CASE ShutdownDue
  BY <1>f, <1>r, <1>6
     DEF ShutdownDue, Forgetting, EmitOnce, Returns, InPeerClosed,
         InDisconnect, Threads
<1>7. ASSUME NEW s \in timed, TimerDue(s) PROVE Forgetting'
  BY <1>f, <1>r, <1>7
     DEF TimerDue, Forgetting, EmitOnce, Returns, InPeerClosed, InDisconnect,
         Threads
<1>8. ASSUME NEW t \in Threads, PeerClosed(t) PROVE Forgetting'
  <2>1. CASE PeerErase(t)
    BY <1>f, <1>r, <2>1
       DEF PeerErase, Return, Forgetting, EmitOnce, Returns, InPeerClosed,
           InDisconnect, Threads
  <2>2. CASE PcFind(t)
    BY <1>f, <1>r, <2>2
       DEF PcFind, Return, Forgetting, EmitOnce, Returns, InPeerClosed,
           InDisconnect, Threads
  <2>3. CASE PcMark(t)
    BY <1>f, <1>r, <2>3
       DEF PcMark, Return, Forgetting, EmitOnce, Returns, InPeerClosed,
           InDisconnect, Threads
  <2>4. CASE PcEmit(t)
    BY <1>f, <1>r, <2>4
       DEF PcEmit, Hear, Forgetting, EmitOnce, Returns, InPeerClosed,
           InDisconnect, Threads
  <2>5. CASE PcDetach(t)
    BY <1>f, <1>r, <2>5
       DEF PcDetach, Return, Forgetting, EmitOnce, Returns, InPeerClosed,
           InDisconnect, Threads
  <2>6. CASE PcErase(t)
    BY <1>f, <1>r, <2>6
       DEF PcErase, Return, Forgetting, EmitOnce, Returns, InPeerClosed,
           InDisconnect, Threads
  <2>7. CASE PcCount(t)
    BY <1>f, <1>r, <2>7
       DEF PcCount, Return, Forgetting, EmitOnce, Returns, InPeerClosed,
           InDisconnect, Threads
  <2> QED BY <1>8, <2>1, <2>2, <2>3, <2>4, <2>5, <2>6, <2>7 DEF PeerClosed
<1>9. ASSUME NEW t \in Threads, ClosePlayer(t) PROVE Forgetting'
  BY <1>f, <1>r, <1>9
     DEF ClosePlayer, PlMark, PlEmit, PlPeer, PlStatus, PlDetach, Return, Hear,
         Forgetting, EmitOnce, Returns, InPeerClosed, InDisconnect, Threads
<1>10. ASSUME NEW t \in Threads, Disconnect(t) PROVE Forgetting'
  BY <1>f, <1>r, <1>10
     DEF Disconnect, DcRoute, DcNative, DcTimer, Return, Hear, Forgetting,
         EmitOnce, Returns, InPeerClosed, InDisconnect, Threads
<1>11. ASSUME NEW t \in Threads,
             ScSnap(t) \/ ScDone(t) \/ ScClear(t)
             \/ ScDetach(t) \/ ScShutdown(t) \/ ScJoin(t)
      PROVE  Forgetting'
  BY <1>f, <1>r, <1>11
     DEF ScSnap, ScDone, ScClear, ScDetach, ScShutdown, ScJoin, Forgetting,
         EmitOnce, Returns, InPeerClosed, InDisconnect, Threads
<1>12. ASSUME NEW t \in Threads, NEW s \in todo[t], ScNext(t, s)
       PROVE  Forgetting'
  BY <1>f, <1>r, <1>12
     DEF ScNext, Forgetting, EmitOnce, Returns, InPeerClosed, InDisconnect,
         Threads
<1>13. ASSUME NEW t \in Threads, NEW s \in Known, BeginClosePlayer(t, s)
       PROVE  Forgetting'
  BY <1>f, <1>r, <1>13
     DEF BeginClosePlayer, Forgetting, EmitOnce, Returns, InPeerClosed,
         InDisconnect, Threads
<1>14. ASSUME NEW t \in Threads, NEW s \in Known, BeginDisconnect(t, s)
       PROVE  Forgetting'
  BY <1>f, <1>r, <1>14
     DEF BeginDisconnect, Forgetting, EmitOnce, Returns, InPeerClosed,
         InDisconnect, Threads
<1>15. ASSUME NEW t \in Threads, BeginServerClose(t) PROVE Forgetting'
  BY <1>f, <1>r, <1>15
     DEF BeginServerClose, Forgetting, EmitOnce, Returns, InPeerClosed,
         InDisconnect, Threads
<1>16. ASSUME NEW t \in Threads, Listen(t) PROVE Forgetting'
  BY <1>f, <1>r, <1>16
     DEF Listen, Forgetting, EmitOnce, Returns, InPeerClosed, InDisconnect,
         Threads
<1>17. CASE UNCHANGED vars
  BY <1>f, <1>r, <1>17
     DEF vars, Forgetting, EmitOnce, Returns, InPeerClosed, InDisconnect,
         Threads
<1> QED
  BY <1>1, <1>2, <1>3, <1>4, <1>5, <1>6, <1>7, <1>8, <1>9, <1>10, <1>11, <1>12,
     <1>13, <1>14, <1>15, <1>16, <1>17
     DEF Next, RunWorker, Work, PeerClosed, ClosePlayer, Disconnect,
         ServerClose, Threads

\* What clientCount_ counts: the registered, and the decrements to come.
Present == {e \in Endpoints : conn[e] # 0}
Counting == {t \in Threads : pc[t] = "pcCount"}

\* Endpoints and threads can be counted.
LEMMA FinitePlaces ==
    /\ IsFiniteSet(Present) /\ IsFiniteSet(Counting)
    /\ Cardinality(Present) \in Nat /\ Cardinality(Counting) \in Nat
<1>1. IsFiniteSet(Threads) /\ IsFiniteSet(Endpoints)
  <2>1. Threads = (Apps \cup {Worker}) \cup {Timer}
    BY DEF Threads
  <2> QED BY <2>1, FiniteAssumption, FS_AddElement
<1>2. Present \subseteq Endpoints /\ Counting \subseteq Threads
  BY DEF Present, Counting
<1> QED BY <1>1, <1>2, FS_Subset, FS_CardinalityType

\* clientCount_ follows the registry.
LEMMA CountExactStep == Inv /\ [Next]_vars => CountExact'
<1> SUFFICES ASSUME Inv, [Next]_vars
             PROVE  CountExact'
  OBVIOUS
<1> USE ThreadAssumption, GuidAssumption, BoundAssumption
<1> USE DEF Goto, Step, net, registry, lifecycle, server, locals, history
<1> TypeOK /\ TypeOK' BY TypeStep DEF Inv
<1> DEFINE Exact ==
             ~overtaken => count = Cardinality(Present) + Cardinality(Counting)
<1>c. Exact
  BY DEF Inv, CountExact, Present, Counting
<1>d. SUFFICES Exact'
  BY DEF CountExact, Present, Counting
<1>s. ASSUME UNCHANGED <<conn, count, overtaken>>,
             \A u \in Threads : pc'[u] = "pcCount" <=> pc[u] = "pcCount"
      PROVE  Exact'
  <2>1. Present' = Present /\ Counting' = Counting
    BY <1>s DEF Present, Counting
  <2> QED BY <1>c, <1>s, <2>1
<1> USE DEF TypeOK
<1>1. ASSUME NEW e \in Endpoints, NEW g \in Guids, NewIncoming(e, g)
      PROVE  Exact'
  BY <1>s, <1>1 DEF NewIncoming, Threads
<1>2. ASSUME NEW e \in Endpoints, PeerLost(e) PROVE Exact'
  BY <1>s, <1>2 DEF PeerLost, Threads
<1>3. ASSUME NEW k \in sched, CloseDue(k) PROVE Exact'
  BY <1>s, <1>3 DEF CloseDue, Threads
<1>4. CASE OpenErase
  BY <1>s, <1>4 DEF OpenErase, Threads
<1>5. CASE OpenRegister
  <2>1. CASE closing
    BY <1>s, <2>1, <1>5 DEF OpenRegister, Return, Threads
  <2>2. CASE ~closing
    <3>1. PICK e \in Endpoints : e = peer[Worker][1]
      BY <1>5, KeyParts DEF OpenRegister, Inv, FreshKey, InOpen, Threads
    <3>2. /\ conn' = [conn EXCEPT ![e] = opened + 1] /\ count' = count + 1
          /\ overtaken' = (overtaken \/ conn[e] # 0) /\ opened + 1 # 0
      BY <2>2, <3>1, <1>5 DEF OpenRegister, Register
    <3>3. Counting' = Counting
      BY <1>5 DEF OpenRegister, Return, Counting, Threads
    <3>4. CASE conn[e] = 0
      <4>1. Present' = Present \cup {e} /\ e \notin Present
        BY <3>2, <3>4 DEF Present
      <4>2. Cardinality(Present') = Cardinality(Present) + 1
        BY <4>1, FinitePlaces, FS_AddElement
      <4> QED BY <1>c, <3>2, <3>3, <4>2, FinitePlaces
    <3>5. CASE conn[e] # 0
      BY <3>2, <3>5
    <3> QED BY <3>4, <3>5
  <2> QED BY <2>1, <2>2
<1>6. CASE ShutdownDue
  BY <1>s, <1>6 DEF ShutdownDue, Threads
<1>7. ASSUME NEW s \in timed, TimerDue(s) PROVE Exact'
  BY <1>s, <1>7 DEF TimerDue, Threads
<1>8. ASSUME NEW t \in Threads, PcErase(t) PROVE Exact'
  <2>0. PICK k \in Keys : k = peer[t]
    BY <1>8 DEF PcErase, Inv, Owned, OwnedBy, InPeerClosed
  <2>1. CASE Registered(k) = 0
    BY <1>s, <2>0, <2>1, <1>8 DEF PcErase, Return
  <2>2. CASE Registered(k) # 0
    <3>1. PICK e \in Endpoints : e = k[1] /\ conn[e] # 0
      BY <2>2, KeyParts DEF Registered
    <3>2. /\ conn' = [conn EXCEPT ![e] = 0] /\ UNCHANGED <<count, overtaken>>
          /\ pc[t] = "pcErase" /\ pc' = [pc EXCEPT ![t] = "pcCount"]
      BY <2>0, <2>2, <3>1, <1>8 DEF PcErase
    <3>3. Present' = Present \ {e} /\ e \in Present
      BY <3>1, <3>2 DEF Present
    <3>4. Counting' = Counting \cup {t} /\ t \notin Counting
      BY <3>2 DEF Counting
    <3>5. /\ Cardinality(Present') = Cardinality(Present) - 1
          /\ Cardinality(Counting') = Cardinality(Counting) + 1
      BY <3>3, <3>4, FinitePlaces, FS_AddElement, FS_RemoveElement
    <3> QED BY <1>c, <3>2, <3>5, FinitePlaces
  <2> QED BY <2>1, <2>2
<1>9. ASSUME NEW t \in Threads, PcCount(t) PROVE Exact'
  <2>1. /\ UNCHANGED <<conn, overtaken>> /\ count' = count - 1
        /\ pc[t] = "pcCount" /\ pc' = [pc EXCEPT ![t] = back[t]]
    BY <1>9 DEF PcCount, Return
  <2>2. Present' = Present /\ Counting' = Counting \ {t} /\ t \in Counting
    BY <2>1 DEF Present, Counting
  <2>3. Cardinality(Counting') = Cardinality(Counting) - 1
    BY <2>2, FinitePlaces, FS_RemoveElement
  <2> QED BY <1>c, <2>1, <2>2, <2>3, FinitePlaces
<1>10. ASSUME NEW t \in Threads,
             PeerErase(t) \/ PcFind(t) \/ PcMark(t) \/ PcEmit(t) \/ PcDetach(t)
      PROVE  Exact'
  BY <1>s, <1>10
     DEF PeerErase, PcFind, PcMark, PcEmit, PcDetach, Return, Hear, Threads
<1>11. ASSUME NEW t \in Threads, ClosePlayer(t) PROVE Exact'
  BY <1>s, <1>11
     DEF ClosePlayer, PlMark, PlEmit, PlPeer, PlStatus, PlDetach, Return, Hear,
         Threads
<1>12. ASSUME NEW t \in Threads, Disconnect(t) PROVE Exact'
  BY <1>s, <1>12
     DEF Disconnect, DcRoute, DcNative, DcTimer, Return, Hear, Threads
<1>13. ASSUME NEW t \in Threads, ScClear(t) PROVE Exact'
  <2>1. CASE overtaken'
    BY <2>1
  <2>2. CASE ~overtaken'
    <3>1. /\ conn' = [e \in Endpoints |-> 0] /\ count' = 0
          /\ pc[t] = "scClear" /\ pc' = [pc EXCEPT ![t] = "scDetach"]
          /\ \A u \in Threads : pc[u] # "pcCount"
      BY <2>2, <1>13 DEF ScClear
    <3>2. Present' = {} /\ Counting' = {}
      BY <3>1 DEF Present, Counting
    <3> QED BY <3>1, <3>2, FS_EmptySet
  <2> QED BY <2>1, <2>2
<1>14. ASSUME NEW t \in Threads,
             ScSnap(t) \/ ScDone(t) \/ ScDetach(t)
             \/ ScShutdown(t) \/ ScJoin(t)
      PROVE  Exact'
  BY <1>s, <1>14
     DEF ScSnap, ScDone, ScDetach, ScShutdown, ScJoin, Return, Hear, Threads
<1>15. ASSUME NEW t \in Threads, NEW s \in todo[t], ScNext(t, s) PROVE Exact'
  BY <1>s, <1>15 DEF ScNext, Threads
<1>16. ASSUME NEW t \in Threads, NEW s \in Known, BeginClosePlayer(t, s)
       PROVE  Exact'
  BY <1>s, <1>16 DEF BeginClosePlayer, Threads
<1>17. ASSUME NEW t \in Threads, NEW s \in Known, BeginDisconnect(t, s)
       PROVE  Exact'
  BY <1>s, <1>17 DEF BeginDisconnect, Threads
<1>18. ASSUME NEW t \in Threads, BeginServerClose(t) PROVE Exact'
  BY <1>s, <1>18 DEF BeginServerClose, Threads
<1>19. ASSUME NEW t \in Threads, Listen(t) PROVE Exact'
  BY <1>s, <1>19 DEF Listen, Threads
<1>20. CASE UNCHANGED vars
  BY <1>s, <1>20 DEF vars, Threads
<1> QED
  BY <1>1, <1>2, <1>3, <1>4, <1>5, <1>6, <1>7, <1>8, <1>9, <1>10, <1>11, <1>12,
     <1>13, <1>14, <1>15, <1>16, <1>17, <1>18, <1>19, <1>20
     DEF Next, RunWorker, Work, PeerClosed, ClosePlayer, Disconnect,
         ServerClose, Threads

\* The invariant holds at first,
LEMMA InitInv == Init => Inv
<1> SUFFICES ASSUME Init PROVE Inv
  OBVIOUS
<1> USE ThreadAssumption, GuidAssumption, BoundAssumption DEF Init
<1>1. TypeOK
  <2>1. pc \in [Threads -> Labels]
    BY DEF Labels
  <2>2. /\ sess \in [Threads -> 0..MaxSessions] /\ opened \in 0..MaxSessions
        /\ conn \in [Endpoints -> 0..MaxSessions] /\ listens \in 0..MaxListens
    OBVIOUS
  <2>3. /\ link \in [Endpoints -> Guids \cup {None}]
        /\ peers \in [Endpoints -> Guids \cup {None}]
        /\ key \in [Sessions -> Keys \cup {NoKey}]
        /\ peer \in [Threads -> Keys \cup {NoKey}]
        /\ status \in [Sessions -> {"Live", "Disconnected"}]
    OBVIOUS
  <2>4. /\ ret \in [Threads -> {"idle", "scNext"}]
        /\ back \in [Threads -> {"idle", "plStatus"}]
        /\ todo \in [Threads -> SUBSET Sessions]
        /\ cut \in [Threads -> SUBSET Sessions]
        /\ heard \in [Sessions -> 0..2]
    OBVIOUS
  <2>5. /\ running \in BOOLEAN /\ shutdown \in BOOLEAN /\ closing \in BOOLEAN
        /\ cleared \in BOOLEAN /\ overtaken \in BOOLEAN
    OBVIOUS
  <2>6. count \in Int
    OBVIOUS
  <2>7. sched = {} /\ closedP = {} /\ detached = {} /\ timed = {} /\ cause = {}
    OBVIOUS
  <2> HIDE DEF Init
  <2> QED BY <2>1, <2>2, <2>3, <2>4, <2>5, <2>6, <2>7 DEF TypeOK
<1>2. KeysOwn /\ FreshKey
  BY DEF KeysOwn, FreshKey, Known, InOpen
<1>3. Owned /\ Returns
  BY DEF Owned, OwnedBy, Pending, Returns, InClosePlayer, InPeerClosed,
         InDisconnect, InClose
<1>4. EmitOnce /\ Forgetting /\ Cleared
  BY DEF EmitOnce, Emitting, Forgetting, Cleared
<1>5. CountExact
  <2>1. Present = {} /\ Counting = {}
    BY DEF Present, Counting
  <2>2. count = Cardinality(Present) + Cardinality(Counting)
    BY <2>1, FS_EmptySet
  <2> QED BY <2>2 DEF CountExact, Present, Counting
<1> QED BY <1>1, <1>2, <1>3, <1>4, <1>5 DEF Inv

\* is kept by every step,
LEMMA InvStep == Inv /\ [Next]_vars => Inv'
BY TypeStep, KeysOwnStep, FreshKeyStep, OwnedStep, ReturnsStep, EmitOnceStep,
   ForgettingStep, ClearedStep, CountExactStep DEF Inv

\* and so holds always.
LEMMA Invariance == Spec => []Inv
BY InitInv, InvStep, PTL DEF Spec

\* A player's close listeners run at most once, and only when that player was
\* lost, disconnected or closed, for any number of application threads,
\* endpoints, sessions and restarts: closedPlayers_ and the GUID comparisons of
\* handlePeerClosed and closePeerNow are enough.
THEOREM ClosesAreOwn == Spec => []CloseIsOwn
<1>1. Inv => CloseIsOwn
  BY DEF Inv, TypeOK, EmitOnce, Ended, CloseIsOwn, CloseOnce, NoSpuriousClose
<1> QED BY <1>1, Invariance, PTL

\* connections_ stays empty once Server#close has cleared it, and clientCount_
\* is exact up to the decrements still to come and the overtakings that
\* CountExact names.
THEOREM RegistryCounts == Spec => []RegistryExact
<1>1. Inv => RegistryExact
  BY DEF Inv, Cleared, RegistryExact, ClosedRegistryEmpty
<1> QED BY <1>1, Invariance, PTL

\* No closed player keeps an entry in detachedPlayerStatuses_ beyond its close.
THEOREM ClosedForgotten == Spec => []DetachedNotClosed
<1>1. Inv => DetachedNotClosed
  BY DEF Inv, Forgetting, Returns, InPeerClosed, DetachedNotClosed
<1> QED BY <1>1, Invariance, PTL

=============================================================================
