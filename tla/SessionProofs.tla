---------------------------- MODULE SessionProofs ----------------------------
(***************************************************************************)
(* Proofs about Session.tla, for every protocol version, every choice of   *)
(* early senders and any number of application packets.                    *)
(***************************************************************************)
EXTENDS Session, SequencesExt, TLAPS

\* The inductive invariant behind HandshakeFirst: the client has sent an
\* encrypted batch exactly when encryption is enabled, and the first one was
\* the handshake.
FirstInv ==
    /\ enc \in [Sides -> BOOLEAN]
    /\ first = IF enc["client"] THEN "client_to_server_handshake" ELSE ""

\* Sending an encoded batch leaves FirstInv alone: without encryption the form
\* is not "enc" (sendPacketsLocked), with it the first batch is already sent.
LEMMA PutKeepsFirst ==
    ASSUME FirstInv, NEW s \in Sides, NEW pkts, Put(s, Encode(s, pkts))
    PROVE  first' = first
BY DEF FirstInv, Put, Encode, PlainForm, Sides

\* Nor does sending packets.
LEMMA SendKeepsFirst ==
    ASSUME FirstInv, NEW s \in Sides, NEW pkts, Send(s, pkts), enc' = enc
    PROVE  FirstInv'
BY PutKeepsFirst DEF Send, FirstInv

\* The server's batches are not the client's.
LEMMA ServerPutKeepsFirst ==
    ASSUME FirstInv, NEW b, Put("server", b)
    PROVE  first' = first
BY DEF Put, FirstInv

\* Every step keeps FirstInv; only StartEncryption sets enc["client"], and it
\* sends the handshake in the same step.
LEMMA FirstStep == FirstInv /\ [Next]_vars => FirstInv'
<1> SUFFICES ASSUME FirstInv, [Next]_vars PROVE FirstInv'
  OBVIOUS
<1> USE DEF Sides
<1>1. CASE Connected
  <2>1. CASE Modern
    BY <1>1, <2>1, SendKeepsFirst DEF Connected
  <2>2. CASE ~Modern
    BY <1>1, <2>2 DEF Connected, FirstInv
  <2> QED BY <2>1, <2>2
<1>2. CASE NetworkSettings \/ ClientJoin \/ LoginSuccess \/ CacheStatus
             \/ ClientData \/ ClientQueue
  BY <1>2 DEF NetworkSettings, ClientJoin, LoginSuccess, CacheStatus,
       ClientData, ClientQueue, FirstInv, crypto
<1>3. CASE SendLogin \/ ClientPump
  BY <1>3, SendKeepsFirst DEF SendLogin, ClientPump
<1>4. CASE StartEncryption
  <2>1. enc' = [enc EXCEPT !["client"] = TRUE]
    BY <1>4 DEF StartEncryption, Enabled
  <2>2. first' = IF first = "" THEN "client_to_server_handshake" ELSE first
    <3>1. first' = IF first = "" THEN Head(<<"client_to_server_handshake">>)
                                 ELSE first
      BY <1>4, Zenon DEF StartEncryption, Put
    <3>2. Head(<<"client_to_server_handshake">>) = "client_to_server_handshake"
      OBVIOUS
    <3> QED BY <3>1, <3>2
  <2> QED BY <2>1, <2>2 DEF FirstInv
<1>5. CASE ResourcePacksInfo \/ ResourcePackStack
  BY <1>5, SendKeepsFirst DEF ResourcePacksInfo, ResourcePackStack, FirstInv
<1>6. CASE StartGame
  BY <1>6, SendKeepsFirst DEF StartGame, FirstInv
<1>7. CASE PlayerSpawn
  BY <1>7, SendKeepsFirst DEF PlayerSpawn, FirstInv
<1>8. CASE \E s \in Sides : Receive(s)
  BY <1>8 DEF Receive, FirstInv
<1>9. CASE RequestNetworkSettings
  BY <1>9, ServerPutKeepsFirst DEF RequestNetworkSettings, FirstInv, crypto
<1>10. CASE Login \/ LateNetworkSettings \/ ClientHandshake \/ SendPacksInfo
  BY <1>10, SendKeepsFirst DEF Login, LateNetworkSettings, ClientHandshake,
       SendPacksInfo, ServerSend
<1>11. CASE ResourcePackResponse
  BY <1>11, SendKeepsFirst DEF ResourcePackResponse, ServerSend, FirstInv
<1>12. CASE EnableEncryption
  BY <1>12 DEF EnableEncryption, Enabled, FirstInv
<1>13. CASE NetworkSettingsSent \/ TransitionStatus \/ StackSent \/ Initialized
              \/ ServerData \/ ServerWrite \/ ServerQueue \/ ServerFlush
  BY <1>13 DEF NetworkSettingsSent, TransitionStatus, StackSent, Initialized,
       ServerData, ServerWrite, ServerQueue, ServerFlush, FirstInv, crypto
<1>14. CASE PutStaged
  BY <1>14, ServerPutKeepsFirst DEF PutStaged, FirstInv, crypto
<1>15. CASE UNCHANGED vars
  BY <1>15 DEF vars, crypto, FirstInv
<1> QED
  BY <1>1, <1>2, <1>3, <1>4, <1>5, <1>6, <1>7, <1>8, <1>9, <1>10, <1>11, <1>12,
     <1>13, <1>14, <1>15 DEF Next, ClientWorker, ServerWorker

\* "The handshake must be the first encrypted packet": whenever applications
\* queue and the pump flushes, the client's first encrypted batch begins with
\* client_to_server_handshake (startEncryptionFromServerHandshake).
THEOREM HandshakeIsFirst == Spec => []HandshakeFirst
<1>1. Init => FirstInv
  BY DEF Init, FirstInv, Sides
<1>2. FirstInv => HandshakeFirst
  BY DEF FirstInv, HandshakeFirst
<1> QED
  BY <1>1, <1>2, FirstStep, PTL DEF Spec

-----------------------------------------------------------------------------
(* Packets on their way.  A stream is what one side has to say to the      *)
(* other: its queue q, the packets g of the batch it has encoded, its wire *)
(* w, and the batch b that the other side handles.                         *)

Has(q, n) == \E j \in DOMAIN q : q[j] = n
Once(q, n) == \A i, j \in DOMAIN q : q[i] = n /\ q[j] = n => i = j
Carries(w, n) == \E i \in DOMAIN w : Has(w[i].pkts, n)

\* Packet n is in the stream, and it is there once at most.
In(q, g, w, b, n) == Has(q, n) \/ Has(g, n) \/ Carries(w, n) \/ Has(b, n)
Single(q, g, w, b, n) ==
    /\ Once(q, n) /\ Once(g, n) /\ Once(b, n)
    /\ \A i \in DOMAIN w : Once(w[i].pkts, n)
    /\ \A i, j \in DOMAIN w : Has(w[i].pkts, n) /\ Has(w[j].pkts, n) => i = j
    /\ ~(Has(q, n) /\ Has(g, n)) /\ ~(Has(q, n) /\ Carries(w, n))
    /\ ~(Has(q, n) /\ Has(b, n)) /\ ~(Has(g, n) /\ Carries(w, n))
    /\ ~(Has(g, n) /\ Has(b, n)) /\ ~(Carries(w, n) /\ Has(b, n))

\* The empty list, and a list of one packet.
LEMMA HasNone == ASSUME NEW n PROVE ~Has(<<>>, n) /\ Once(<<>>, n)
BY DEF Has, Once

LEMMA HasOne ==
    ASSUME NEW m, NEW n
    PROVE  (Has(<<m>>, n) <=> n = m) /\ Once(<<m>>, n)
BY DEF Has, Once

\* A packet at the end of a list.
LEMMA HasAppended ==
    ASSUME NEW q \in Seq(Names), NEW m \in Names, NEW n
    PROVE  /\ Has(Append(q, m), n) <=> Has(q, n) \/ n = m
           /\ Once(q, n) /\ (n = m => ~Has(q, n)) => Once(Append(q, m), n)
<1> DEFINE a == Append(q, m)
           k == Len(q)
<1>1. /\ k \in Nat /\ DOMAIN q = 1..k /\ DOMAIN a = 1..(k + 1)
      /\ \A i \in 1..k : a[i] = q[i]
      /\ a[k + 1] = m
  OBVIOUS
<1>2. \A i \in 1..(k + 1) : i = k + 1 \/ i \in 1..k
  BY <1>1
<1>3. k + 1 \in 1..(k + 1) /\ \A i \in 1..k : i \in 1..(k + 1)
  BY <1>1
<1> HIDE DEF a, k
<1>4. Has(a, n) <=> Has(q, n) \/ n = m
  BY <1>1, <1>2, <1>3 DEF Has
<1>5. ASSUME Once(q, n), n = m => ~Has(q, n) PROVE Once(a, n)
  BY <1>1, <1>2, <1>3, <1>5 DEF Has, Once
<1> QED BY <1>4, <1>5 DEF a

\* The first packet of a list and the others.
LEMMA HasRest ==
    ASSUME NEW q \in Seq(Names), q # <<>>, NEW n
    PROVE  /\ Has(Tail(q), n) => Has(q, n)
           /\ Has(q, n) /\ n # Head(q) => Has(Tail(q), n)
           /\ Has(q, Head(q))
           /\ Once(q, n) => Once(Tail(q), n)
           /\ Once(q, Head(q)) => ~Has(Tail(q), Head(q))
<1> DEFINE u == Tail(q)
           k == Len(q)
           h == Head(q)
<1>1. /\ k \in Nat /\ k > 0 /\ DOMAIN q = 1..k /\ h = q[1]
      /\ DOMAIN u = 1..(k - 1)
      /\ \A i \in 1..(k - 1) : u[i] = q[i + 1]
  OBVIOUS
<1>2. \A i \in 1..(k - 1) : i + 1 \in 1..k /\ i + 1 # 1
  BY <1>1
<1>3. 1 \in 1..k
  BY <1>1
<1>4. \A i, j \in 1..(k - 1) : i + 1 = j + 1 => i = j
  BY <1>1
<1> HIDE DEF u, k, h
<1>5. Has(u, n) => Has(q, n)
  BY <1>1, <1>2 DEF Has
<1>9. Has(q, n) /\ n # h => Has(u, n)
  <2>1. \A i \in 1..k : i = 1 \/ (i - 1 \in 1..(k - 1) /\ u[i - 1] = q[i])
    BY <1>1
  <2> QED BY <1>1, <2>1 DEF Has
<1>6. Has(q, h)
  BY <1>1, <1>3 DEF Has
<1>7. Once(q, n) => Once(u, n)
  BY <1>1, <1>2, <1>4 DEF Once
<1>8. Once(q, h) => ~Has(u, h)
  BY <1>1, <1>2, <1>3 DEF Once, Has
<1> QED BY <1>5, <1>6, <1>7, <1>8, <1>9 DEF u, h

-----------------------------------------------------------------------------
(* The moves of a stream.                                                  *)

\* A batch is put on the wire.
LEMMA WireAppended ==
    ASSUME NEW w \in Seq(Batches), NEW c \in Batches, NEW n
    PROVE  /\ Carries(Append(w, c), n) <=> Carries(w, n) \/ Has(c.pkts, n)
           /\ (\A i \in DOMAIN w : Once(w[i].pkts, n)) /\ Once(c.pkts, n) =>
                \A i \in DOMAIN Append(w, c) : Once(Append(w, c)[i].pkts, n)
           /\ /\ ~(Carries(w, n) /\ Has(c.pkts, n))
              /\ \A i, j \in DOMAIN w :
                    Has(w[i].pkts, n) /\ Has(w[j].pkts, n) => i = j
              => \A i, j \in DOMAIN Append(w, c) :
                    Has(Append(w, c)[i].pkts, n) /\ Has(Append(w, c)[j].pkts, n)
                    => i = j
<1> DEFINE a == Append(w, c)
           k == Len(w)
<1>1. /\ k \in Nat /\ DOMAIN w = 1..k /\ DOMAIN a = 1..(k + 1)
      /\ \A i \in 1..k : a[i] = w[i]
      /\ a[k + 1] = c
  OBVIOUS
<1>2. \A i \in 1..(k + 1) : i = k + 1 \/ i \in 1..k
  BY <1>1
<1>3. k + 1 \in 1..(k + 1) /\ \A i \in 1..k : i \in 1..(k + 1)
  BY <1>1
<1> HIDE DEF a, k
<1>4. Carries(a, n) <=> Carries(w, n) \/ Has(c.pkts, n)
  BY <1>1, <1>2, <1>3 DEF Carries
<1>5. ASSUME \A i \in DOMAIN w : Once(w[i].pkts, n), Once(c.pkts, n)
      PROVE  \A i \in DOMAIN a : Once(a[i].pkts, n)
  BY <1>1, <1>2, <1>5
<1>6. ASSUME ~(Carries(w, n) /\ Has(c.pkts, n)),
             \A i, j \in DOMAIN w : Has(w[i].pkts, n) /\ Has(w[j].pkts, n) => i = j,
             NEW i \in DOMAIN a, NEW j \in DOMAIN a,
             Has(a[i].pkts, n), Has(a[j].pkts, n)
      PROVE  i = j
  BY <1>1, <1>2, <1>6 DEF Carries
<1> QED BY <1>4, <1>5, <1>6 DEF a

\* The first batch is taken from the wire.
LEMMA WireRest ==
    ASSUME NEW w \in Seq(Batches), w # <<>>, NEW n
    PROVE  /\ Carries(w, n) <=> Carries(Tail(w), n) \/ Has(Head(w).pkts, n)
           /\ (\A i \in DOMAIN w : Once(w[i].pkts, n)) =>
                /\ Once(Head(w).pkts, n)
                /\ \A i \in DOMAIN Tail(w) : Once(Tail(w)[i].pkts, n)
           /\ (\A i, j \in DOMAIN w :
                    Has(w[i].pkts, n) /\ Has(w[j].pkts, n) => i = j) =>
                /\ ~(Carries(Tail(w), n) /\ Has(Head(w).pkts, n))
                /\ \A i, j \in DOMAIN Tail(w) :
                    Has(Tail(w)[i].pkts, n) /\ Has(Tail(w)[j].pkts, n) => i = j
<1> DEFINE u == Tail(w)
           k == Len(w)
           h == Head(w)
<1>1. /\ k \in Nat /\ k > 0 /\ DOMAIN w = 1..k /\ h = w[1]
      /\ DOMAIN u = 1..(k - 1)
      /\ \A i \in 1..(k - 1) : u[i] = w[i + 1]
  OBVIOUS
<1>2. \A i \in 1..(k - 1) : i + 1 \in 1..k /\ i + 1 # 1
  BY <1>1
<1>3. 1 \in 1..k
  BY <1>1
<1>4. \A i, j \in 1..(k - 1) : i + 1 = j + 1 => i = j
  BY <1>1
<1>5. \A i \in 1..k : i = 1 \/ (i - 1 \in 1..(k - 1) /\ u[i - 1] = w[i])
  BY <1>1
<1> HIDE DEF u, k, h
<1>6. Carries(w, n) <=> Carries(u, n) \/ Has(h.pkts, n)
  <2>1. Carries(w, n) => Carries(u, n) \/ Has(h.pkts, n)
    BY <1>1, <1>5 DEF Carries
  <2>2. Carries(u, n) => Carries(w, n)
    BY <1>1, <1>2 DEF Carries
  <2>3. Has(h.pkts, n) => Carries(w, n)
    BY <1>1, <1>3 DEF Carries
  <2> QED BY <2>1, <2>2, <2>3
<1>7. (\A i \in DOMAIN w : Once(w[i].pkts, n)) =>
        Once(h.pkts, n) /\ \A i \in DOMAIN u : Once(u[i].pkts, n)
  BY <1>1, <1>2, <1>3
<1>8. ASSUME \A i, j \in DOMAIN w :
               Has(w[i].pkts, n) /\ Has(w[j].pkts, n) => i = j
      PROVE  /\ ~(Carries(u, n) /\ Has(h.pkts, n))
             /\ \A i, j \in DOMAIN u :
                    Has(u[i].pkts, n) /\ Has(u[j].pkts, n) => i = j
  <2>1. ~(Carries(u, n) /\ Has(h.pkts, n))
    BY <1>1, <1>2, <1>3, <1>8 DEF Carries
  <2>2. ASSUME NEW i \in DOMAIN u, NEW j \in DOMAIN u,
               Has(u[i].pkts, n), Has(u[j].pkts, n)
        PROVE  i = j
    BY <1>1, <1>2, <1>4, <1>8, <2>2
  <2> QED BY <2>1, <2>2
<1> QED BY <1>6, <1>7, <1>8 DEF u, h

\* A new batch c goes to the wire.
LEMMA MovePut ==
    ASSUME NEW q, NEW g, NEW w \in Seq(Batches), NEW b, NEW c \in Batches, NEW n
    PROVE  /\ In(q, g, Append(w, c), b, n) <=> In(q, g, w, b, n) \/ Has(c.pkts, n)
           /\ /\ Single(q, g, w, b, n)
              /\ Once(c.pkts, n) /\ ~(In(q, g, w, b, n) /\ Has(c.pkts, n))
              => Single(q, g, Append(w, c), b, n)
<1> DEFINE a == Append(w, c)
<1>1. /\ Carries(a, n) <=> Carries(w, n) \/ Has(c.pkts, n)
      /\ (\A i \in DOMAIN w : Once(w[i].pkts, n)) /\ Once(c.pkts, n) =>
            \A i \in DOMAIN a : Once(a[i].pkts, n)
      /\ /\ ~(Carries(w, n) /\ Has(c.pkts, n))
         /\ \A i, j \in DOMAIN w : Has(w[i].pkts, n) /\ Has(w[j].pkts, n) => i = j
         => \A i, j \in DOMAIN a : Has(a[i].pkts, n) /\ Has(a[j].pkts, n) => i = j
  BY WireAppended
<1> HIDE DEF a
<1>2. In(q, g, a, b, n) <=> In(q, g, w, b, n) \/ Has(c.pkts, n)
  BY <1>1 DEF In
<1>3. ASSUME Single(q, g, w, b, n), Once(c.pkts, n),
             ~(In(q, g, w, b, n) /\ Has(c.pkts, n))
      PROVE  Single(q, g, a, b, n)
  BY <1>1, <1>3 DEF In, Single
<1> QED BY <1>2, <1>3 DEF a

\* The queue goes to the wire as one batch.
LEMMA MovePump ==
    ASSUME NEW q, NEW g, NEW w \in Seq(Batches), NEW b, NEW c \in Batches,
           c.pkts = q, NEW n
    PROVE  /\ In(<<>>, g, Append(w, c), b, n) <=> In(q, g, w, b, n)
           /\ Single(q, g, w, b, n) => Single(<<>>, g, Append(w, c), b, n)
<1> DEFINE a == Append(w, c)
<1>1. /\ Carries(a, n) <=> Carries(w, n) \/ Has(c.pkts, n)
      /\ (\A i \in DOMAIN w : Once(w[i].pkts, n)) /\ Once(c.pkts, n) =>
            \A i \in DOMAIN a : Once(a[i].pkts, n)
      /\ /\ ~(Carries(w, n) /\ Has(c.pkts, n))
         /\ \A i, j \in DOMAIN w : Has(w[i].pkts, n) /\ Has(w[j].pkts, n) => i = j
         => \A i, j \in DOMAIN a : Has(a[i].pkts, n) /\ Has(a[j].pkts, n) => i = j
  BY WireAppended
<1>2. ~Has(<<>>, n) /\ Once(<<>>, n)
  BY HasNone
<1> HIDE DEF a
<1>3. In(<<>>, g, a, b, n) <=> In(q, g, w, b, n)
  BY <1>1, <1>2 DEF In
<1>4. Single(q, g, w, b, n) => Single(<<>>, g, a, b, n)
  BY <1>1, <1>2 DEF In, Single
<1> QED BY <1>3, <1>4 DEF a

\* The encoded batch goes to the wire.
LEMMA MoveStaged ==
    ASSUME NEW q, NEW g, NEW w \in Seq(Batches), NEW b, NEW c \in Batches,
           c.pkts = g, NEW n
    PROVE  /\ In(q, <<>>, Append(w, c), b, n) <=> In(q, g, w, b, n)
           /\ Single(q, g, w, b, n) => Single(q, <<>>, Append(w, c), b, n)
<1> DEFINE a == Append(w, c)
<1>1. /\ Carries(a, n) <=> Carries(w, n) \/ Has(c.pkts, n)
      /\ (\A i \in DOMAIN w : Once(w[i].pkts, n)) /\ Once(c.pkts, n) =>
            \A i \in DOMAIN a : Once(a[i].pkts, n)
      /\ /\ ~(Carries(w, n) /\ Has(c.pkts, n))
         /\ \A i, j \in DOMAIN w : Has(w[i].pkts, n) /\ Has(w[j].pkts, n) => i = j
         => \A i, j \in DOMAIN a : Has(a[i].pkts, n) /\ Has(a[j].pkts, n) => i = j
  BY WireAppended
<1>2. ~Has(<<>>, n) /\ Once(<<>>, n)
  BY HasNone
<1> HIDE DEF a
<1>3. In(q, <<>>, a, b, n) <=> In(q, g, w, b, n)
  BY <1>1, <1>2 DEF In
<1>4. Single(q, g, w, b, n) => Single(q, <<>>, a, b, n)
  BY <1>1, <1>2 DEF In, Single
<1> QED BY <1>3, <1>4 DEF a

\* A packet is queued.
LEMMA MoveQueue ==
    ASSUME NEW q \in Seq(Names), NEW g, NEW w, NEW b, NEW m \in Names, NEW n
    PROVE  /\ In(Append(q, m), g, w, b, n) <=> In(q, g, w, b, n) \/ n = m
           /\ Single(q, g, w, b, n) /\ ~(In(q, g, w, b, n) /\ n = m) =>
                Single(Append(q, m), g, w, b, n)
BY HasAppended DEF In, Single

\* A single packet is encoded.
LEMMA MoveStage ==
    ASSUME NEW q, NEW w, NEW b, NEW m, NEW n
    PROVE  /\ In(q, <<m>>, w, b, n) <=> In(q, <<>>, w, b, n) \/ n = m
           /\ Single(q, <<>>, w, b, n) /\ ~(In(q, <<>>, w, b, n) /\ n = m) =>
                Single(q, <<m>>, w, b, n)
BY HasOne, HasNone DEF In, Single

\* The queue is encoded as one batch.
LEMMA MoveFlush ==
    ASSUME NEW q, NEW w, NEW b, NEW n
    PROVE  /\ In(<<>>, q, w, b, n) <=> In(q, <<>>, w, b, n)
           /\ Single(q, <<>>, w, b, n) => Single(<<>>, q, w, b, n)
BY HasNone DEF In, Single

\* A batch is received and can be read, or it is dropped.
LEMMA MoveReceive ==
    ASSUME NEW q, NEW g, NEW w \in Seq(Batches), w # <<>>, NEW n
    PROVE  /\ In(q, g, Tail(w), Head(w).pkts, n) <=> In(q, g, w, <<>>, n)
           /\ Single(q, g, w, <<>>, n) => Single(q, g, Tail(w), Head(w).pkts, n)
           /\ In(q, g, Tail(w), <<>>, n) => In(q, g, w, <<>>, n)
           /\ Single(q, g, w, <<>>, n) => Single(q, g, Tail(w), <<>>, n)
<1> DEFINE u == Tail(w)
           h == Head(w)
<1>1. /\ Carries(w, n) <=> Carries(u, n) \/ Has(h.pkts, n)
      /\ (\A i \in DOMAIN w : Once(w[i].pkts, n)) =>
            Once(h.pkts, n) /\ \A i \in DOMAIN u : Once(u[i].pkts, n)
      /\ (\A i, j \in DOMAIN w : Has(w[i].pkts, n) /\ Has(w[j].pkts, n) => i = j) =>
            /\ ~(Carries(u, n) /\ Has(h.pkts, n))
            /\ \A i, j \in DOMAIN u : Has(u[i].pkts, n) /\ Has(u[j].pkts, n) => i = j
  BY WireRest
<1>2. ~Has(<<>>, n) /\ Once(<<>>, n)
  BY HasNone
<1> HIDE DEF u, h
<1>3. /\ In(q, g, u, h.pkts, n) <=> In(q, g, w, <<>>, n)
      /\ In(q, g, u, <<>>, n) => In(q, g, w, <<>>, n)
  BY <1>1, <1>2 DEF In
<1>4. ASSUME Single(q, g, w, <<>>, n)
      PROVE  Single(q, g, u, h.pkts, n) /\ Single(q, g, u, <<>>, n)
  BY <1>1, <1>2, <1>4 DEF Single
<1> QED BY <1>3, <1>4 DEF u, h

\* The other side handles a packet: a single one leaves the stream.
LEMMA MoveHandle ==
    ASSUME NEW q, NEW g, NEW w, NEW b \in Seq(Names), b # <<>>, NEW n
    PROVE  /\ In(q, g, w, Tail(b), n) => In(q, g, w, b, n)
           /\ In(q, g, w, b, Head(b))
           /\ Single(q, g, w, b, n) => Single(q, g, w, Tail(b), n)
           /\ Single(q, g, w, b, Head(b)) => ~In(q, g, w, Tail(b), Head(b))
<1>1. /\ Has(Tail(b), n) => Has(b, n)
      /\ Has(b, Head(b))
      /\ Once(b, n) => Once(Tail(b), n)
      /\ Once(b, Head(b)) => ~Has(Tail(b), Head(b))
  BY HasRest
<1> DEFINE u == Tail(b)
           h == Head(b)
<1> HIDE DEF u, h
<1> QED BY <1>1 DEF In, Single

-----------------------------------------------------------------------------
(* What a step does to the streams of the two sides.                       *)

Pending(s) == IF s = "server" THEN staged.pkts ELSE <<>>

\* The packets that side s has in its stream, and those that are there once
\* at most.
Air(s) == {n \in Names : In(queue[s], Pending(s), wire[s], inbox[Other(s)], n)}
Lone(s) ==
    {n \in Names : Single(queue[s], Pending(s), wire[s], inbox[Other(s)], n)}

\* The step adds at most the packets of add, once, to the stream of s, and
\* takes those of rem from it.
Flow(s, add, rem) ==
    /\ Air(s)' \subseteq Air(s) \cup add
    /\ Lone(s) \ (Air(s) \cap add) \subseteq Lone(s)'
    /\ rem \cap Lone(s) \cap Air(s)' = {}

\* A step that touches none of its parts leaves a stream alone.
LEMMA FlowQuiet ==
    ASSUME NEW s, UNCHANGED <<queue[s], wire[s], inbox[Other(s)], Pending(s)>>
    PROVE  Flow(s, {}, {})
BY DEF Flow, Air, Lone

\* A packet is sent in a batch of its own.
LEMMA FlowPut ==
    ASSUME TypeOK, NEW s \in Sides, NEW c \in Batches, NEW m, c.pkts = <<m>>,
           wire' = [wire EXCEPT ![s] = Append(@, c)],
           UNCHANGED <<queue[s], inbox[Other(s)], Pending(s)>>
    PROVE  Flow(s, {m}, {})
<1>1. wire[s] \in Seq(Batches) /\ wire'[s] = Append(wire[s], c)
  BY DEF TypeOK
<1>2. \A n : (Has(c.pkts, n) <=> n = m) /\ Once(c.pkts, n)
  BY HasOne
<1>3. \A n \in Names :
        /\ In(queue[s], Pending(s), wire'[s], inbox[Other(s)], n) =>
             In(queue[s], Pending(s), wire[s], inbox[Other(s)], n) \/ n = m
        /\ Single(queue[s], Pending(s), wire[s], inbox[Other(s)], n)
           /\ ~(In(queue[s], Pending(s), wire[s], inbox[Other(s)], n) /\ n = m) =>
             Single(queue[s], Pending(s), wire'[s], inbox[Other(s)], n)
  BY <1>1, <1>2, MovePut
<1> QED BY <1>3 DEF Flow, Air, Lone

\* The client's pump sends the queue.
LEMMA FlowPump ==
    ASSUME TypeOK, NEW c \in Batches, c.pkts = queue["client"],
           wire' = [wire EXCEPT !["client"] = Append(@, c)],
           queue' = [queue EXCEPT !["client"] = <<>>],
           UNCHANGED <<inbox, Pending("client")>>
    PROVE  Flow("client", {}, {})
<1> DEFINE s == "client"
<1>1. /\ wire[s] \in Seq(Batches) /\ wire'[s] = Append(wire[s], c)
      /\ queue'[s] = <<>> /\ inbox'[Other(s)] = inbox[Other(s)]
  BY DEF TypeOK, Sides
<1>2. \A n \in Names :
        /\ In(<<>>, Pending(s), Append(wire[s], c), inbox[Other(s)], n) =>
             In(queue[s], Pending(s), wire[s], inbox[Other(s)], n)
        /\ Single(queue[s], Pending(s), wire[s], inbox[Other(s)], n) =>
             Single(<<>>, Pending(s), Append(wire[s], c), inbox[Other(s)], n)
  <2> TAKE n \in Names
  <2> QED BY <1>1, MovePump
<1> QED BY <1>1, <1>2 DEF Flow, Air, Lone

\* A packet is queued.
LEMMA FlowQueue ==
    ASSUME TypeOK, NEW s \in Sides, NEW m \in Names,
           queue' = [queue EXCEPT ![s] = Append(@, m)],
           UNCHANGED <<wire[s], inbox[Other(s)], Pending(s)>>
    PROVE  Flow(s, {m}, {})
<1>1. queue[s] \in Seq(Names) /\ queue'[s] = Append(queue[s], m)
  BY DEF TypeOK
<1>2. \A n \in Names :
        /\ In(queue'[s], Pending(s), wire[s], inbox[Other(s)], n) =>
             In(queue[s], Pending(s), wire[s], inbox[Other(s)], n) \/ n = m
        /\ Single(queue[s], Pending(s), wire[s], inbox[Other(s)], n)
           /\ ~(In(queue[s], Pending(s), wire[s], inbox[Other(s)], n) /\ n = m) =>
             Single(queue'[s], Pending(s), wire[s], inbox[Other(s)], n)
  BY <1>1, MoveQueue
<1> QED BY <1>2 DEF Flow, Air, Lone

\* The server encodes a packet, or its queue.
LEMMA FlowStage ==
    ASSUME TypeOK, NEW m, staged.pkts = <<>>, staged'.pkts = <<m>>,
           UNCHANGED <<queue["server"], wire["server"], inbox["client"]>>
    PROVE  Flow("server", {m}, {})
<1> DEFINE q == queue["server"]
           w == wire["server"]
           b == inbox["client"]
<1>1. \A n \in Names :
        /\ In(q, <<m>>, w, b, n) => In(q, <<>>, w, b, n) \/ n = m
        /\ Single(q, <<>>, w, b, n) /\ ~(In(q, <<>>, w, b, n) /\ n = m) =>
             Single(q, <<m>>, w, b, n)
  BY MoveStage
<1> QED BY <1>1 DEF Flow, Air, Lone, Pending, Other

\* The queue of the server is encoded.
LEMMA FlowFlush ==
    ASSUME TypeOK, staged.pkts = <<>>, staged'.pkts = queue["server"],
           queue' = [queue EXCEPT !["server"] = <<>>],
           UNCHANGED <<wire, inbox>>
    PROVE  Flow("server", {}, {})
<1> DEFINE q == queue["server"]
           w == wire["server"]
           b == inbox["client"]
<1>1. queue'["server"] = <<>>
  BY DEF TypeOK, Sides
<1>2. \A n \in Names :
        /\ In(<<>>, q, w, b, n) => In(q, <<>>, w, b, n)
        /\ Single(q, <<>>, w, b, n) => Single(<<>>, q, w, b, n)
  BY MoveFlush
<1> QED BY <1>1, <1>2 DEF Flow, Air, Lone, Pending, Other

\* The server sends what it has encoded.
LEMMA FlowStaged ==
    ASSUME TypeOK, wire' = [wire EXCEPT !["server"] = Append(@, staged)],
           staged' = NoBatch, UNCHANGED <<queue, inbox>>
    PROVE  Flow("server", {}, {})
<1> DEFINE q == queue["server"]
           w == wire["server"]
           b == inbox["client"]
<1>1. /\ wire'["server"] = Append(w, staged) /\ staged'.pkts = <<>>
      /\ w \in Seq(Batches) /\ staged \in Batches
  BY DEF TypeOK, Sides, NoBatch
<1>2. \A n \in Names :
        /\ In(q, <<>>, wire'["server"], b, n) => In(q, staged.pkts, w, b, n)
        /\ Single(q, staged.pkts, w, b, n) => Single(q, <<>>, wire'["server"], b, n)
  BY <1>1, MoveStaged
<1> QED BY <1>1, <1>2 DEF Flow, Air, Lone, Pending, Other

\* Receiving a batch keeps the stream, or drops the batch.
LEMMA FlowReceive ==
    ASSUME TypeOK, NEW s \in Sides, Receive(s)
    PROVE  Flow(Other(s), {}, {}) /\ Flow(s, {}, {})
<1> DEFINE o == Other(s)
           w == wire[o]
<1>1. /\ o \in Sides /\ Other(o) = s /\ o # s /\ w \in Seq(Batches) /\ w # <<>>
      /\ wire' = [wire EXCEPT ![o] = Tail(@)]
      /\ inbox[s] = <<>>
      /\ UNCHANGED <<queue, staged>>
      /\ \/ inbox' = inbox
         \/ inbox' = [inbox EXCEPT ![s] = Head(w).pkts]
  BY DEF Receive, TypeOK, Other, Sides, serverVars
<1>2. /\ wire'[o] = Tail(w) /\ wire'[s] = wire[s] /\ inbox'[o] = inbox[o]
      /\ inbox'[s] = <<>> \/ inbox'[s] = Head(w).pkts
  BY <1>1 DEF TypeOK
<1>3. UNCHANGED <<Pending(s), Pending(o)>>
  BY <1>1 DEF Pending
<1> HIDE DEF o
<1>4. Flow(s, {}, {})
  BY <1>1, <1>2, <1>3, FlowQuiet DEF o
<1>5. \A n \in Names :
        /\ In(queue[o], Pending(o), wire'[o], inbox'[s], n) =>
             In(queue[o], Pending(o), w, <<>>, n)
        /\ Single(queue[o], Pending(o), w, <<>>, n) =>
             Single(queue[o], Pending(o), wire'[o], inbox'[s], n)
  <2> TAKE n \in Names
  <2>1. /\ In(queue[o], Pending(o), Tail(w), Head(w).pkts, n) =>
             In(queue[o], Pending(o), w, <<>>, n)
        /\ Single(queue[o], Pending(o), w, <<>>, n) =>
             Single(queue[o], Pending(o), Tail(w), Head(w).pkts, n)
        /\ In(queue[o], Pending(o), Tail(w), <<>>, n) =>
             In(queue[o], Pending(o), w, <<>>, n)
        /\ Single(queue[o], Pending(o), w, <<>>, n) =>
             Single(queue[o], Pending(o), Tail(w), <<>>, n)
    BY <1>1, MoveReceive
  <2> QED BY <1>2, <2>1
<1>6. Flow(o, {}, {})
  BY <1>1, <1>3, <1>5 DEF Flow, Air, Lone
<1> QED BY <1>4, <1>6 DEF o

\* Handling a packet takes it from the stream of the other side.
LEMMA FlowHandle ==
    ASSUME TypeOK, NEW s \in Sides, NEW n \in Names, NEW l, Handle(s, n, l),
           UNCHANGED <<queue[Other(s)], wire[Other(s)], Pending(Other(s))>>
    PROVE  n \in Air(Other(s)) /\ Flow(Other(s), {}, {n})
<1> DEFINE o == Other(s)
           b == inbox[s]
<1>1. /\ Other(o) = s /\ b \in Seq(Names) /\ b # <<>> /\ Head(b) = n
      /\ inbox'[s] = Tail(b)
  BY DEF Handle, TypeOK, Other, Sides
<1> HIDE DEF o
<1>2. /\ In(queue[o], Pending(o), wire[o], b, n)
      /\ Single(queue[o], Pending(o), wire[o], b, n) =>
           ~In(queue[o], Pending(o), wire[o], Tail(b), n)
  BY <1>1, MoveHandle
<1>3. \A m \in Names :
        /\ In(queue[o], Pending(o), wire[o], Tail(b), m) =>
             In(queue[o], Pending(o), wire[o], b, m)
        /\ Single(queue[o], Pending(o), wire[o], b, m) =>
             Single(queue[o], Pending(o), wire[o], Tail(b), m)
  BY <1>1, MoveHandle
<1>4. UNCHANGED <<queue[o], wire[o], Pending(o)>>
  BY DEF o
<1>5. n \in Air(o)
  BY <1>1, <1>2 DEF Air
<1>6. Flow(o, {}, {n})
  BY <1>1, <1>2, <1>3, <1>4 DEF Flow, Air, Lone
<1> QED BY <1>5, <1>6 DEF o

-----------------------------------------------------------------------------
(* Types.                                                                  *)

\* What TypeOK says of one side.
LEMMA SideTyped ==
    ASSUME TypeOK, NEW s \in Sides
    PROVE  /\ queue[s] \in Seq(Names) /\ inbox[s] \in Seq(Names)
           /\ wire[s] \in Seq(Batches) /\ staged \in Batches
           /\ sendCtr[s] \in Nat /\ recvCtr[s] \in Nat
           /\ sent[s] \in 0..MaxData
BY DEF TypeOK

\* An encoded batch holds the packets it was given.
LEMMA EncodeTyped ==
    ASSUME TypeOK, NEW s \in Sides, NEW pkts \in Seq(Names)
    PROVE  Encode(s, pkts) \in Batches /\ Encode(s, pkts).pkts = pkts
BY DEF TypeOK, Encode, PlainForm, Batches

\* A batch on the wire, the counter, and both in one step.
LEMMA PutTyped ==
    ASSUME TypeOK, NEW s \in Sides, NEW b \in Batches, b.pkts # <<>>, Put(s, b)
    PROVE  wire' \in [Sides -> Seq(Batches)] /\ first' \in Names \cup {""}
<1>1. Append(wire[s], b) \in Seq(Batches)
  BY SideTyped
<1>2. wire' \in [Sides -> Seq(Batches)]
  BY <1>1 DEF TypeOK, Put
<1>3. b.pkts \in Seq(Names)
  BY DEF Batches
<1>4. Head(b.pkts) \in Names
  BY <1>3
<1>5. first' \in Names \cup {""}
  BY <1>4 DEF TypeOK, Put
<1> QED BY <1>2, <1>5

LEMMA CountTyped ==
    ASSUME TypeOK, NEW s \in Sides, Count(s)
    PROVE  sendCtr' \in [Sides -> Nat]
<1>0. sendCtr \in [Sides -> Nat]
  BY DEF TypeOK
<1>1. sendCtr[s] + 1 \in Nat
  BY <1>0
<1>2. sendCtr' = sendCtr \/ sendCtr' = [sendCtr EXCEPT ![s] = sendCtr[s] + 1]
  BY DEF Count
<1> QED BY <1>0, <1>1, <1>2

LEMMA SendTyped ==
    ASSUME TypeOK, NEW s \in Sides, NEW pkts \in Seq(Names), pkts # <<>>,
           Send(s, pkts)
    PROVE  /\ wire' \in [Sides -> Seq(Batches)] /\ first' \in Names \cup {""}
           /\ sendCtr' \in [Sides -> Nat]
<1>1. sendCtr' \in [Sides -> Nat]
  BY CountTyped DEF Send
<1> QED BY <1>1, EncodeTyped, PutTyped DEF Send

\* One packet is a list to send.
LEMMA OnePacket == \A n \in Names : <<n>> \in Seq(Names) /\ <<n>> # <<>>
OBVIOUS

\* A handled packet leaves the inbox.
LEMMA HandleTyped ==
    ASSUME TypeOK, NEW s \in Sides, NEW n, NEW l, Handle(s, n, l)
    PROVE  inbox' \in [Sides -> Seq(Names)]
<1>1. inbox[s] # <<>>
  BY DEF Handle
<1>2. Tail(inbox[s]) \in Seq(Names)
  BY <1>1, SideTyped
<1> QED BY <1>2 DEF TypeOK, Handle

\* A packet is queued; the queue is emptied.
LEMMA QueueTyped ==
    ASSUME TypeOK, NEW s \in Sides, NEW n \in Names
    PROVE  [queue EXCEPT ![s] = Append(@, n)] \in [Sides -> Seq(Names)]
<1>1. Append(queue[s], n) \in Seq(Names)
  BY SideTyped
<1> QED BY <1>1 DEF TypeOK

LEMMA EmptyTyped ==
    ASSUME TypeOK, NEW s \in Sides
    PROVE  [queue EXCEPT ![s] = <<>>] \in [Sides -> Seq(Names)]
<1>1. <<>> \in Seq(Names)
  OBVIOUS
<1> QED BY <1>1 DEF TypeOK

\* What the server's application may take.
LEMMA TakeTyped ==
    ASSUME TypeOK, NEW n \in Offers, Take(n)
    PROVE  /\ n \in Names /\ game' \subseteq {"start_game", "player_spawn"}
           /\ sent' \in [Sides -> 0..MaxData]
<1>1. n \in Names
  BY DEF Offers, TypeOK, Names
<1>2. game' \subseteq {"start_game", "player_spawn"}
  BY DEF Take, TypeOK
<1>3. CASE n = "data"
  <2>1. "server" \in Sides /\ sent["server"] < MaxData
    BY <1>3 DEF Offers, TypeOK, Sides
  <2>2. sent \in [Sides -> 0..MaxData]
    BY DEF TypeOK
  <2>3. sent["server"] + 1 \in 0..MaxData
    BY <2>1, <2>2, BoundAssumption
  <2>4. sent' = [sent EXCEPT !["server"] = sent["server"] + 1]
    BY <1>3 DEF Take
  <2>5. sent' \in [Sides -> 0..MaxData]
    BY <2>1, <2>2, <2>3, <2>4
  <2> QED BY <1>1, <1>2, <2>5
<1>4. CASE n # "data"
  BY <1>1, <1>2, <1>4 DEF Take, TypeOK
<1> QED BY <1>3, <1>4

\* Every step keeps the types.
LEMMA TypeStep == TypeOK /\ [Next]_vars => TypeOK'
<1> SUFFICES ASSUME TypeOK, [Next]_vars PROVE TypeOK'
  OBVIOUS
<1>s. "client" \in Sides /\ "server" \in Sides
  BY DEF Sides
<1> USE DEF config, crypto, serverVars, clientVars
<1>1. CASE Connected
  <2>1. /\ wire' \in [Sides -> Seq(Batches)] /\ first' \in Names \cup {""}
        /\ sendCtr' \in [Sides -> Nat]
    <3>1. CASE Modern
      BY <1>1, <1>s, <3>1, SendTyped, OnePacket DEF Connected, Names
    <3>2. CASE ~Modern
      BY <1>1, <3>2 DEF Connected, TypeOK
    <3> QED BY <3>1, <3>2
  <2> QED BY <1>1, <1>s, <2>1 DEF Connected, Step, TypeOK
<1>2. CASE NetworkSettings
  BY <1>2, <1>s, HandleTyped DEF NetworkSettings, Handle, TypeOK
<1>3. CASE SendLogin
  <2>1. /\ wire' \in [Sides -> Seq(Batches)] /\ first' \in Names \cup {""}
        /\ sendCtr' \in [Sides -> Nat]
    BY <1>3, <1>s, SendTyped, OnePacket DEF SendLogin, Names
  <2> QED BY <1>3, <1>s, <2>1 DEF SendLogin, Step, TypeOK
<1>4. CASE StartEncryption
  <2> DEFINE c == [pkts |-> <<"client_to_server_handshake">>, form |-> "enc",
                   ctr |-> 0]
  <2>1. c \in Batches /\ c.pkts # <<>>
    BY OnePacket DEF Batches, Names
  <2>2. Put("client", c)
    BY <1>4 DEF StartEncryption
  <2>3. wire' \in [Sides -> Seq(Batches)] /\ first' \in Names \cup {""}
    BY <1>s, <2>1, <2>2, PutTyped
  <2>4. inbox' \in [Sides -> Seq(Names)]
    BY <1>4, <1>s, HandleTyped DEF StartEncryption
  <2>5. /\ enc' \in [Sides -> BOOLEAN]
        /\ recvCtr' \in [Sides -> Nat] /\ sendCtr' \in [Sides -> Nat]
    BY <1>4, <1>s DEF StartEncryption, Enabled, TypeOK
  <2>6. pc' = [pc EXCEPT !["client"] = "joining"]
    BY <1>4 DEF StartEncryption, Handle
  <2> QED BY <1>4, <1>s, <2>3, <2>4, <2>5, <2>6 DEF StartEncryption, TypeOK
<1>5. CASE ClientJoin \/ TransitionStatus \/ StackSent
  BY <1>5, <1>s DEF ClientJoin, TransitionStatus, StackSent, Step, TypeOK
<1>6. CASE LoginSuccess \/ ClientData \/ Initialized \/ ServerData
  <2>1. inbox' \in [Sides -> Seq(Names)]
    BY <1>6, <1>s, HandleTyped
       DEF LoginSuccess, ClientData, Initialized, ServerData
  <2>2. CASE LoginSuccess
    BY <1>s, <2>1, <2>2 DEF LoginSuccess, Handle, TypeOK
  <2>5. CASE ClientData
    BY <1>s, <2>1, <2>5 DEF ClientData, Handle, TypeOK
  <2>3. CASE Initialized
    <3>1. spawns' \in Nat
      <4>1. spawns \in Nat
        BY DEF TypeOK
      <4>2. spawns' = spawns + 1
        BY <2>3 DEF Initialized
      <4> QED BY <4>1, <4>2
    <3>2. pc' = [pc EXCEPT !["server"] = "idle"]
      BY <2>3 DEF Initialized, Handle
    <3> QED BY <1>s, <2>1, <2>3, <3>1, <3>2 DEF Initialized, TypeOK
  <2>4. CASE ServerData
    BY <1>s, <2>1, <2>4 DEF ServerData, Handle, TypeOK
  <2> QED BY <1>6, <2>2, <2>3, <2>4, <2>5
<1>7. CASE ResourcePacksInfo \/ ResourcePackStack
  <2>1. inbox' \in [Sides -> Seq(Names)]
    BY <1>7, <1>s, HandleTyped DEF ResourcePacksInfo, ResourcePackStack
  <2>2. \/ Send("client", <<"resource_pack_client_response">>)
        \/ UNCHANGED <<wire, sendCtr, first>>
    BY <1>7 DEF ResourcePacksInfo, ResourcePackStack
  <2>3. /\ wire' \in [Sides -> Seq(Batches)] /\ first' \in Names \cup {""}
        /\ sendCtr' \in [Sides -> Nat]
    <3>1. CASE Send("client", <<"resource_pack_client_response">>)
      BY <1>s, <3>1, SendTyped, OnePacket DEF Names
    <3>2. CASE UNCHANGED <<wire, sendCtr, first>>
      BY <3>2 DEF TypeOK
    <3> QED BY <2>2, <3>1, <3>2
  <2> QED BY <1>7, <1>s, <2>1, <2>3
       DEF ResourcePacksInfo, ResourcePackStack, Handle, TypeOK
<1>8. CASE StartGame \/ PlayerSpawn
  <2>1. inbox' \in [Sides -> Seq(Names)]
    BY <1>8, <1>s, HandleTyped DEF StartGame, PlayerSpawn
  <2>2. \/ Send("client", <<"set_local_player_as_initialized">>)
        \/ UNCHANGED <<wire, sendCtr, first>>
    BY <1>8 DEF StartGame, PlayerSpawn
  <2>3. /\ wire' \in [Sides -> Seq(Batches)] /\ first' \in Names \cup {""}
        /\ sendCtr' \in [Sides -> Nat]
    <3>1. CASE Send("client", <<"set_local_player_as_initialized">>)
      BY <1>s, <3>1, SendTyped, OnePacket DEF Names
    <3>2. CASE UNCHANGED <<wire, sendCtr, first>>
      BY <3>2 DEF TypeOK
    <3> QED BY <2>2, <3>1, <3>2
  <2>4. CASE StartGame
    BY <1>s, <2>1, <2>3, <2>4 DEF StartGame, Handle, TypeOK
  <2>5. CASE PlayerSpawn
    BY <1>s, <2>1, <2>3, <2>5 DEF PlayerSpawn, Handle, TypeOK
  <2> QED BY <1>8, <2>4, <2>5
<1>9. CASE CacheStatus
  <2>1. queue' \in [Sides -> Seq(Names)]
    BY <1>9, <1>s, QueueTyped DEF CacheStatus, Names
  <2> QED BY <1>9, <1>s, <2>1 DEF CacheStatus, Step, TypeOK
<1>10. CASE ClientQueue
  <2>1. queue' \in [Sides -> Seq(Names)]
    BY <1>10, <1>s, QueueTyped DEF ClientQueue, Names
  <2>2. sent' \in [Sides -> 0..MaxData]
    <3>1. sent \in [Sides -> 0..MaxData]
      BY DEF TypeOK
    <3>2. /\ sent["client"] < MaxData
          /\ sent' = [sent EXCEPT !["client"] = sent["client"] + 1]
      BY <1>10 DEF ClientQueue
    <3>3. sent["client"] + 1 \in 0..MaxData
      BY <1>s, <3>1, <3>2, BoundAssumption
    <3> QED BY <3>1, <3>2, <3>3
  <2> QED BY <1>10, <2>1, <2>2 DEF ClientQueue, TypeOK
<1>11. CASE ClientPump
  <2>1. queue["client"] \in Seq(Names) /\ queue["client"] # <<>>
    BY <1>11, <1>s DEF ClientPump, TypeOK
  <2>2. /\ wire' \in [Sides -> Seq(Batches)] /\ first' \in Names \cup {""}
        /\ sendCtr' \in [Sides -> Nat]
    BY <1>11, <1>s, <2>1, SendTyped DEF ClientPump
  <2>3. queue' \in [Sides -> Seq(Names)]
    BY <1>11, <1>s, EmptyTyped DEF ClientPump
  <2> QED BY <1>11, <2>2, <2>3 DEF ClientPump, TypeOK
<1>12. ASSUME NEW s \in Sides, Receive(s) PROVE TypeOK'
  <2> DEFINE w == wire[Other(s)]
  <2>1. Other(s) \in Sides /\ w \in Seq(Batches) /\ w # <<>>
    BY <1>12 DEF Other, Sides, TypeOK, Receive
  <2>2. Tail(w) \in Seq(Batches) /\ Head(w) \in Batches
    BY <2>1
  <2>3. Head(w).pkts \in Seq(Names)
    BY <2>2 DEF Batches
  <2>4. wire' \in [Sides -> Seq(Batches)]
    BY <1>12, <2>1, <2>2 DEF Receive, TypeOK
  <2>5. inbox' \in [Sides -> Seq(Names)]
    BY <1>12, <2>3 DEF Receive, TypeOK
  <2>6. recvCtr' \in [Sides -> Nat]
    <3>0. recvCtr \in [Sides -> Nat]
      BY DEF TypeOK
    <3>1. recvCtr[s] + 1 \in Nat
      BY <3>0
    <3>2. recvCtr' = recvCtr \/ recvCtr' = [recvCtr EXCEPT ![s] = recvCtr[s] + 1]
      BY <1>12 DEF Receive
    <3> QED BY <3>0, <3>1, <3>2
  <2>7. pc' = pc \/ pc' = [pc EXCEPT ![s] = "failed"]
    BY <1>12 DEF Receive
  <2> QED BY <1>12, <2>4, <2>5, <2>6, <2>7 DEF Receive, TypeOK
<1>13. CASE RequestNetworkSettings
  <2> DEFINE c == [pkts |-> <<"network_settings">>, form |-> "bare", ctr |-> 0]
  <2>1. c \in Batches /\ c.pkts # <<>>
    BY OnePacket DEF Batches, Names
  <2>2. Put("server", c)
    BY <1>13 DEF RequestNetworkSettings
  <2>3. wire' \in [Sides -> Seq(Batches)] /\ first' \in Names \cup {""}
    BY <1>s, <2>1, <2>2, PutTyped
  <2>4. inbox' \in [Sides -> Seq(Names)]
    BY <1>13, <1>s, HandleTyped DEF RequestNetworkSettings
  <2>6. pc' = [pc EXCEPT !["server"] = "ready"]
    BY <1>13 DEF RequestNetworkSettings, Handle
  <2> QED BY <1>13, <1>s, <2>3, <2>4, <2>6 DEF RequestNetworkSettings, TypeOK
<1>14. CASE NetworkSettingsSent
  BY <1>14, <1>s DEF NetworkSettingsSent, Step, TypeOK
<1>15. CASE Login \/ ClientHandshake
  <2>1. inbox' \in [Sides -> Seq(Names)]
    BY <1>15, <1>s, HandleTyped DEF Login, ClientHandshake
  <2>2. /\ wire' \in [Sides -> Seq(Batches)] /\ first' \in Names \cup {""}
        /\ sendCtr' \in [Sides -> Nat]
    BY <1>15, <1>s, SendTyped, OnePacket
       DEF Login, ClientHandshake, ServerSend, Names
  <2> QED BY <1>15, <1>s, <2>1, <2>2 DEF Login, ClientHandshake, Handle, TypeOK
<1>16. CASE EnableEncryption
  BY <1>16, <1>s DEF EnableEncryption, Enabled, Step, TypeOK
<1>17. CASE LateNetworkSettings \/ SendPacksInfo
  <2>2. /\ wire' \in [Sides -> Seq(Batches)] /\ first' \in Names \cup {""}
        /\ sendCtr' \in [Sides -> Nat]
    BY <1>17, <1>s, SendTyped, OnePacket
       DEF LateNetworkSettings, SendPacksInfo, ServerSend, Names
  <2> QED BY <1>17, <1>s, <2>2 DEF LateNetworkSettings, SendPacksInfo, Step, TypeOK
<1>18. CASE ResourcePackResponse
  <2>1. inbox' \in [Sides -> Seq(Names)]
    BY <1>18, <1>s, HandleTyped DEF ResourcePackResponse
  <2>2. \/ Send("server", <<"resource_pack_stack">>)
        \/ UNCHANGED <<wire, sendCtr, first>>
    BY <1>18 DEF ResourcePackResponse, ServerSend
  <2>3. /\ wire' \in [Sides -> Seq(Batches)] /\ first' \in Names \cup {""}
        /\ sendCtr' \in [Sides -> Nat]
    <3>1. CASE Send("server", <<"resource_pack_stack">>)
      BY <1>s, <3>1, SendTyped, OnePacket DEF Names
    <3>2. CASE UNCHANGED <<wire, sendCtr, first>>
      BY <3>2 DEF TypeOK
    <3> QED BY <2>2, <3>1, <3>2
  <2> QED BY <1>18, <1>s, <2>1, <2>3 DEF ResourcePackResponse, Handle, TypeOK
<1>19. CASE ServerWrite
  <2>1. PICK n \in Offers : Take(n) /\ Stage(<<n>>)
    BY <1>19 DEF ServerWrite
  <2>2. n \in Names
    BY <2>1, TakeTyped
  <2>3. staged' \in Batches /\ sendCtr' \in [Sides -> Nat]
    BY <1>s, <2>1, <2>2, OnePacket, EncodeTyped, CountTyped DEF Stage
  <2>4. game' \subseteq {"start_game", "player_spawn"}
        /\ sent' \in [Sides -> 0..MaxData]
    BY <2>1, TakeTyped
  <2> QED BY <1>19, <2>3, <2>4 DEF ServerWrite, TypeOK
<1>20. CASE ServerQueue
  <2>1. PICK n \in Offers : Take(n) /\ queue' = [queue EXCEPT !["server"] = Append(@, n)]
    BY <1>20 DEF ServerQueue
  <2>2. n \in Names
    BY <2>1, TakeTyped
  <2>3. queue' \in [Sides -> Seq(Names)]
    BY <1>s, <2>1, <2>2, QueueTyped
  <2>4. game' \subseteq {"start_game", "player_spawn"}
        /\ sent' \in [Sides -> 0..MaxData]
    BY <2>1, TakeTyped
  <2> QED BY <1>20, <2>3, <2>4 DEF ServerQueue, TypeOK
<1>21. CASE ServerFlush
  <2>1. queue["server"] \in Seq(Names)
    BY <1>s DEF TypeOK
  <2>2. staged' \in Batches /\ sendCtr' \in [Sides -> Nat]
    BY <1>21, <1>s, <2>1, EncodeTyped, CountTyped DEF ServerFlush, Stage
  <2>3. queue' \in [Sides -> Seq(Names)]
    BY <1>21, <1>s, EmptyTyped DEF ServerFlush
  <2> QED BY <1>21, <2>2, <2>3 DEF ServerFlush, TypeOK
<1>22. CASE PutStaged
  <2>1. Append(wire["server"], staged) \in Seq(Batches)
    BY <1>s, SideTyped
  <2>2. wire' \in [Sides -> Seq(Batches)] /\ first' = first
    BY <1>22, <1>s, <2>1 DEF PutStaged, Put, TypeOK
  <2>3. staged' \in Batches
    BY <1>22 DEF PutStaged, NoBatch, Batches
  <2> QED BY <1>22, <2>2, <2>3 DEF PutStaged, TypeOK
<1>23. CASE UNCHANGED vars
  BY <1>23 DEF vars, TypeOK
<1> QED
  BY <1>s, <1>1, <1>2, <1>3, <1>4, <1>5, <1>6, <1>7, <1>8, <1>9, <1>10, <1>11,
     <1>12, <1>13, <1>14, <1>15, <1>16, <1>17, <1>18, <1>19, <1>20, <1>21,
     <1>22, <1>23 DEF Next, ClientWorker, ServerWorker

-----------------------------------------------------------------------------
(* The order of the session.                                               *)

\* The server has handled the login, the client's handshake, and its first
\* answer about the resource packs.
LoginDone == enc["server"] \/ pc["server"] = "enable"
HandshakeDone == pc["server"] = "status" \/ status["server"] # "Authenticating"
StackDone == stack \/ pc["server"] = "stack"

\* The packets that move the session on are in a stream once at most.
LoneInv ==
    /\ {"login", "client_to_server_handshake", "resource_pack_client_response",
        "set_local_player_as_initialized"} \subseteq Lone("client")
    /\ {"server_to_client_handshake", "start_game"} \subseteq Lone("server")

\* How far the client can be for what it has seen.
ClientInv ==
    /\ pc["client"] \in {"start", "login"} => status["client"] = "Connecting"
    /\ status["client"] \in {"Initializing", "Initialized"} => enc["client"]
    /\ pc["client"] = "joining" => enc["client"] /\ status["client"] = "Authenticating"
    /\ enc["client"] => LoginDone /\ (joined["client"] \/ pc["client"] = "joining")
    /\ joined["client"] => enc["client"]
    /\ pc["client"] = "cache" => packs # "new"
    /\ packs # "new" => joined["client"] /\ status["server"] # "Authenticating"
    /\ initNext => status["client"] = "Initialized"
    /\ status["client"] = "Initialized" \/ entity => joined["server"]

\* How far the server can be for what it has seen.
ServerInv ==
    /\ LoginDone => status["client"] # "Connecting"
    /\ HandshakeDone => enc["client"] /\ enc["server"]
    /\ pc["server"] = "packs" => status["server"] # "Authenticating"
    /\ StackDone => packs # "new"
    /\ joined["server"] => packs = "done"
    /\ status["server"] = "Initialized" => status["client"] = "Initialized"
    /\ "start_game" \in game \/ "start_game" \in Air("server") => ~entity
    /\ "start_game" \in Air("server") => "start_game" \notin game
    /\ spawns \in {0, 1}
    /\ spawns = 1 => /\ status["client"] = "Initialized" /\ entity
                     /\ "set_local_player_as_initialized" \notin Air("client")

\* What a packet on its way says of the two sides.
AirInv ==
    /\ "login" \in Air("client") => status["client"] # "Connecting" /\ ~LoginDone
    /\ "server_to_client_handshake" \in Air("server") =>
         LoginDone /\ ~enc["client"] /\ status["client"] = "Authenticating"
    /\ "client_to_server_handshake" \in Air("client") =>
         enc["client"] /\ ~HandshakeDone
    /\ "login_success" \in Air("server") => HandshakeDone
    /\ "resource_packs_info" \in Air("server") => status["server"] # "Authenticating"
    /\ "resource_pack_stack" \in Air("server") => StackDone
    /\ "resource_pack_client_response" \in Air("client") =>
         packs = (IF StackDone THEN "done" ELSE "armed")
    /\ "set_local_player_as_initialized" \in Air("client") =>
         status["client"] = "Initialized" /\ entity
    /\ "start_game" \in Air("server") \/ "player_spawn" \in Air("server") =>
         joined["server"]

\* The compressor is agreed before the login.
SettingsInv ==
    /\ "request_network_settings" \in Lone("client")
    /\ Modern => "network_settings" \in Lone("server")
    /\ ready["server"] => settings
    /\ pc["server"] = "enable" => ~enc["server"]
    /\ pc["server"] = "late" => enc["server"] /\ ~Modern
    /\ ready["server"] \/ pc["server"] = "ready" =>
         pc["client"] # "start" /\ (Modern \/ enc["server"])
    /\ "request_network_settings" \in Air("client") =>
         /\ Modern /\ ~ready["server"] /\ pc["server"] # "ready"
         /\ pc["client"] # "start"
    /\ Modern =>
         /\ ready["client"] \/ "network_settings" \in Air("server") =>
              ready["server"] \/ pc["server"] = "ready"
         /\ pc["client"] = "login" \/ status["client"] # "Connecting" =>
              ready["client"]
         /\ "network_settings" \in Air("server") => ~ready["client"]

OrderInv == LoneInv /\ ClientInv /\ ServerInv /\ AirInv /\ SettingsInv

-----------------------------------------------------------------------------
(* Steps of the workers, by what they do to both streams.                  *)

\* What is handled was on its way.
LEMMA HandledAir ==
    ASSUME TypeOK, NEW s \in Sides, NEW n \in Names, NEW l, Handle(s, n, l)
    PROVE  n \in Air(Other(s)) /\ Has(inbox[s], n)
<1>1. /\ Other(Other(s)) = s /\ inbox[s] \in Seq(Names) /\ inbox[s] # <<>>
      /\ Head(inbox[s]) = n
  BY DEF Handle, TypeOK, Other, Sides
<1>2. Has(inbox[s], n)
  BY <1>1, HasRest
<1> QED BY <1>1, <1>2 DEF Air, In

\* Nothing moves.
LEMMA Quiet ==
    ASSUME UNCHANGED <<queue, wire, inbox, staged>>
    PROVE  Flow("client", {}, {}) /\ Flow("server", {}, {})
BY FlowQuiet DEF Pending

\* A worker handles a packet; it handles one and answers; it sends one on its
\* own; an application queues one.
LEMMA Handles ==
    ASSUME TypeOK, NEW s \in Sides, NEW n \in Names, NEW l, Handle(s, n, l),
           UNCHANGED <<queue, wire, staged>>
    PROVE  n \in Air(Other(s)) /\ Flow(Other(s), {}, {n}) /\ Flow(s, {}, {})
<1>1. Other(s) \in Sides /\ Other(s) # s /\ inbox'[Other(s)] = inbox[Other(s)]
  BY DEF Handle, Other, Sides, TypeOK
<1>2. UNCHANGED <<Pending(s), Pending(Other(s))>>
  BY DEF Pending
<1> QED BY <1>1, <1>2, FlowHandle, FlowQuiet

LEMMA Answers ==
    ASSUME TypeOK, NEW s \in Sides, NEW n \in Names, NEW l, Handle(s, n, l),
           NEW c \in Batches, NEW m, c.pkts = <<m>>, Put(s, c),
           UNCHANGED <<queue, staged>>
    PROVE  n \in Air(Other(s)) /\ Flow(Other(s), {}, {n}) /\ Flow(s, {m}, {})
<1>1. /\ Other(s) \in Sides /\ Other(s) # s /\ inbox'[Other(s)] = inbox[Other(s)]
      /\ wire' = [wire EXCEPT ![s] = Append(@, c)]
      /\ wire'[Other(s)] = wire[Other(s)]
  BY DEF Handle, Put, Other, Sides, TypeOK
<1>2. UNCHANGED <<Pending(s), Pending(Other(s))>>
  BY DEF Pending
<1>3. n \in Air(Other(s)) /\ Flow(Other(s), {}, {n})
  BY <1>1, <1>2, FlowHandle
<1>4. Flow(s, {m}, {})
  BY <1>1, <1>2, FlowPut
<1> QED BY <1>3, <1>4

LEMMA Sends ==
    ASSUME TypeOK, NEW s \in Sides, NEW c \in Batches, NEW m, c.pkts = <<m>>,
           Put(s, c), UNCHANGED <<queue, inbox, staged>>
    PROVE  Flow(Other(s), {}, {}) /\ Flow(s, {m}, {})
<1>1. /\ Other(s) \in Sides /\ Other(s) # s
      /\ wire' = [wire EXCEPT ![s] = Append(@, c)]
      /\ wire'[Other(s)] = wire[Other(s)]
  BY DEF Put, Other, Sides, TypeOK
<1>2. UNCHANGED <<Pending(s), Pending(Other(s))>>
  BY DEF Pending
<1>3. Flow(Other(s), {}, {})
  BY <1>1, <1>2, FlowQuiet
<1>4. Flow(s, {m}, {})
  BY <1>1, <1>2, FlowPut
<1> QED BY <1>3, <1>4

LEMMA Queues ==
    ASSUME TypeOK, NEW s \in Sides, NEW m \in Names,
           queue' = [queue EXCEPT ![s] = Append(@, m)],
           UNCHANGED <<wire, inbox, staged>>
    PROVE  Flow(Other(s), {}, {}) /\ Flow(s, {m}, {})
<1>1. Other(s) # s /\ queue'[Other(s)] = queue[Other(s)]
  BY DEF Other, Sides, TypeOK
<1>2. UNCHANGED <<Pending(s), Pending(Other(s))>>
  BY DEF Pending
<1>3. Flow(Other(s), {}, {})
  BY <1>1, <1>2, FlowQuiet
<1>4. Flow(s, {m}, {})
  BY <1>1, <1>2, FlowQueue
<1> QED BY <1>3, <1>4

\* A packet sent through sendPackets is in a batch of its own.
LEMMA SendPuts ==
    ASSUME TypeOK, NEW s \in Sides, NEW m \in Names, Send(s, <<m>>)
    PROVE  \E c \in Batches : c.pkts = <<m>> /\ Put(s, c)
BY OnePacket, EncodeTyped DEF Send

\* Every step keeps the order of the session.
LEMMA OrderStep == TypeOK /\ OrderInv /\ [Next]_vars => OrderInv'
<1> SUFFICES ASSUME TypeOK, OrderInv, [Next]_vars PROVE OrderInv'
  OBVIOUS
<1>s. /\ "client" \in Sides /\ "server" \in Sides
      /\ Other("client") = "server" /\ Other("server") = "client"
  BY DEF Sides, Other
<1>t. /\ pc \in [Sides -> {"start", "idle", "login", "joining", "cache",
                           "ready", "enable", "late", "status", "packs",
                           "stack", "failed"}]
      /\ status \in [Sides -> {"Connecting", "Authenticating", "Initializing",
                               "Initialized"}]
      /\ enc \in [Sides -> BOOLEAN] /\ joined \in [Sides -> BOOLEAN]
      /\ ready \in [Sides -> BOOLEAN]
      /\ stack \in BOOLEAN /\ entity \in BOOLEAN /\ initNext \in BOOLEAN
      /\ settings \in BOOLEAN /\ packs \in {"new", "armed", "done"}
  BY DEF TypeOK
<1> USE DEF config, crypto, serverVars, clientVars
<1>1. CASE Connected
  <2>1. CASE Modern
    <3>1. PICK c \in Batches :
            c.pkts = <<"request_network_settings">> /\ Put("client", c)
      BY <1>1, <1>s, <2>1, SendPuts DEF Connected, Names
    <3>2. /\ Flow("server", {}, {})
          /\ Flow("client", {"request_network_settings"}, {})
      BY <1>1, <1>s, <3>1, Sends DEF Connected, Step
    <3> QED BY <1>1, <1>s, <1>t, <2>1, <3>2
      DEF Connected, Step, OrderInv, LoneInv, ClientInv, ServerInv, AirInv,
          SettingsInv, Modern, LoginDone, HandshakeDone, StackDone, Flow
  <2>2. CASE ~Modern
    <3>1. Flow("client", {}, {}) /\ Flow("server", {}, {})
      BY <1>1, <2>2, Quiet DEF Connected, Step
    <3> QED BY <1>1, <1>s, <1>t, <2>2, <3>1
      DEF Connected, Step, OrderInv, LoneInv, ClientInv, ServerInv, AirInv,
          SettingsInv, Modern, LoginDone, HandshakeDone, StackDone, Flow
  <2> QED BY <2>1, <2>2
<1>2. CASE NetworkSettings
  <2>1. /\ "network_settings" \in Air("server")
        /\ Flow("server", {}, {"network_settings"})
        /\ Flow("client", {}, {})
    BY <1>2, <1>s, Handles DEF NetworkSettings, Names
  <2> QED BY <1>2, <1>s, <1>t, <2>1
    DEF NetworkSettings, Handle, OrderInv, LoneInv, ClientInv, ServerInv,
        AirInv, SettingsInv, Modern, LoginDone, HandshakeDone, StackDone, Flow
<1>3. CASE SendLogin
  <2>1. Flow("server", {}, {}) /\ Flow("client", {"login"}, {})
    <3>1. Send("client", <<"login">>)
      BY <1>3 DEF SendLogin, ServerSend
    <3>2. PICK c \in Batches : c.pkts = <<"login">> /\ Put("client", c)
      BY <1>s, <3>1, SendPuts DEF Names
    <3> QED BY <1>3, <1>s, <3>2, Sends DEF SendLogin, Step
  <2> QED BY <1>3, <1>s, <1>t, <2>1
    DEF SendLogin, Step, OrderInv, LoneInv, ClientInv, ServerInv, AirInv,
        SettingsInv, Modern, LoginDone, HandshakeDone, StackDone, Flow
<1>4. CASE StartEncryption
  <2> DEFINE c == [pkts |-> <<"client_to_server_handshake">>, form |-> "enc", ctr |-> 0]
  <2>1. c \in Batches /\ c.pkts = <<"client_to_server_handshake">> /\ Put("client", c)
    BY <1>4, OnePacket DEF StartEncryption, Batches, Names
  <2> HIDE DEF c
  <2>2. /\ "server_to_client_handshake" \in Air("server")
        /\ Flow("server", {}, {"server_to_client_handshake"})
        /\ Flow("client", {"client_to_server_handshake"}, {})
    BY <1>4, <1>s, <2>1, Answers DEF StartEncryption, Names
  <2> QED BY <1>4, <1>s, <1>t, <2>2
    DEF StartEncryption, Enabled, Handle, OrderInv, LoneInv, ClientInv,
        ServerInv, AirInv, SettingsInv, Modern, LoginDone, HandshakeDone,
        StackDone, Flow
<1>5. CASE ClientJoin
  <2>1. Flow("client", {}, {}) /\ Flow("server", {}, {})
    BY <1>5, Quiet DEF ClientJoin, Step
  <2> QED BY <1>5, <1>s, <1>t, <2>1
    DEF ClientJoin, Step, OrderInv, LoneInv, ClientInv, ServerInv, AirInv,
        SettingsInv, Modern, LoginDone, HandshakeDone, StackDone, Flow
<1>6. CASE LoginSuccess
  <2>1. /\ "login_success" \in Air("server")
        /\ Flow("server", {}, {"login_success"})
        /\ Flow("client", {}, {})
    BY <1>6, <1>s, Handles DEF LoginSuccess, Names
  <2> QED BY <1>6, <1>s, <1>t, <2>1
    DEF LoginSuccess, Handle, OrderInv, LoneInv, ClientInv, ServerInv, AirInv,
        SettingsInv, Modern, LoginDone, HandshakeDone, StackDone, Flow
<1>7. CASE ResourcePacksInfo
  <2>1. CASE packs = "new"
    <3>1. /\ "resource_packs_info" \in Air("server")
          /\ Flow("server", {}, {"resource_packs_info"})
          /\ Flow("client", {"resource_pack_client_response"}, {})
      <4>1. Send("client", <<"resource_pack_client_response">>)
        BY <1>7, <2>1 DEF ResourcePacksInfo, ServerSend
      <4>2. PICK c \in Batches :
              c.pkts = <<"resource_pack_client_response">> /\ Put("client", c)
        BY <1>s, <4>1, SendPuts DEF Names
      <4> QED BY <1>7, <1>s, <4>2, Answers DEF ResourcePacksInfo, Names
    <3> QED BY <1>7, <1>s, <1>t, <2>1, <3>1
      DEF ResourcePacksInfo, Handle, OrderInv, LoneInv, ClientInv, ServerInv,
          AirInv, SettingsInv, Modern, LoginDone, HandshakeDone, StackDone,
          Flow
  <2>2. CASE ~(packs = "new")
    <3>1. /\ "resource_packs_info" \in Air("server")
          /\ Flow("server", {}, {"resource_packs_info"})
          /\ Flow("client", {}, {})
      BY <1>7, <1>s, <2>2, Handles DEF ResourcePacksInfo, Names
    <3> QED BY <1>7, <1>s, <1>t, <2>2, <3>1
      DEF ResourcePacksInfo, Handle, OrderInv, LoneInv, ClientInv, ServerInv,
          AirInv, SettingsInv, Modern, LoginDone, HandshakeDone, StackDone,
          Flow
  <2> QED BY <2>1, <2>2
<1>8. CASE CacheStatus
  <2>1. Flow("server", {}, {}) /\ Flow("client", {"client_cache_status"}, {})
    BY <1>8, <1>s, Queues DEF CacheStatus, Step, Names
  <2> QED BY <1>8, <1>s, <1>t, <2>1
    DEF CacheStatus, Step, OrderInv, LoneInv, ClientInv, ServerInv, AirInv,
        SettingsInv, Modern, LoginDone, HandshakeDone, StackDone, Flow
<1>9. CASE ResourcePackStack
  <2>1. CASE packs = "armed"
    <3>1. /\ "resource_pack_stack" \in Air("server")
          /\ Flow("server", {}, {"resource_pack_stack"})
          /\ Flow("client", {"resource_pack_client_response"}, {})
      <4>1. Send("client", <<"resource_pack_client_response">>)
        BY <1>9, <2>1 DEF ResourcePackStack, ServerSend
      <4>2. PICK c \in Batches :
              c.pkts = <<"resource_pack_client_response">> /\ Put("client", c)
        BY <1>s, <4>1, SendPuts DEF Names
      <4> QED BY <1>9, <1>s, <4>2, Answers DEF ResourcePackStack, Names
    <3> QED BY <1>9, <1>s, <1>t, <2>1, <3>1
      DEF ResourcePackStack, Handle, OrderInv, LoneInv, ClientInv, ServerInv,
          AirInv, SettingsInv, Modern, LoginDone, HandshakeDone, StackDone,
          Flow
  <2>2. CASE ~(packs = "armed")
    <3>1. /\ "resource_pack_stack" \in Air("server")
          /\ Flow("server", {}, {"resource_pack_stack"})
          /\ Flow("client", {}, {})
      BY <1>9, <1>s, <2>2, Handles DEF ResourcePackStack, Names
    <3> QED BY <1>9, <1>s, <1>t, <2>2, <3>1
      DEF ResourcePackStack, Handle, OrderInv, LoneInv, ClientInv, ServerInv,
          AirInv, SettingsInv, Modern, LoginDone, HandshakeDone, StackDone,
          Flow
  <2> QED BY <2>1, <2>2
<1>10. CASE StartGame
  <2>1. CASE initNext
    <3>1. /\ "start_game" \in Air("server")
          /\ Flow("server", {}, {"start_game"})
          /\ Flow("client", {"set_local_player_as_initialized"}, {})
      <4>1. Send("client", <<"set_local_player_as_initialized">>)
        BY <1>10, <2>1 DEF StartGame, ServerSend
      <4>2. PICK c \in Batches :
              c.pkts = <<"set_local_player_as_initialized">> /\ Put("client", c)
        BY <1>s, <4>1, SendPuts DEF Names
      <4> QED BY <1>10, <1>s, <4>2, Answers DEF StartGame, Names
    <3> QED BY <1>10, <1>s, <1>t, <2>1, <3>1
      DEF StartGame, Handle, OrderInv, LoneInv, ClientInv, ServerInv, AirInv,
          SettingsInv, Modern, LoginDone, HandshakeDone, StackDone, Flow
  <2>2. CASE ~(initNext)
    <3>1. /\ "start_game" \in Air("server")
          /\ Flow("server", {}, {"start_game"})
          /\ Flow("client", {}, {})
      BY <1>10, <1>s, <2>2, Handles DEF StartGame, Names
    <3> QED BY <1>10, <1>s, <1>t, <2>2, <3>1
      DEF StartGame, Handle, OrderInv, LoneInv, ClientInv, ServerInv, AirInv,
          SettingsInv, Modern, LoginDone, HandshakeDone, StackDone, Flow
  <2> QED BY <2>1, <2>2
<1>11. CASE PlayerSpawn
  <2>1. CASE status["client"] = "Initializing" /\ entity
    <3>1. /\ "player_spawn" \in Air("server")
          /\ Flow("server", {}, {"player_spawn"})
          /\ Flow("client", {"set_local_player_as_initialized"}, {})
      <4>1. Send("client", <<"set_local_player_as_initialized">>)
        BY <1>11, <2>1 DEF PlayerSpawn, ServerSend
      <4>2. PICK c \in Batches :
              c.pkts = <<"set_local_player_as_initialized">> /\ Put("client", c)
        BY <1>s, <4>1, SendPuts DEF Names
      <4> QED BY <1>11, <1>s, <4>2, Answers DEF PlayerSpawn, Names
    <3> QED BY <1>11, <1>s, <1>t, <2>1, <3>1
      DEF PlayerSpawn, Handle, OrderInv, LoneInv, ClientInv, ServerInv, AirInv,
          SettingsInv, Modern, LoginDone, HandshakeDone, StackDone, Flow
  <2>2. CASE ~(status["client"] = "Initializing" /\ entity)
    <3>1. /\ "player_spawn" \in Air("server")
          /\ Flow("server", {}, {"player_spawn"})
          /\ Flow("client", {}, {})
      BY <1>11, <1>s, <2>2, Handles DEF PlayerSpawn, Names
    <3> QED BY <1>11, <1>s, <1>t, <2>2, <3>1
      DEF PlayerSpawn, Handle, OrderInv, LoneInv, ClientInv, ServerInv, AirInv,
          SettingsInv, Modern, LoginDone, HandshakeDone, StackDone, Flow
  <2> QED BY <2>1, <2>2
<1>12. CASE ClientData
  <2>1. /\ "data" \in Air("server") /\ Flow("server", {}, {"data"})
        /\ Flow("client", {}, {})
    BY <1>12, <1>s, Handles DEF ClientData, Names
  <2> QED BY <1>12, <1>s, <1>t, <2>1
    DEF ClientData, Handle, OrderInv, LoneInv, ClientInv, ServerInv, AirInv,
        SettingsInv, Modern, LoginDone, HandshakeDone, StackDone, Flow
<1>13. CASE ClientQueue
  <2>1. Flow("server", {}, {}) /\ Flow("client", {"data"}, {})
    BY <1>13, <1>s, Queues DEF ClientQueue, Names
  <2> QED BY <1>13, <1>s, <1>t, <2>1
    DEF ClientQueue, OrderInv, LoneInv, ClientInv, ServerInv, AirInv,
        SettingsInv, Modern, LoginDone, HandshakeDone, StackDone, Flow
<1>14. CASE ClientPump
  <2>1. Flow("server", {}, {}) /\ Flow("client", {}, {})
    <3> DEFINE c == Encode("client", queue["client"])
    <3>1. c \in Batches /\ c.pkts = queue["client"]
      BY <1>s, SideTyped, EncodeTyped
    <3>2. /\ wire' = [wire EXCEPT !["client"] = Append(@, c)]
          /\ queue' = [queue EXCEPT !["client"] = <<>>]
          /\ UNCHANGED <<inbox, staged>>
      BY <1>14 DEF ClientPump, Send, Put
    <3> HIDE DEF c
    <3>3. UNCHANGED <<Pending("client"), Pending("server")>>
      BY <3>2 DEF Pending
    <3>4. queue'["server"] = queue["server"] /\ wire'["server"] = wire["server"]
      BY <1>s, <3>2 DEF TypeOK
    <3>5. Flow("server", {}, {})
      BY <3>2, <3>3, <3>4, FlowQuiet
    <3>6. Flow("client", {}, {})
      BY <3>1, <3>2, <3>3, FlowPump
    <3> QED BY <3>5, <3>6
  <2> QED BY <1>14, <1>s, <1>t, <2>1
    DEF ClientPump, OrderInv, LoneInv, ClientInv, ServerInv, AirInv,
        SettingsInv, Modern, LoginDone, HandshakeDone, StackDone, Flow
<1>15. CASE Receive("client") \/ Receive("server")
  <2>1. Flow("client", {}, {}) /\ Flow("server", {}, {})
    BY <1>15, <1>s, FlowReceive
  <2>2. /\ UNCHANGED <<version, enc, ready, status, joined, settings, stack,
                       game, spawns, packs, entity, initNext>>
        /\ \/ pc' = pc
           \/ pc["client"] = "idle" /\ pc' = [pc EXCEPT !["client"] = "failed"]
           \/ pc["server"] = "idle" /\ pc' = [pc EXCEPT !["server"] = "failed"]
    BY <1>15 DEF Receive
  <2> QED BY <1>s, <1>t, <2>1, <2>2
    DEF OrderInv, LoneInv, ClientInv, ServerInv, AirInv, SettingsInv, Modern,
         LoginDone, HandshakeDone, StackDone, Flow
<1>16. CASE RequestNetworkSettings
  <2> DEFINE c == [pkts |-> <<"network_settings">>, form |-> "bare", ctr |-> 0]
  <2>1. c \in Batches /\ c.pkts = <<"network_settings">> /\ Put("server", c)
    BY <1>16, OnePacket DEF RequestNetworkSettings, Batches, Names
  <2> HIDE DEF c
  <2>2. /\ "request_network_settings" \in Air("client")
        /\ Flow("client", {}, {"request_network_settings"})
        /\ Flow("server", {"network_settings"}, {})
    BY <1>16, <1>s, <2>1, Answers DEF RequestNetworkSettings, Names
  <2> QED BY <1>16, <1>s, <1>t, <2>2
    DEF RequestNetworkSettings, Handle, OrderInv, LoneInv, ClientInv,
        ServerInv, AirInv, SettingsInv, Modern, LoginDone, HandshakeDone,
        StackDone, Flow
<1>17. CASE NetworkSettingsSent
  <2>1. Flow("client", {}, {}) /\ Flow("server", {}, {})
    BY <1>17, Quiet DEF NetworkSettingsSent, Step
  <2> QED BY <1>17, <1>s, <1>t, <2>1
    DEF NetworkSettingsSent, Step, OrderInv, LoneInv, ClientInv, ServerInv,
        AirInv, SettingsInv, Modern, LoginDone, HandshakeDone, StackDone, Flow
<1>18. CASE Login
  <2>1. /\ "login" \in Air("client") /\ Flow("client", {}, {"login"})
        /\ Flow("server", {"server_to_client_handshake"}, {})
    <3>1. Send("server", <<"server_to_client_handshake">>)
      BY <1>18 DEF Login, ServerSend
    <3>2. PICK c \in Batches :
            c.pkts = <<"server_to_client_handshake">> /\ Put("server", c)
      BY <1>s, <3>1, SendPuts DEF Names
    <3> QED BY <1>18, <1>s, <3>2, Answers DEF Login, Names
  <2> QED BY <1>18, <1>s, <1>t, <2>1
    DEF Login, Handle, OrderInv, LoneInv, ClientInv, ServerInv, AirInv,
        SettingsInv, Modern, LoginDone, HandshakeDone, StackDone, Flow
<1>19. CASE EnableEncryption
  <2>1. Flow("client", {}, {}) /\ Flow("server", {}, {})
    BY <1>19, Quiet DEF EnableEncryption, Step
  <2> QED BY <1>19, <1>s, <1>t, <2>1
    DEF EnableEncryption, Enabled, Step, OrderInv, LoneInv, ClientInv,
        ServerInv, AirInv, SettingsInv, Modern, LoginDone, HandshakeDone,
        StackDone, Flow
<1>20. CASE LateNetworkSettings
  <2>1. Flow("client", {}, {}) /\ Flow("server", {"network_settings"}, {})
    <3>1. Send("server", <<"network_settings">>)
      BY <1>20 DEF LateNetworkSettings, ServerSend
    <3>2. PICK c \in Batches :
            c.pkts = <<"network_settings">> /\ Put("server", c)
      BY <1>s, <3>1, SendPuts DEF Names
    <3> QED BY <1>20, <1>s, <3>2, Sends DEF LateNetworkSettings, Step
  <2> QED BY <1>20, <1>s, <1>t, <2>1
    DEF LateNetworkSettings, Step, OrderInv, LoneInv, ClientInv, ServerInv,
        AirInv, SettingsInv, Modern, LoginDone, HandshakeDone, StackDone, Flow
<1>21. CASE ClientHandshake
  <2>1. /\ "client_to_server_handshake" \in Air("client")
        /\ Flow("client", {}, {"client_to_server_handshake"})
        /\ Flow("server", {"login_success"}, {})
    <3>1. Send("server", <<"login_success">>)
      BY <1>21 DEF ClientHandshake, ServerSend
    <3>2. PICK c \in Batches : c.pkts = <<"login_success">> /\ Put("server", c)
      BY <1>s, <3>1, SendPuts DEF Names
    <3> QED BY <1>21, <1>s, <3>2, Answers DEF ClientHandshake, Names
  <2> QED BY <1>21, <1>s, <1>t, <2>1
    DEF ClientHandshake, Handle, OrderInv, LoneInv, ClientInv, ServerInv,
        AirInv, SettingsInv, Modern, LoginDone, HandshakeDone, StackDone, Flow
<1>22. CASE TransitionStatus
  <2>1. Flow("client", {}, {}) /\ Flow("server", {}, {})
    BY <1>22, Quiet DEF TransitionStatus, Step
  <2> QED BY <1>22, <1>s, <1>t, <2>1
    DEF TransitionStatus, Step, OrderInv, LoneInv, ClientInv, ServerInv,
        AirInv, SettingsInv, Modern, LoginDone, HandshakeDone, StackDone, Flow
<1>23. CASE SendPacksInfo
  <2>1. Flow("client", {}, {}) /\ Flow("server", {"resource_packs_info"}, {})
    <3>1. Send("server", <<"resource_packs_info">>)
      BY <1>23 DEF SendPacksInfo, ServerSend
    <3>2. PICK c \in Batches :
            c.pkts = <<"resource_packs_info">> /\ Put("server", c)
      BY <1>s, <3>1, SendPuts DEF Names
    <3> QED BY <1>23, <1>s, <3>2, Sends DEF SendPacksInfo, Step
  <2> QED BY <1>23, <1>s, <1>t, <2>1
    DEF SendPacksInfo, Step, OrderInv, LoneInv, ClientInv, ServerInv, AirInv,
        SettingsInv, Modern, LoginDone, HandshakeDone, StackDone, Flow
<1>24. CASE ResourcePackResponse
  <2>1. CASE ~stack
    <3>1. /\ "resource_pack_client_response" \in Air("client")
          /\ Flow("client", {}, {"resource_pack_client_response"})
          /\ Flow("server", {"resource_pack_stack"}, {})
      <4>1. Send("server", <<"resource_pack_stack">>)
        BY <1>24, <2>1 DEF ResourcePackResponse, ServerSend
      <4>2. PICK c \in Batches :
              c.pkts = <<"resource_pack_stack">> /\ Put("server", c)
        BY <1>s, <4>1, SendPuts DEF Names
      <4> QED BY <1>24, <1>s, <4>2, Answers DEF ResourcePackResponse, Names
    <3> QED BY <1>24, <1>s, <1>t, <2>1, <3>1
      DEF ResourcePackResponse, Handle, OrderInv, LoneInv, ClientInv,
          ServerInv, AirInv, SettingsInv, Modern, LoginDone, HandshakeDone,
          StackDone, Flow
  <2>2. CASE ~(~stack)
    <3>1. /\ "resource_pack_client_response" \in Air("client")
          /\ Flow("client", {}, {"resource_pack_client_response"})
          /\ Flow("server", {}, {})
      BY <1>24, <1>s, <2>2, Handles DEF ResourcePackResponse, Names
    <3> QED BY <1>24, <1>s, <1>t, <2>2, <3>1
      DEF ResourcePackResponse, Handle, OrderInv, LoneInv, ClientInv,
          ServerInv, AirInv, SettingsInv, Modern, LoginDone, HandshakeDone,
          StackDone, Flow
  <2> QED BY <2>1, <2>2
<1>25. CASE StackSent
  <2>1. Flow("client", {}, {}) /\ Flow("server", {}, {})
    BY <1>25, Quiet DEF StackSent, Step
  <2> QED BY <1>25, <1>s, <1>t, <2>1
    DEF StackSent, Step, OrderInv, LoneInv, ClientInv, ServerInv, AirInv,
        SettingsInv, Modern, LoginDone, HandshakeDone, StackDone, Flow
<1>26. CASE Initialized
  <2>1. /\ "set_local_player_as_initialized" \in Air("client")
        /\ Flow("client", {}, {"set_local_player_as_initialized"})
        /\ Flow("server", {}, {})
    BY <1>26, <1>s, Handles DEF Initialized, Names
  <2> QED BY <1>26, <1>s, <1>t, <2>1
    DEF Initialized, Handle, OrderInv, LoneInv, ClientInv, ServerInv, AirInv,
        SettingsInv, Modern, LoginDone, HandshakeDone, StackDone, Flow
<1>27. CASE ServerData
  <2>1. Flow("client", {}, {}) /\ Flow("server", {}, {})
    <3>1. PICK n \in {"data", "client_cache_status"} : Handle("server", n, "idle")
      BY <1>27 DEF ServerData
    <3>2. n \in Names
      BY DEF Names
    <3>3. Flow("client", {}, {n}) /\ Flow("server", {}, {})
      BY <1>27, <1>s, <3>1, <3>2, Handles DEF ServerData
    <3> QED BY <3>3 DEF Flow
  <2> QED BY <1>27, <1>s, <1>t, <2>1
    DEF ServerData, Handle, OrderInv, LoneInv, ClientInv, ServerInv, AirInv,
        SettingsInv, Modern, LoginDone, HandshakeDone, StackDone, Flow
<1>28. CASE ServerWrite
  <2>1. PICK n \in Offers : Take(n) /\ Stage(<<n>>)
    BY <1>28 DEF ServerWrite
  <2>2. n \in Names
    BY <2>1, TakeTyped
  <2>3. Flow("client", {}, {}) /\ Flow("server", {n}, {})
    <3>1. staged.pkts = <<>> /\ staged'.pkts = <<n>>
      BY <1>s, <2>1, <2>2, EncodeTyped, OnePacket DEF Stage, OutboundFree, NoBatch
    <3>2. UNCHANGED <<queue, wire, inbox>>
      BY <1>28 DEF ServerWrite
    <3>3. Flow("server", {n}, {})
      BY <3>1, <3>2, FlowStage
    <3>4. UNCHANGED Pending("client")
      BY DEF Pending
    <3> QED BY <3>2, <3>3, <3>4, FlowQuiet
  <2>4. n \in {"data"} \cup game /\ game' = game \ {n}
        /\ (n # "data" => joined["server"])
    BY <2>1 DEF Take, Offers
  <2>5. UNCHANGED <<version, enc, ready, pc, status, joined, settings, stack,
                    spawns, packs, entity, initNext>>
    BY <1>28 DEF ServerWrite
  <2>6. CASE n \in {"data", "player_spawn"}
    BY <2>3, <2>4, <2>5, <2>6
    DEF OrderInv, LoneInv, ClientInv, ServerInv, AirInv, SettingsInv, Modern,
         LoginDone, HandshakeDone, StackDone, Flow
  <2>7. CASE n = "start_game"
    BY <2>3, <2>4, <2>5, <2>7
    DEF OrderInv, LoneInv, ClientInv, ServerInv, AirInv, SettingsInv, Modern,
         LoginDone, HandshakeDone, StackDone, Flow
  <2>8. game \subseteq {"start_game", "player_spawn"}
    BY DEF TypeOK
  <2> QED BY <2>4, <2>6, <2>7, <2>8
<1>29. CASE ServerQueue
  <2>1. PICK n \in Offers :
          Take(n) /\ queue' = [queue EXCEPT !["server"] = Append(@, n)]
    BY <1>29 DEF ServerQueue
  <2>2. n \in Names
    BY <2>1, TakeTyped
  <2>3. Flow("client", {}, {}) /\ Flow("server", {n}, {})
    BY <1>29, <1>s, <2>1, <2>2, Queues DEF ServerQueue
  <2>4. n \in {"data"} \cup game /\ game' = game \ {n}
        /\ (n # "data" => joined["server"])
    BY <2>1 DEF Take, Offers
  <2>5. UNCHANGED <<version, enc, ready, pc, status, joined, settings, stack,
                    spawns, packs, entity, initNext>>
    BY <1>29 DEF ServerQueue
  <2>6. CASE n \in {"data", "player_spawn"}
    BY <2>3, <2>4, <2>5, <2>6
    DEF OrderInv, LoneInv, ClientInv, ServerInv, AirInv, SettingsInv, Modern,
         LoginDone, HandshakeDone, StackDone, Flow
  <2>7. CASE n = "start_game"
    BY <2>3, <2>4, <2>5, <2>7
    DEF OrderInv, LoneInv, ClientInv, ServerInv, AirInv, SettingsInv, Modern,
         LoginDone, HandshakeDone, StackDone, Flow
  <2>8. game \subseteq {"start_game", "player_spawn"}
    BY DEF TypeOK
  <2> QED BY <2>4, <2>6, <2>7, <2>8
<1>30. CASE ServerFlush
  <2>1. Flow("client", {}, {}) /\ Flow("server", {}, {})
    <3>1. staged.pkts = <<>> /\ staged'.pkts = queue["server"]
      BY <1>30, <1>s, SideTyped, EncodeTyped
         DEF ServerFlush, Stage, OutboundFree, NoBatch
    <3>2. queue' = [queue EXCEPT !["server"] = <<>>] /\ UNCHANGED <<wire, inbox>>
      BY <1>30 DEF ServerFlush
    <3>3. Flow("server", {}, {})
      BY <3>1, <3>2, FlowFlush
    <3>4. UNCHANGED Pending("client") /\ queue'["client"] = queue["client"]
      BY <1>s, <3>2 DEF Pending, TypeOK
    <3> QED BY <3>2, <3>3, <3>4, FlowQuiet
  <2> QED BY <1>30, <1>s, <1>t, <2>1
    DEF ServerFlush, OrderInv, LoneInv, ClientInv, ServerInv, AirInv,
        SettingsInv, Modern, LoginDone, HandshakeDone, StackDone, Flow
<1>31. CASE PutStaged
  <2>1. Flow("client", {}, {}) /\ Flow("server", {}, {})
    <3>1. /\ wire' = [wire EXCEPT !["server"] = Append(@, staged)]
          /\ staged' = NoBatch /\ UNCHANGED <<queue, inbox>>
      BY <1>31 DEF PutStaged, Put
    <3>2. Flow("server", {}, {})
      BY <3>1, FlowStaged
    <3>3. UNCHANGED Pending("client") /\ wire'["client"] = wire["client"]
      BY <1>s, <3>1 DEF Pending, TypeOK
    <3> QED BY <3>1, <3>2, <3>3, FlowQuiet
  <2> QED BY <1>31, <1>s, <1>t, <2>1
    DEF PutStaged, OrderInv, LoneInv, ClientInv, ServerInv, AirInv,
        SettingsInv, Modern, LoginDone, HandshakeDone, StackDone, Flow
<1>32. CASE UNCHANGED vars
  <2>1. Flow("client", {}, {}) /\ Flow("server", {}, {})
    BY <1>32, Quiet DEF vars
  <2> QED BY <1>32, <2>1
    DEF vars, OrderInv, LoneInv, ClientInv, ServerInv, AirInv, SettingsInv,
        Modern, LoginDone, HandshakeDone, StackDone, Flow
<1> QED
  BY <1>1, <1>2, <1>3, <1>4, <1>5, <1>6, <1>7, <1>8, <1>9, <1>10, <1>11,
     <1>12, <1>13, <1>14, <1>15, <1>16, <1>17, <1>18, <1>19, <1>20, <1>21,
     <1>22, <1>23, <1>24, <1>25, <1>26, <1>27, <1>28, <1>29, <1>30, <1>31,
     <1>32 DEF Next, ClientWorker, ServerWorker

\* The initial states.
LEMMA StartInOrder == Init => TypeOK /\ OrderInv
<1> SUFFICES ASSUME Init PROVE TypeOK /\ OrderInv
  OBVIOUS
<1>1. TypeOK
  <2>1. <<>> \in Seq(Names) /\ <<>> \in Seq(Batches)
    OBVIOUS
  <2>2. staged \in Batches
    BY <2>1 DEF Init, NoBatch, Batches
  <2>3. /\ pc \in [Sides -> {"start", "idle"}]
        /\ status \in [Sides -> {"Connecting", "Authenticating"}]
    <3>1. /\ pc = [x \in Sides |-> pc[x]]
          /\ pc["client"] = "start" /\ pc["server"] = "idle"
      BY DEF Init, Sides
    <3>2. /\ status = [x \in Sides |-> status[x]]
          /\ status["client"] = "Connecting"
          /\ status["server"] = "Authenticating"
      BY DEF Init, Sides
    <3>3. pc \in [Sides -> {"start", "idle"}]
      BY <3>1 DEF Sides
    <3>4. status \in [Sides -> {"Connecting", "Authenticating"}]
      BY <3>2 DEF Sides
    <3> QED BY <3>3, <3>4
  <2>4. 0 \in 0..MaxData /\ 0 \in Nat
    BY BoundAssumption
  <2>5. /\ sent \in [Sides -> 0..MaxData] /\ joined \in [Sides -> BOOLEAN]
        /\ enc \in [Sides -> BOOLEAN] /\ ready \in [Sides -> BOOLEAN]
        /\ sendCtr \in [Sides -> Nat] /\ recvCtr \in [Sides -> Nat]
    BY <2>4 DEF Init
  <2>6. /\ queue \in [Sides -> Seq(Names)] /\ inbox \in [Sides -> Seq(Names)]
        /\ wire \in [Sides -> Seq(Batches)]
    BY <2>1 DEF Init
  <2>7. /\ settings \in BOOLEAN /\ stack \in BOOLEAN /\ entity \in BOOLEAN
        /\ initNext \in BOOLEAN /\ packs \in {"new", "armed", "done"}
        /\ game \subseteq {"start_game", "player_spawn"} /\ spawns \in Nat
        /\ first \in Names \cup {""}
        /\ version \in Versions /\ early \subseteq EarlySides
    BY <2>4 DEF Init
  <2> QED BY <2>2, <2>3, <2>5, <2>6, <2>7 DEF TypeOK
<1>2. ASSUME NEW s \in Sides PROVE Air(s) = {} /\ Lone(s) = Names
  <2>1. /\ queue[s] = <<>> /\ wire[s] = <<>> /\ inbox[Other(s)] = <<>>
        /\ Pending(s) = <<>>
    BY DEF Init, Other, Sides, Pending, NoBatch
  <2>2. ASSUME NEW n
        PROVE  ~In(<<>>, <<>>, <<>>, <<>>, n) /\ Single(<<>>, <<>>, <<>>, <<>>, n)
    BY HasNone DEF In, Single, Carries
  <2> QED BY <2>1, <2>2 DEF Air, Lone
<1>3. OrderInv
  <2>1. /\ Air("client") = {} /\ Air("server") = {}
        /\ Lone("client") = Names /\ Lone("server") = Names
    BY <1>2 DEF Sides
  <2>2. /\ pc["client"] = "start" /\ pc["server"] = "idle"
        /\ status["client"] = "Connecting"
        /\ status["server"] = "Authenticating"
        /\ ~enc["client"] /\ ~enc["server"] /\ ~joined["server"]
        /\ ~ready["client"] /\ ~ready["server"] /\ ~joined["client"]
        /\ ~stack /\ packs = "new" /\ ~entity /\ ~initNext /\ spawns = 0
    BY DEF Init, Sides
  <2>3. LoneInv
    BY <2>1 DEF LoneInv, Names
  <2>4. ClientInv /\ ServerInv /\ AirInv
    BY <2>1, <2>2
       DEF ClientInv, ServerInv, AirInv, LoginDone, HandshakeDone, StackDone
  <2>5. SettingsInv
    BY <2>1, <2>2 DEF SettingsInv, Names
  <2> QED BY <2>3, <2>4, <2>5 DEF OrderInv
<1> QED BY <1>1, <1>3

\* Server and client go through the session in step, whatever their queues
\* hold and whenever they are flushed: a player is admitted only after the
\* client has joined and answered both resource pack packets (handleBuiltInPacket
\* of BedrockServer, handlePacket of BedrockNetworkClient), and spawns once.
THEOREM StaysInStep == Spec => []InStep
<1>1. TypeOK /\ OrderInv /\ [Next]_vars => (TypeOK /\ OrderInv)'
  BY TypeStep, OrderStep
<1>2. TypeOK /\ OrderInv => InStep
  <2> SUFFICES ASSUME TypeOK, OrderInv PROVE StagesAgree /\ SpawnOnce
    BY DEF InStep
  <2>1. StagesAgree
    BY DEF OrderInv, ClientInv, ServerInv, HandshakeDone, StagesAgree
  <2>2. SpawnOnce
    BY DEF OrderInv, ServerInv, SpawnOnce
  <2> QED BY <2>1, <2>2
<1> QED BY StartInOrder, <1>1, <1>2, PTL DEF Spec

-----------------------------------------------------------------------------
(* What can be read.                                                       *)

\* A wire w of side s, r the count of its reader and e the number of encrypted
\* batches that s has put on it: plain batches, then encrypted ones numbered
\* from r to e - 1; a reader that has begun to count has no plain ones left.
Chain(w, r, e) ==
    \E k \in 0..Len(w) :
        /\ \A i \in 1..k : w[i].form # "enc"
        /\ \A i \in (k + 1)..Len(w) : w[i].form = "enc" /\ w[i].ctr = r + (i - k - 1)
        /\ r + (Len(w) - k) = e
        /\ r > 0 => k = 0

\* An encoded batch that is not on the wire yet is counted already.
OnWire(s) ==
    IF s = "server" /\ staged.form = "enc" THEN sendCtr[s] - 1 ELSE sendCtr[s]

CounterInv ==
    /\ \A s \in Sides : ~enc[s] => sendCtr[s] = 0 /\ recvCtr[s] = 0
    /\ staged.form = "enc" => enc["server"] /\ sendCtr["server"] = staged.ctr + 1
    /\ staged # NoBatch /\ staged.form # "enc" => sendCtr["server"] = 0
    /\ \A s \in Sides : pc[Other(s)] # "failed" =>
         Chain(wire[s], recvCtr[Other(s)], OnWire(s))

\* The form of a batch once the compressor is agreed.
Agreed == PlainForm(TRUE)

\* What goes out unencrypted, and what does not.
ClientBatch(b) ==
    b.form # "enc" =>
        /\ ~Has(b.pkts, "client_to_server_handshake")
        /\ early = {} =>
             \/ b.pkts = <<"request_network_settings">> /\ b.form = "bare"
             \/ b.pkts = <<"login">> /\ b.form = Agreed
ServerBatch(b) ==
    /\ b.form = "enc" => ~Has(b.pkts, "server_to_client_handshake")
    /\ b.form # "enc" =>
        /\ ~Has(b.pkts, "resource_packs_info")
        /\ early = {} =>
             \/ b.pkts = <<"network_settings">> /\ b.form = "bare" /\ Modern
             \/ b.pkts = <<"server_to_client_handshake">> /\ b.form = Agreed
Loose == {"data", "client_cache_status", "start_game", "player_spawn"}
WireInv ==
    /\ \A b \in ToSet(wire["client"]) : ClientBatch(b)
    /\ \A b \in ToSet(wire["server"]) : ServerBatch(b)

\* What waits in the queues and in the encoded batch; without early senders
\* it waits there for a side that has joined, and is encrypted.
QueueInv ==
    /\ ToSet(queue["client"]) \cup ToSet(queue["server"])
         \cup ToSet(staged.pkts) \subseteq Loose
    /\ early = {} =>
         /\ queue["client"] # <<>> => joined["client"]
         /\ queue["server"] # <<>> => joined["server"]
         /\ staged # NoBatch => staged.form = "enc"

\* Who has read an encrypted batch; after that no side fails.
ReadInv ==
    /\ Has(inbox["server"], "client_to_server_handshake") =>
         enc["server"] /\ recvCtr["server"] > 0
    /\ Has(inbox["client"], "resource_packs_info") => recvCtr["client"] > 0
    /\ HandshakeDone => recvCtr["server"] > 0 /\ pc["server"] # "failed"
    /\ packs # "new" => recvCtr["client"] > 0 /\ pc["client"] # "failed"
    /\ early = {} => pc["client"] # "failed" /\ pc["server"] # "failed"
    /\ early = {} /\ LoginDone /\ ~enc["client"] =>
         \/ Has(inbox["client"], "server_to_client_handshake")
         \/ Carries(wire["server"], "server_to_client_handshake")

CodecInv == CounterInv /\ WireInv /\ QueueInv /\ ReadInv

\* At first nobody has sent or counted.
LEMMA ChainNew == Chain(<<>>, 0, 0)
BY DEF Chain

\* An encrypted batch with the next number.
LEMMA ChainEncrypted ==
    ASSUME NEW w \in Seq(Batches), NEW c \in Batches, NEW r \in Nat, NEW e \in Nat,
           Chain(w, r, e), c.form = "enc", c.ctr = e
    PROVE  Chain(Append(w, c), r, e + 1)
<1> DEFINE a == Append(w, c)
           l == Len(w)
<1>1. PICK k \in 0..l :
        /\ \A i \in 1..k : w[i].form # "enc"
        /\ \A i \in (k + 1)..l : w[i].form = "enc" /\ w[i].ctr = r + (i - k - 1)
        /\ r + (l - k) = e
        /\ r > 0 => k = 0
  BY DEF Chain
<1>2. /\ l \in Nat /\ Len(a) = l + 1
      /\ \A i \in 1..l : a[i] = w[i]
      /\ a[l + 1] = c
  OBVIOUS
<1> HIDE DEF a, l
<1>3. k \in 0..Len(a)
  BY <1>2
<1>4. \A i \in 1..k : a[i].form # "enc"
  <2>1. \A i \in 1..k : i \in 1..l
    BY <1>2
  <2> QED BY <1>1, <1>2, <2>1
<1>5. ASSUME NEW i \in (k + 1)..Len(a)
      PROVE  a[i].form = "enc" /\ a[i].ctr = r + (i - k - 1)
  <2>1. CASE i = l + 1
    <3>1. e = r + (l - k) /\ i - k - 1 = l - k
      BY <1>1, <1>2, <2>1
    <3> QED BY <1>2, <2>1, <3>1
  <2>2. CASE i # l + 1
    BY <1>1, <1>2, <2>2
  <2> QED BY <2>1, <2>2
<1>6. r + (Len(a) - k) = e + 1
  <2>1. r + (l - k) = e
    BY <1>1
  <2>2. r + ((l + 1) - k) = r + (l - k) + 1
    BY <1>2
  <2> QED BY <1>2, <2>1, <2>2
<1> QED BY <1>1, <1>3, <1>4, <1>5, <1>6 DEF Chain, a

\* A plain batch, while none is encrypted.
LEMMA ChainPlain ==
    ASSUME NEW w \in Seq(Batches), NEW c \in Batches, NEW r \in Nat,
           Chain(w, r, 0), c.form # "enc"
    PROVE  Chain(Append(w, c), r, 0)
<1> DEFINE a == Append(w, c)
           l == Len(w)
<1>1. PICK k \in 0..l :
        /\ \A i \in 1..k : w[i].form # "enc"
        /\ \A i \in (k + 1)..l : w[i].form = "enc" /\ w[i].ctr = r + (i - k - 1)
        /\ r + (l - k) = 0
        /\ r > 0 => k = 0
  BY DEF Chain
<1>2. /\ l \in Nat /\ Len(a) = l + 1
      /\ \A i \in 1..l : a[i] = w[i]
      /\ a[l + 1] = c
  OBVIOUS
<1> HIDE DEF a, l
<1>3. k = l /\ r = 0
  BY <1>1, <1>2
<1>4. \A i \in 1..(l + 1) : a[i].form # "enc"
  BY <1>1, <1>2, <1>3
<1>5. /\ l + 1 \in 0..Len(a) /\ (l + 1 + 1)..Len(a) = {}
      /\ r + (Len(a) - (l + 1)) = 0
  BY <1>2, <1>3
<1> QED BY <1>3, <1>4, <1>5 DEF Chain, a

\* The first batch is read: an encrypted one has the number that the reader
\* expects, a plain one comes only to a reader that has not begun to count.
LEMMA ChainRead ==
    ASSUME NEW w \in Seq(Batches), w # <<>>, NEW r \in Nat, NEW e \in Nat,
           Chain(w, r, e)
    PROVE  /\ Head(w).form = "enc" => /\ Head(w).ctr = r
                                      /\ Chain(Tail(w), r + 1, e)
                                      /\ \A b \in ToSet(w) : b.form = "enc"
           /\ Head(w).form # "enc" => r = 0 /\ Chain(Tail(w), 0, e)
<1> DEFINE u == Tail(w)
           l == Len(w)
           h == Head(w)
<1>1. PICK k \in 0..l :
        /\ \A i \in 1..k : w[i].form # "enc"
        /\ \A i \in (k + 1)..l : w[i].form = "enc" /\ w[i].ctr = r + (i - k - 1)
        /\ r + (l - k) = e
        /\ r > 0 => k = 0
  BY DEF Chain
<1>2. /\ l \in Nat /\ l > 0 /\ DOMAIN w = 1..l /\ h = w[1]
      /\ Len(u) = l - 1
      /\ \A i \in 1..(l - 1) : u[i] = w[i + 1]
  OBVIOUS
<1> HIDE DEF u, l, h
<1>3. ASSUME h.form = "enc"
      PROVE  h.ctr = r /\ Chain(u, r + 1, e) /\ \A b \in ToSet(w) : b.form = "enc"
  <2>1. k = 0
    <3>1. k > 0 => 1 \in 1..k
      OBVIOUS
    <3> QED BY <1>1, <1>2, <1>3, <3>1
  <2>2. h.ctr = r
    <3>1. 1 \in (k + 1)..l /\ r + (1 - k - 1) = r
      BY <1>2, <2>1
    <3> QED BY <1>1, <1>2, <3>1
  <2>3. ASSUME NEW i \in 1..(l - 1)
        PROVE  u[i].form = "enc" /\ u[i].ctr = (r + 1) + (i - 0 - 1)
    <3>1. i + 1 \in (k + 1)..l /\ r + ((i + 1) - k - 1) = (r + 1) + (i - 0 - 1)
      BY <1>2, <2>1
    <3> QED BY <1>1, <1>2, <3>1
  <2>4. /\ 0 \in 0..Len(u) /\ 1..0 = {} /\ (0 + 1)..Len(u) = 1..(l - 1)
        /\ (r + 1) + (Len(u) - 0) = e
    BY <1>1, <1>2, <2>1
  <2>5. Chain(u, r + 1, e)
    BY <2>3, <2>4 DEF Chain
  <2>6. \A b \in ToSet(w) : b.form = "enc"
    BY <1>1, <1>2, <2>1 DEF ToSet
  <2> QED BY <2>2, <2>5, <2>6
<1>4. ASSUME h.form # "enc"
      PROVE  r = 0 /\ Chain(u, 0, e)
  <2>1. k > 0
    <3>1. k = 0 => 1 \in (k + 1)..l
      BY <1>2
    <3> QED BY <1>1, <1>2, <1>4, <3>1
  <2>2. r = 0
    BY <1>1, <2>1
  <2>3. k - 1 \in 0..Len(u) /\ 0 + (Len(u) - (k - 1)) = e
    BY <1>1, <1>2, <2>1, <2>2
  <2>4. \A i \in 1..(k - 1) : u[i].form # "enc"
    <3> SUFFICES ASSUME NEW i \in 1..(k - 1) PROVE u[i].form # "enc"
      OBVIOUS
    <3>1. i + 1 \in 1..k /\ i \in 1..(l - 1)
      BY <1>2
    <3> QED BY <1>1, <1>2, <3>1
  <2>5. ASSUME NEW i \in ((k - 1) + 1)..Len(u)
        PROVE  u[i].form = "enc" /\ u[i].ctr = 0 + (i - (k - 1) - 1)
    <3>1. /\ i + 1 \in (k + 1)..l /\ i \in 1..(l - 1)
          /\ r + ((i + 1) - k - 1) = 0 + (i - (k - 1) - 1)
      BY <1>2, <2>1, <2>2
    <3> QED BY <1>1, <1>2, <3>1
  <2>6. Chain(u, 0, e)
    <3> DEFINE m == k - 1
    <3>1. /\ m \in 0..Len(u)
          /\ \A i \in 1..m : u[i].form # "enc"
          /\ \A i \in (m + 1)..Len(u) :
                u[i].form = "enc" /\ u[i].ctr = 0 + (i - m - 1)
          /\ 0 + (Len(u) - m) = e
          /\ 0 > 0 => m = 0
      BY <2>3, <2>4, <2>5
    <3> HIDE DEF m
    <3> QED BY <3>1 DEF Chain
  <2> QED BY <2>2, <2>6
<1> QED BY <1>3, <1>4 DEF u, h

\* The batches of a wire.
LEMMA SetAppended ==
    ASSUME NEW S, NEW w \in Seq(S), NEW c \in S
    PROVE  ToSet(Append(w, c)) = ToSet(w) \cup {c}
<1> DEFINE a == Append(w, c)
           k == Len(w)
<1>1. /\ k \in Nat /\ DOMAIN w = 1..k /\ DOMAIN a = 1..(k + 1)
      /\ \A i \in 1..k : a[i] = w[i]
      /\ a[k + 1] = c
  OBVIOUS
<1> HIDE DEF a, k
<1> QED BY <1>1 DEF ToSet, a

\* The batches that stay when the first one is taken.
LEMMA SetRest ==
    ASSUME NEW S, NEW w \in Seq(S), w # <<>>
    PROVE  ToSet(Tail(w)) \subseteq ToSet(w) /\ Head(w) \in ToSet(w)
<1> DEFINE u == Tail(w)
           k == Len(w)
           h == Head(w)
<1>1. /\ k \in Nat /\ k > 0 /\ DOMAIN w = 1..k /\ h = w[1]
      /\ DOMAIN u = 1..(k - 1)
      /\ \A i \in 1..(k - 1) : u[i] = w[i + 1]
  OBVIOUS
<1>2. 1 \in 1..k /\ \A i \in 1..(k - 1) : i + 1 \in 1..k
  BY <1>1
<1> HIDE DEF u, k, h
<1>3. ToSet(u) \subseteq ToSet(w)
  BY <1>1, <1>2 DEF ToSet
<1>4. h \in ToSet(w)
  BY <1>1, <1>2 DEF ToSet
<1> QED BY <1>3, <1>4 DEF u, h

\* A list has the packets of its set.
LEMMA HasSet == \A q, n : Has(q, n) <=> n \in ToSet(q)
BY DEF Has, ToSet

\* A reader never counts further than the writer.
LEMMA ChainCount ==
    ASSUME NEW w \in Seq(Batches), NEW r \in Nat, NEW e \in Nat, Chain(w, r, e)
    PROVE  r <= e
<1>1. PICK k \in 0..Len(w) : r + (Len(w) - k) = e
  BY DEF Chain
<1>2. Len(w) \in Nat
  OBVIOUS
<1> QED BY <1>1, <1>2

-----------------------------------------------------------------------------
(* The counters.                                                           *)

\* No side fails or recovers.
SameFailed == \A s \in Sides : pc'[s] = "failed" <=> pc[s] = "failed"

\* A side that is not encrypted has no encrypted batch on its wire.
LEMMA OnWireTyped ==
    ASSUME TypeOK, CounterInv, NEW s \in Sides
    PROVE  OnWire(s) \in Nat /\ (~enc[s] => OnWire(s) = 0)
<1>1. sendCtr[s] \in Nat /\ staged.ctr \in Nat
  BY SideTyped DEF Batches
<1>2. CASE s = "server" /\ staged.form = "enc"
  <2>1. enc["server"] /\ sendCtr["server"] = staged.ctr + 1
    BY <1>2 DEF CounterInv
  <2>2. OnWire(s) = staged.ctr
    BY <1>1, <1>2, <2>1 DEF OnWire
  <2> QED BY <1>1, <1>2, <2>1, <2>2
<1>3. CASE ~(s = "server" /\ staged.form = "enc")
  BY <1>1, <1>3 DEF OnWire, CounterInv
<1> QED BY <1>2, <1>3

\* A step that neither sends, reads nor fails keeps the counters.
LEMMA CounterFrame ==
    ASSUME CounterInv, SameFailed, UNCHANGED <<enc, sendCtr, recvCtr, wire, staged>>
    PROVE  CounterInv'
<1>1. \A s \in Sides : Other(s) \in Sides
  BY DEF Other, Sides
<1>2. \A s \in Sides : UNCHANGED OnWire(s)
  BY DEF OnWire
<1>3. \A s \in Sides : pc'[Other(s)] # "failed" =>
        Chain(wire'[s], recvCtr'[Other(s)], OnWire(s)')
  BY <1>1, <1>2 DEF CounterInv, SameFailed
<1> QED BY <1>3 DEF CounterInv

\* A side puts batch c on its wire: e batches are counted before, f after.
LEMMA CounterPut ==
    ASSUME TypeOK, CounterInv, SameFailed, NEW s \in Sides, NEW c \in Batches,
           Put(s, c), recvCtr' = recvCtr,
           UNCHANGED OnWire(Other(s)),
           \/ c.form = "enc" /\ c.ctr = OnWire(s) /\ OnWire(s)' = OnWire(s) + 1
           \/ c.form # "enc" /\ OnWire(s) = 0 /\ OnWire(s)' = 0
    PROVE  \A t \in Sides : pc'[Other(t)] # "failed" =>
             Chain(wire'[t], recvCtr'[Other(t)], OnWire(t)')
<1> TAKE t \in Sides
<1> HAVE pc'[Other(t)] # "failed"
<1>1. Other(t) \in Sides /\ Other(s) \in Sides /\ Other(s) # s
  BY DEF Other, Sides
<1>2. Chain(wire[t], recvCtr[Other(t)], OnWire(t))
  BY <1>1 DEF CounterInv, SameFailed
<1>3. wire[t] \in Seq(Batches) /\ recvCtr[Other(t)] \in Nat /\ OnWire(t) \in Nat
  BY <1>1, SideTyped, OnWireTyped
<1>4. CASE t = s
  <2>1. wire'[t] = Append(wire[t], c)
    BY <1>4 DEF Put, TypeOK
  <2>2. CASE c.form = "enc" /\ c.ctr = OnWire(s) /\ OnWire(s)' = OnWire(s) + 1
    <3>1. Chain(Append(wire[t], c), recvCtr[Other(t)], OnWire(t) + 1)
      BY <1>2, <1>3, <1>4, <2>2, ChainEncrypted
    <3> QED BY <1>4, <2>1, <2>2, <3>1
  <2>3. CASE c.form # "enc" /\ OnWire(s) = 0 /\ OnWire(s)' = 0
    <3>1. Chain(wire[t], recvCtr[Other(t)], 0)
      BY <1>2, <1>4, <2>3
    <3>2. Chain(Append(wire[t], c), recvCtr[Other(t)], 0)
      BY <1>3, <2>3, <3>1, ChainPlain
    <3> QED BY <1>4, <2>1, <2>3, <3>2
  <2> QED BY <2>2, <2>3
<1>5. CASE t # s
  <2>1. t = Other(s) /\ wire'[t] = wire[t]
    BY <1>5 DEF Other, Sides, Put, TypeOK
  <2>2. OnWire(t)' = OnWire(t)
    BY <2>1
  <2> QED BY <1>2, <2>1, <2>2
<1> QED BY <1>4, <1>5

\* sendPackets: the batch has the next number, or none is counted yet.
LEMMA CounterSend ==
    ASSUME TypeOK, CounterInv, SameFailed, NEW s \in Sides,
           NEW pkts \in Seq(Names), Send(s, pkts), s = "server" => OutboundFree,
           UNCHANGED <<enc, recvCtr, staged>>
    PROVE  CounterInv'
<1> DEFINE c == Encode(s, pkts)
<1>1. c \in Batches /\ Put(s, c)
  BY EncodeTyped DEF Send
<1>2. OnWire(s) = sendCtr[s] /\ sendCtr[s] \in Nat /\ sendCtr \in [Sides -> Nat]
  <2>1. sendCtr[s] \in Nat /\ sendCtr \in [Sides -> Nat]
    BY DEF TypeOK
  <2>2. OnWire(s) = sendCtr[s]
    BY DEF OnWire, OutboundFree, NoBatch
  <2> QED BY <2>1, <2>2
<1>3. Other(s) \in Sides /\ Other(s) # s /\ enc \in [Sides -> BOOLEAN]
  BY DEF Other, Sides, TypeOK
<1>4. CASE enc[s]
  <2>1. c.form = "enc" /\ c.ctr = sendCtr[s]
    BY <1>4 DEF Encode
  <2>2. sendCtr' = [sendCtr EXCEPT ![s] = sendCtr[s] + 1]
    BY <1>4 DEF Send, Count
  <2>3. /\ sendCtr'[s] = sendCtr[s] + 1
        /\ \A t \in Sides : t # s => sendCtr'[t] = sendCtr[t]
    BY <1>2, <2>2
  <2>4. OnWire(s)' = OnWire(s) + 1 /\ UNCHANGED OnWire(Other(s))
    BY <1>2, <1>3, <2>3 DEF OnWire, OutboundFree, NoBatch
  <2> HIDE DEF c
  <2>5. \A t \in Sides : pc'[Other(t)] # "failed" =>
          Chain(wire'[t], recvCtr'[Other(t)], OnWire(t)')
    BY <1>1, <1>2, <2>1, <2>4, CounterPut
  <2>6. "server" \in Sides /\ (s = "server" => staged = NoBatch)
    BY DEF Sides, OutboundFree
  <2>7. \A t \in Sides : ~enc'[t] => sendCtr'[t] = 0 /\ recvCtr'[t] = 0
    BY <1>4, <2>3 DEF CounterInv
  <2>8. s # "server" => sendCtr'["server"] = sendCtr["server"]
    BY <2>3, <2>6
  <2>9. /\ staged'.form = "enc" =>
             enc'["server"] /\ sendCtr'["server"] = staged'.ctr + 1
        /\ staged' # NoBatch /\ staged'.form # "enc" => sendCtr'["server"] = 0
    BY <2>6, <2>8 DEF CounterInv, NoBatch
  <2> QED BY <2>5, <2>7, <2>9 DEF CounterInv
<1>5. CASE ~enc[s]
  <2>1. c.form # "enc" /\ sendCtr' = sendCtr /\ OnWire(s) = 0
    BY <1>5, OnWireTyped DEF Encode, PlainForm, Send, Count
  <2>2. UNCHANGED <<OnWire(s), OnWire(Other(s))>>
    BY <2>1 DEF OnWire
  <2> HIDE DEF c
  <2>3. \A t \in Sides : pc'[Other(t)] # "failed" =>
          Chain(wire'[t], recvCtr'[Other(t)], OnWire(t)')
    BY <1>1, <2>1, <2>2, CounterPut
  <2> QED BY <2>1, <2>3 DEF CounterInv
<1> QED BY <1>4, <1>5

\* Every step keeps the counters.
LEMMA CounterStep ==
    TypeOK /\ OrderInv /\ CounterInv /\ [Next]_vars => CounterInv'
<1> SUFFICES ASSUME TypeOK, OrderInv, CounterInv, [Next]_vars PROVE CounterInv'
  OBVIOUS
<1>s. /\ "client" \in Sides /\ "server" \in Sides
      /\ Other("client") = "server" /\ Other("server") = "client"
  BY DEF Sides, Other
<1>t. pc \in [Sides -> {"start", "idle", "login", "joining", "cache", "ready",
                        "enable", "late", "status", "packs", "stack", "failed"}]
  BY DEF TypeOK
<1> USE DEF config, crypto, serverVars, clientVars
<1>1. CASE Connected
  <2>1. SameFailed
    BY <1>1, <1>t DEF Connected, Step, SameFailed
  <2>2. CASE Modern
    BY <1>1, <1>s, <2>1, <2>2, CounterSend, OnePacket DEF Connected, Names
  <2>3. CASE ~Modern
    BY <1>1, <2>1, <2>3, CounterFrame DEF Connected
  <2> QED BY <2>2, <2>3
<1>2. CASE NetworkSettings \/ LoginSuccess \/ ClientData \/ Initialized \/ ServerData
  <2>1. SameFailed
    BY <1>2, <1>t DEF NetworkSettings, LoginSuccess, ClientData, Initialized,
         ServerData, Handle, SameFailed
  <2> QED BY <1>2, <2>1, CounterFrame
         DEF NetworkSettings, LoginSuccess, ClientData, Initialized, ServerData
<1>3. CASE SendLogin
  <2>1. SameFailed
    BY <1>3, <1>t DEF SendLogin, Step, SameFailed
  <2> QED BY <1>3, <1>s, <2>1, CounterSend, OnePacket DEF SendLogin, Names
<1>4. CASE StartEncryption
  <2> DEFINE c == [pkts |-> <<"client_to_server_handshake">>, form |-> "enc",
                   ctr |-> 0]
  <2>1. c \in Batches /\ Put("client", c) /\ c.form = "enc" /\ c.ctr = 0
    BY <1>4, OnePacket DEF StartEncryption, Batches, Names
  <2> HIDE DEF c
  <2>2. "server_to_client_handshake" \in Air("server")
    BY <1>4, <1>s, HandledAir DEF StartEncryption, Names
  <2>3. ~enc["client"]
    BY <2>2 DEF OrderInv, AirInv
  <2>4. sendCtr["client"] = 0 /\ recvCtr["client"] = 0
    BY <1>s, <2>3 DEF CounterInv
  <2>5. /\ sendCtr'["client"] = 1 /\ sendCtr'["server"] = sendCtr["server"]
        /\ recvCtr' = recvCtr /\ staged' = staged
        /\ enc'["client"] /\ enc'["server"] = enc["server"]
    BY <1>4, <1>s, <2>4 DEF StartEncryption, Enabled, TypeOK
  <2>6. SameFailed
    BY <1>4, <1>t DEF StartEncryption, Handle, SameFailed
  <2>7. /\ OnWire("client") = 0 /\ OnWire("client")' = OnWire("client") + 1
        /\ UNCHANGED OnWire("server")
    BY <2>4, <2>5 DEF OnWire
  <2>8. \A t \in Sides : pc'[Other(t)] # "failed" =>
          Chain(wire'[t], recvCtr'[Other(t)], OnWire(t)')
    BY <1>s, <2>1, <2>5, <2>6, <2>7, CounterPut
  <2> QED BY <2>5, <2>8 DEF CounterInv, Sides
<1>5. CASE ClientJoin \/ TransitionStatus \/ StackSent \/ CacheStatus
             \/ NetworkSettingsSent
  <2>1. SameFailed
    BY <1>5, <1>t DEF ClientJoin, TransitionStatus, StackSent, CacheStatus,
         NetworkSettingsSent, Step, SameFailed
  <2> QED BY <1>5, <2>1, CounterFrame
         DEF ClientJoin, TransitionStatus, StackSent, CacheStatus,
             NetworkSettingsSent
<1>6. CASE ResourcePacksInfo \/ ResourcePackStack
  <2>1. SameFailed
    BY <1>6, <1>t DEF ResourcePacksInfo, ResourcePackStack, Handle, SameFailed
  <2>2. /\ \/ Send("client", <<"resource_pack_client_response">>)
           \/ UNCHANGED <<wire, sendCtr>>
        /\ UNCHANGED <<enc, recvCtr, staged>>
    BY <1>6 DEF ResourcePacksInfo, ResourcePackStack
  <2>3. CASE Send("client", <<"resource_pack_client_response">>)
    BY <1>s, <2>1, <2>2, <2>3, CounterSend, OnePacket DEF Names
  <2> QED BY <2>1, <2>2, <2>3, CounterFrame
<1>7. CASE StartGame \/ PlayerSpawn
  <2>1. SameFailed
    BY <1>7, <1>t DEF StartGame, PlayerSpawn, Handle, SameFailed
  <2>2. /\ \/ Send("client", <<"set_local_player_as_initialized">>)
           \/ UNCHANGED <<wire, sendCtr>>
        /\ UNCHANGED <<enc, recvCtr, staged>>
    BY <1>7 DEF StartGame, PlayerSpawn
  <2>3. CASE Send("client", <<"set_local_player_as_initialized">>)
    BY <1>s, <2>1, <2>2, <2>3, CounterSend, OnePacket DEF Names
  <2> QED BY <2>1, <2>2, <2>3, CounterFrame
<1>8. CASE ClientQueue \/ ServerQueue
  <2>1. SameFailed
    BY <1>8 DEF ClientQueue, ServerQueue, SameFailed
  <2> QED BY <1>8, <2>1, CounterFrame DEF ClientQueue, ServerQueue
<1>9. CASE ClientPump
  <2>1. SameFailed /\ queue["client"] \in Seq(Names)
    BY <1>9, <1>s, SideTyped DEF ClientPump, SameFailed
  <2> QED BY <1>9, <1>s, <2>1, CounterSend DEF ClientPump
<1>10. ASSUME NEW o \in Sides, Receive(o) PROVE CounterInv'
  <2> DEFINE s == Other(o)
             w == wire[s]
             b == Head(w)
             r == recvCtr[o]
  <2>1. s \in Sides /\ s # o /\ Other(s) = o /\ pc[o] = "idle" /\ w # <<>>
    BY <1>10 DEF Other, Sides, Receive
  <2>2. w \in Seq(Batches) /\ r \in Nat /\ OnWire(s) \in Nat
    BY <1>10, <2>1, SideTyped, OnWireTyped
  <2>3. Chain(w, r, OnWire(s))
    BY <2>1 DEF CounterInv
  <2>4. /\ b.form = "enc" => b.ctr = r /\ Chain(Tail(w), r + 1, OnWire(s))
        /\ b.form # "enc" => r = 0 /\ Chain(Tail(w), 0, OnWire(s))
    BY <2>1, <2>2, <2>3, ChainRead
  <2>5. /\ wire'[s] = Tail(w) /\ wire'[o] = wire[o]
        /\ UNCHANGED <<enc, sendCtr, staged>> /\ recvCtr'[s] = recvCtr[s]
        /\ pc'[s] = pc[s]
        /\ recvCtr'[o] = IF enc[o] THEN r + 1 ELSE r
    <3>1. wire' = [wire EXCEPT ![s] = Tail(w)] /\ UNCHANGED <<enc, sendCtr, staged>>
      BY <1>10 DEF Receive
    <3>2. pc' = pc \/ pc' = [pc EXCEPT ![o] = "failed"]
      BY <1>10 DEF Receive
    <3>3. recvCtr' = IF enc[o] THEN [recvCtr EXCEPT ![o] = r + 1] ELSE recvCtr
      BY <1>10 DEF Receive
    <3>4. wire'[s] = Tail(w) /\ wire'[o] = wire[o]
      BY <2>1, <3>1 DEF TypeOK
    <3>5. pc'[s] = pc[s]
      BY <2>1, <3>2 DEF TypeOK
    <3>6. recvCtr'[s] = recvCtr[s] /\ recvCtr'[o] = IF enc[o] THEN r + 1 ELSE r
      BY <2>1, <3>3 DEF TypeOK
    <3> QED BY <3>1, <3>4, <3>5, <3>6
  <2>6. UNCHANGED <<OnWire(s), OnWire(o)>>
    BY <2>5 DEF OnWire
  <2>7. pc'[o] # "failed" => Chain(wire'[s], recvCtr'[o], OnWire(s)')
    <3>1. SUFFICES ASSUME pc'[o] # "failed"
                   PROVE  Chain(Tail(w), recvCtr'[o], OnWire(s))
      BY <2>5, <2>6
    <3>2. Decodes(o, b)
      BY <1>10, <1>t, <3>1 DEF Receive
    <3>3. CASE enc[o]
      BY <2>4, <2>5, <3>2, <3>3 DEF Decodes
    <3>4. CASE ~enc[o]
      BY <2>4, <2>5, <3>2, <3>4 DEF Decodes, PlainForm
    <3> QED BY <3>3, <3>4
  <2>8. pc'[s] # "failed" => Chain(wire'[o], recvCtr'[s], OnWire(o)')
    <3>1. pc[s] # "failed" => Chain(wire[o], recvCtr[s], OnWire(o))
      BY <2>1 DEF CounterInv
    <3> QED BY <2>5, <2>6, <3>1
  <2>9. \A t \in Sides : t = s \/ t = o
    BY <2>1 DEF Sides
  <2>10. \A t \in Sides : ~enc'[t] => sendCtr'[t] = 0 /\ recvCtr'[t] = 0
    BY <2>5, <2>9 DEF CounterInv
  <2>11. \A t \in Sides : pc'[Other(t)] # "failed" =>
           Chain(wire'[t], recvCtr'[Other(t)], OnWire(t)')
    BY <2>1, <2>7, <2>8, <2>9
  <2> QED BY <2>5, <2>10, <2>11 DEF CounterInv
<1>11. CASE RequestNetworkSettings
  <2> DEFINE c == [pkts |-> <<"network_settings">>, form |-> "bare", ctr |-> 0]
  <2>1. c \in Batches /\ Put("server", c) /\ c.form # "enc"
    BY <1>11, OnePacket DEF RequestNetworkSettings, Batches, Names
  <2> HIDE DEF c
  <2>2. "request_network_settings" \in Air("client")
    BY <1>11, <1>s, HandledAir DEF RequestNetworkSettings, Names
  <2>3. ~enc["server"]
    BY <2>2 DEF OrderInv, SettingsInv, ServerInv, LoginDone
  <2>4. SameFailed
    BY <1>11, <1>t DEF RequestNetworkSettings, Handle, SameFailed
  <2>5. UNCHANGED <<enc, sendCtr, recvCtr, staged>>
    BY <1>11 DEF RequestNetworkSettings
  <2>6. OnWire("server") = 0 /\ UNCHANGED <<OnWire("client"), OnWire("server")>>
    BY <1>s, <2>3, <2>5, OnWireTyped DEF OnWire
  <2>7. \A t \in Sides : pc'[Other(t)] # "failed" =>
          Chain(wire'[t], recvCtr'[Other(t)], OnWire(t)')
    BY <1>s, <2>1, <2>4, <2>5, <2>6, CounterPut
  <2> QED BY <2>5, <2>7 DEF CounterInv
<1>12. CASE Login \/ ClientHandshake
  <2>1. SameFailed
    BY <1>12, <1>t DEF Login, ClientHandshake, Handle, SameFailed
  <2> QED BY <1>12, <1>s, <2>1, CounterSend, OnePacket
         DEF Login, ClientHandshake, ServerSend, Names
<1>13. CASE EnableEncryption
  <2>1. ~enc["server"]
    BY <1>13 DEF EnableEncryption, Step, OrderInv, SettingsInv
  <2>2. sendCtr["server"] = 0 /\ recvCtr["server"] = 0
    BY <1>s, <2>1 DEF CounterInv
  <2>3. /\ UNCHANGED <<sendCtr, recvCtr, wire, staged>>
        /\ enc'["server"] /\ enc'["client"] = enc["client"]
    BY <1>13, <1>s, <2>2 DEF EnableEncryption, Enabled, TypeOK
  <2>4. SameFailed
    BY <1>13, <1>t DEF EnableEncryption, Step, SameFailed
  <2>5. \A t \in Sides : UNCHANGED OnWire(t)
    BY <2>3 DEF OnWire
  <2>6. \A t \in Sides : pc'[Other(t)] # "failed" =>
          Chain(wire'[t], recvCtr'[Other(t)], OnWire(t)')
    <3> TAKE t \in Sides
    <3>1. Other(t) \in Sides
      BY DEF Other, Sides
    <3> QED BY <2>3, <2>4, <2>5, <3>1 DEF CounterInv, SameFailed
  <2>7. /\ \A t \in Sides : ~enc'[t] => sendCtr'[t] = 0 /\ recvCtr'[t] = 0
        /\ staged'.form = "enc" =>
             enc'["server"] /\ sendCtr'["server"] = staged'.ctr + 1
        /\ staged' # NoBatch /\ staged'.form # "enc" => sendCtr'["server"] = 0
    BY <2>3 DEF CounterInv, Sides
  <2> QED BY <2>6, <2>7 DEF CounterInv
<1>14. CASE LateNetworkSettings \/ SendPacksInfo
  <2>1. SameFailed
    BY <1>14, <1>t DEF LateNetworkSettings, SendPacksInfo, Step, SameFailed
  <2> QED BY <1>14, <1>s, <2>1, CounterSend, OnePacket
         DEF LateNetworkSettings, SendPacksInfo, ServerSend, Names
<1>15. CASE ResourcePackResponse
  <2>1. SameFailed
    BY <1>15, <1>t DEF ResourcePackResponse, Handle, SameFailed
  <2>2. /\ \/ ServerSend("resource_pack_stack")
           \/ UNCHANGED <<wire, sendCtr>>
        /\ UNCHANGED <<enc, recvCtr, staged>>
    BY <1>15 DEF ResourcePackResponse
  <2>3. CASE ServerSend("resource_pack_stack")
    BY <1>s, <2>1, <2>2, <2>3, CounterSend, OnePacket DEF ServerSend, Names
  <2> QED BY <2>1, <2>2, <2>3, CounterFrame
<1>16. ASSUME NEW pkts \in Seq(Names), Stage(pkts),
              UNCHANGED <<enc, recvCtr, wire, pc>>
       PROVE  CounterInv'
  <2>1. OnWire("server") = sendCtr["server"] /\ sendCtr["server"] \in Nat
    BY <1>16, <1>s, SideTyped DEF Stage, OutboundFree, NoBatch, OnWire
  <2>2. sendCtr \in [Sides -> Nat]
    BY DEF TypeOK
  <2>3. OnWire("client")' = OnWire("client") /\ OnWire("server")' = OnWire("server")
        /\ (\A t \in Sides : ~enc'[t] => sendCtr'[t] = 0 /\ recvCtr'[t] = 0)
        /\ (staged'.form = "enc" =>
              enc'["server"] /\ sendCtr'["server"] = staged'.ctr + 1)
        /\ (staged'.form # "enc" => sendCtr'["server"] = 0)
    <3>1. CASE enc["server"]
      <4>1. /\ staged'.form = "enc" /\ staged'.ctr = sendCtr["server"]
            /\ sendCtr' = [sendCtr EXCEPT !["server"] = sendCtr["server"] + 1]
        BY <1>16, <3>1 DEF Stage, Encode, Count
      <4>2. /\ sendCtr'["server"] = sendCtr["server"] + 1
            /\ sendCtr'["client"] = sendCtr["client"]
        BY <1>s, <2>2, <4>1
      <4>3. (sendCtr["server"] + 1) - 1 = sendCtr["server"]
        BY <2>1
      <4>4. OnWire("client")' = OnWire("client") /\ OnWire("server")' = OnWire("server")
        BY <2>1, <4>1, <4>2, <4>3 DEF OnWire
      <4>5. \A t \in Sides : ~enc'[t] => sendCtr'[t] = 0 /\ recvCtr'[t] = 0
        BY <1>16, <3>1, <4>2 DEF CounterInv, Sides
      <4> QED BY <1>16, <3>1, <4>1, <4>2, <4>4, <4>5
    <3>2. CASE ~enc["server"]
      <4>1. staged'.form # "enc" /\ sendCtr' = sendCtr
        BY <1>16, <3>2 DEF Stage, Encode, Count, PlainForm
      <4>2. sendCtr["server"] = 0
        BY <1>s, <3>2 DEF CounterInv
      <4>3. OnWire("client")' = OnWire("client") /\ OnWire("server")' = OnWire("server")
        BY <2>1, <4>1 DEF OnWire
      <4> QED BY <1>16, <4>1, <4>2, <4>3 DEF CounterInv
    <3> QED BY <3>1, <3>2
  <2>4. \A t \in Sides : pc'[Other(t)] # "failed" =>
          Chain(wire'[t], recvCtr'[Other(t)], OnWire(t)')
    <3>1. \A t \in Sides : OnWire(t)' = OnWire(t)
      BY <2>3 DEF Sides
    <3> QED BY <1>16, <3>1 DEF CounterInv
  <2> QED BY <2>3, <2>4 DEF CounterInv
<1>17. CASE ServerWrite
  <2>1. PICK n \in Offers : Take(n) /\ Stage(<<n>>)
    BY <1>17 DEF ServerWrite
  <2>2. <<n>> \in Seq(Names)
    BY <2>1, TakeTyped, OnePacket
  <2> QED BY <1>16, <1>17, <2>1, <2>2 DEF ServerWrite
<1>18. CASE ServerFlush
  BY <1>16, <1>18, <1>s, SideTyped DEF ServerFlush
<1>19. CASE PutStaged
  <2>1. /\ staged \in Batches /\ Put("server", staged) /\ staged # NoBatch
        /\ staged' = NoBatch /\ UNCHANGED <<enc, sendCtr, recvCtr, pc>>
    BY <1>19, <1>s, SideTyped DEF PutStaged, OutboundFree
  <2>2. staged'.form = "bare" /\ staged.ctr \in Nat /\ sendCtr["server"] \in Nat
    BY <1>s, <2>1, SideTyped DEF NoBatch, Batches
  <2>3. UNCHANGED OnWire("client") /\ SameFailed
    BY <2>1 DEF OnWire, SameFailed
  <2>4. \/ /\ staged.form = "enc" /\ staged.ctr = OnWire("server")
           /\ OnWire("server")' = OnWire("server") + 1
        \/ staged.form # "enc" /\ OnWire("server") = 0 /\ OnWire("server")' = 0
    <3>1. CASE staged.form = "enc"
      <4>1. sendCtr["server"] = staged.ctr + 1
        BY <3>1 DEF CounterInv
      <4>2. OnWire("server") = sendCtr["server"] - 1
            /\ OnWire("server")' = sendCtr["server"]
        BY <2>1, <2>2, <3>1 DEF OnWire
      <4> QED BY <2>2, <3>1, <4>1, <4>2
    <3>2. CASE staged.form # "enc"
      <4>1. sendCtr["server"] = 0
        BY <2>1, <3>2 DEF CounterInv
      <4> QED BY <2>1, <2>2, <3>2, <4>1 DEF OnWire
    <3> QED BY <3>1, <3>2
  <2>5. \A t \in Sides : pc'[Other(t)] # "failed" =>
          Chain(wire'[t], recvCtr'[Other(t)], OnWire(t)')
    BY <1>s, <2>1, <2>3, <2>4, CounterPut
  <2> QED BY <2>1, <2>2, <2>5 DEF CounterInv
<1>20. CASE UNCHANGED vars
  <2>1. SameFailed
    BY <1>20 DEF vars, SameFailed
  <2> QED BY <1>20, <2>1, CounterFrame DEF vars
<1> QED
  BY <1>s, <1>1, <1>2, <1>3, <1>4, <1>5, <1>6, <1>7, <1>8, <1>9, <1>10, <1>11,
     <1>12, <1>13, <1>14, <1>15, <1>17, <1>18, <1>19, <1>20
     DEF Next, ClientWorker, ServerWorker

-----------------------------------------------------------------------------
(* The forms of the batches.                                               *)

\* The form of a batch that is sent stays right; a wire that loses batches and
\* one that gains a right batch hold right ones.
LEMMA BatchKept ==
    ASSUME UNCHANGED <<version, early>>, NEW b
    PROVE  (ClientBatch(b) => ClientBatch(b)') /\ (ServerBatch(b) => ServerBatch(b)')
BY DEF ClientBatch, ServerBatch, Agreed, PlainForm, Header, Modern

LEMMA WireKept ==
    ASSUME WireInv, UNCHANGED <<version, early>>,
           ToSet(wire'["client"]) \subseteq ToSet(wire["client"]),
           ToSet(wire'["server"]) \subseteq ToSet(wire["server"])
    PROVE  WireInv'
BY BatchKept DEF WireInv

LEMMA WirePut ==
    ASSUME TypeOK, WireInv, NEW s \in Sides, NEW c \in Batches, Put(s, c),
           IF s = "client" THEN ClientBatch(c) ELSE ServerBatch(c),
           UNCHANGED <<version, early>>
    PROVE  WireInv'
<1>1. CASE s = "client"
  <2>1. wire["client"] \in Seq(Batches)
    BY <1>1, SideTyped
  <2>2. /\ wire'["client"] = Append(wire["client"], c)
        /\ wire'["server"] = wire["server"]
    BY <1>1 DEF Put, TypeOK, Sides
  <2>3. ToSet(wire'["client"]) = ToSet(wire["client"]) \cup {c}
    BY <2>1, <2>2, SetAppended
  <2> QED BY <1>1, <2>2, <2>3, BatchKept DEF WireInv
<1>2. CASE s = "server"
  <2>1. wire["server"] \in Seq(Batches)
    BY <1>2, SideTyped
  <2>2. /\ wire'["server"] = Append(wire["server"], c)
        /\ wire'["client"] = wire["client"]
    BY <1>2 DEF Put, TypeOK, Sides
  <2>3. ToSet(wire'["server"]) = ToSet(wire["server"]) \cup {c}
    BY <2>1, <2>2, SetAppended
  <2> QED BY <1>2, <2>2, <2>3, BatchKept DEF WireInv
<1> QED BY <1>1, <1>2 DEF Sides

\* An encrypted batch of one packet other than the handshakes of the server.
LEMMA EncryptedFine ==
    ASSUME NEW s \in Sides, enc[s], NEW m \in Names,
           m # "server_to_client_handshake"
    PROVE  /\ ClientBatch(Encode(s, <<m>>)) /\ ServerBatch(Encode(s, <<m>>))
BY HasOne DEF ClientBatch, ServerBatch, Encode

\* So every wire holds right batches when an encrypted side sends.
LEMMA SendEncrypted ==
    ASSUME TypeOK, WireInv, NEW s \in Sides, enc[s], NEW m \in Names,
           m # "server_to_client_handshake", Send(s, <<m>>),
           UNCHANGED <<version, early>>
    PROVE  WireInv'
<1>1. Encode(s, <<m>>) \in Batches
  BY EncodeTyped, OnePacket
<1> QED BY <1>1, EncryptedFine, WirePut DEF Send

\* Packets of the applications are in no handshake.
LEMMA LooseFine ==
    ASSUME NEW b, ToSet(b.pkts) \subseteq Loose, early = {} => b.form = "enc"
    PROVE  ClientBatch(b) /\ ServerBatch(b)
<1>1. \A n : Has(b.pkts, n) => n \in Loose
  BY HasSet
<1> QED BY <1>1 DEF ClientBatch, ServerBatch, Loose

\* Every step keeps the forms.
LEMMA WireStep ==
    TypeOK /\ OrderInv /\ WireInv /\ QueueInv /\ [Next]_vars => WireInv'
<1> SUFFICES ASSUME TypeOK, OrderInv, WireInv, QueueInv, [Next]_vars PROVE WireInv'
  OBVIOUS
<1>s. /\ "client" \in Sides /\ "server" \in Sides
      /\ Other("client") = "server" /\ Other("server") = "client"
  BY DEF Sides, Other
<1> USE DEF config, crypto, serverVars, clientVars
<1>1. CASE Connected
  <2>1. CASE Modern
    <3> DEFINE c == Encode("client", <<"request_network_settings">>)
    <3>1. c \in Batches /\ Put("client", c)
      BY <1>1, <1>s, <2>1, EncodeTyped, OnePacket DEF Connected, Send, Names
    <3>2. ~enc["client"] /\ ~ready["client"]
      BY <1>1, <2>1 DEF Connected, Step, OrderInv, ClientInv, ServerInv, SettingsInv
    <3>3. c.form = "bare" /\ c.pkts = <<"request_network_settings">>
      BY <3>2 DEF Encode, PlainForm
    <3> HIDE DEF c
    <3>4. ClientBatch(c)
      BY <3>3, HasOne DEF ClientBatch
    <3> QED BY <1>1, <1>s, <3>1, <3>4, WirePut DEF Connected
  <2>2. CASE ~Modern
    BY <1>1, <2>2, WireKept DEF Connected
  <2> QED BY <2>1, <2>2
<1>2. CASE SendLogin
  <2> DEFINE c == Encode("client", <<"login">>)
  <2>1. c \in Batches /\ Put("client", c)
    BY <1>2, <1>s, EncodeTyped, OnePacket DEF SendLogin, Send, Names
  <2>2. ~enc["client"] /\ (Modern => ready["client"])
    BY <1>2 DEF SendLogin, Step, OrderInv, ClientInv, ServerInv, SettingsInv
  <2>3. Header => Modern
    BY DEF Header, Modern
  <2>4. c.form = Agreed /\ c.pkts = <<"login">>
    BY <2>2, <2>3 DEF Encode, PlainForm, Agreed
  <2> HIDE DEF c
  <2>5. ClientBatch(c)
    BY <2>4, HasOne DEF ClientBatch
  <2> QED BY <1>2, <1>s, <2>1, <2>5, WirePut DEF SendLogin
<1>3. CASE StartEncryption
  <2> DEFINE c == [pkts |-> <<"client_to_server_handshake">>, form |-> "enc",
                   ctr |-> 0]
  <2>1. c \in Batches /\ Put("client", c) /\ c.form = "enc"
    BY <1>3, OnePacket DEF StartEncryption, Batches, Names
  <2> HIDE DEF c
  <2>2. ClientBatch(c)
    BY <2>1 DEF ClientBatch
  <2> QED BY <1>3, <1>s, <2>1, <2>2, WirePut DEF StartEncryption
<1>4. CASE NetworkSettings \/ LoginSuccess \/ ClientData \/ Initialized
             \/ ServerData \/ ClientJoin \/ TransitionStatus \/ StackSent
             \/ CacheStatus \/ NetworkSettingsSent \/ ClientQueue \/ ServerQueue
             \/ ServerWrite \/ ServerFlush \/ EnableEncryption
  <2>1. UNCHANGED <<version, early, wire>>
    BY <1>4 DEF NetworkSettings, LoginSuccess, ClientData, Initialized, ServerData,
         ClientJoin, TransitionStatus, StackSent, CacheStatus,
         NetworkSettingsSent, ClientQueue, ServerQueue, ServerWrite, ServerFlush,
         EnableEncryption
  <2> QED BY <2>1, WireKept
<1>5. CASE ResourcePacksInfo
  <2>1. "resource_packs_info" \in Air("server")
    BY <1>5, <1>s, HandledAir DEF ResourcePacksInfo, Names
  <2>2. enc["client"]
    BY <2>1 DEF OrderInv, AirInv, ServerInv, HandshakeDone
  <2>3. /\ Send("client", <<"resource_pack_client_response">>) \/ wire' = wire
        /\ UNCHANGED <<version, early>>
    BY <1>5 DEF ResourcePacksInfo
  <2>4. CASE Send("client", <<"resource_pack_client_response">>)
    BY <1>s, <2>2, <2>3, <2>4, SendEncrypted DEF Names
  <2> QED BY <2>3, <2>4, WireKept
<1>6. CASE ResourcePackStack
  <2>1. "resource_pack_stack" \in Air("server")
    BY <1>6, <1>s, HandledAir DEF ResourcePackStack, Names
  <2>2. enc["client"]
    BY <2>1 DEF OrderInv, AirInv, ServerInv, ClientInv
  <2>3. /\ Send("client", <<"resource_pack_client_response">>) \/ wire' = wire
        /\ UNCHANGED <<version, early>>
    BY <1>6 DEF ResourcePackStack
  <2>4. CASE Send("client", <<"resource_pack_client_response">>)
    BY <1>s, <2>2, <2>3, <2>4, SendEncrypted DEF Names
  <2> QED BY <2>3, <2>4, WireKept
<1>7. CASE StartGame \/ PlayerSpawn
  <2>1. "start_game" \in Air("server") \/ "player_spawn" \in Air("server")
    BY <1>7, <1>s, HandledAir DEF StartGame, PlayerSpawn, Names
  <2>2. enc["client"]
    BY <2>1 DEF OrderInv, AirInv, ServerInv, ClientInv
  <2>3. /\ Send("client", <<"set_local_player_as_initialized">>) \/ wire' = wire
        /\ UNCHANGED <<version, early>>
    BY <1>7 DEF StartGame, PlayerSpawn
  <2>4. CASE Send("client", <<"set_local_player_as_initialized">>)
    BY <1>s, <2>2, <2>3, <2>4, SendEncrypted DEF Names
  <2> QED BY <2>3, <2>4, WireKept
<1>8. CASE ClientPump
  <2> DEFINE c == Encode("client", queue["client"])
  <2>1. /\ c \in Batches /\ c.pkts = queue["client"] /\ Put("client", c)
        /\ queue["client"] # <<>> /\ UNCHANGED <<version, early>>
    BY <1>8, <1>s, SideTyped, EncodeTyped DEF ClientPump, Send
  <2>2. early = {} => c.form = "enc"
    BY <2>1 DEF QueueInv, OrderInv, ClientInv, Encode
  <2> HIDE DEF c
  <2>3. ClientBatch(c)
    BY <2>1, <2>2, LooseFine DEF QueueInv
  <2> QED BY <1>s, <2>1, <2>3, WirePut
<1>9. ASSUME NEW o \in Sides, Receive(o) PROVE WireInv'
  <2> DEFINE s == Other(o)
  <2>1. /\ s \in Sides /\ wire[s] \in Seq(Batches) /\ wire[s] # <<>>
        /\ wire' = [wire EXCEPT ![s] = Tail(wire[s])]
        /\ UNCHANGED <<version, early>>
    BY <1>9 DEF Receive, Other, Sides, TypeOK
  <2>2. ToSet(Tail(wire[s])) \subseteq ToSet(wire[s])
    BY <2>1, SetRest
  <2> HIDE DEF s
  <2>3. \A t \in Sides : ToSet(wire'[t]) \subseteq ToSet(wire[t])
    BY <2>1, <2>2 DEF TypeOK
  <2> QED BY <1>s, <2>1, <2>3, WireKept
<1>10. CASE RequestNetworkSettings
  <2> DEFINE c == [pkts |-> <<"network_settings">>, form |-> "bare", ctr |-> 0]
  <2>1. /\ c \in Batches /\ Put("server", c) /\ c.form = "bare"
        /\ c.pkts = <<"network_settings">>
    BY <1>10, OnePacket DEF RequestNetworkSettings, Batches, Names
  <2> HIDE DEF c
  <2>2. "request_network_settings" \in Air("client")
    BY <1>10, <1>s, HandledAir DEF RequestNetworkSettings, Names
  <2>3. Modern
    BY <2>2 DEF OrderInv, SettingsInv
  <2>4. ServerBatch(c)
    BY <2>1, <2>3, HasOne DEF ServerBatch
  <2> QED BY <1>10, <1>s, <2>1, <2>4, WirePut DEF RequestNetworkSettings
<1>11. CASE Login
  <2> DEFINE c == Encode("server", <<"server_to_client_handshake">>)
  <2>1. c \in Batches /\ Put("server", c)
    BY <1>11, <1>s, EncodeTyped, OnePacket DEF Login, ServerSend, Send, Names
  <2>2. "login" \in Air("client") /\ pc["server"] = "idle"
    BY <1>11, <1>s, HandledAir DEF Login, Handle, Names
  <2>3. ~enc["server"] /\ (Modern => ready["server"])
    BY <2>2 DEF OrderInv, AirInv, SettingsInv, LoginDone
  <2>4. Header => Modern
    BY DEF Header, Modern
  <2>5. c.form = Agreed /\ c.pkts = <<"server_to_client_handshake">>
    BY <2>3, <2>4 DEF Encode, PlainForm, Agreed
  <2>6. Agreed # "enc"
    BY DEF Agreed, PlainForm
  <2> HIDE DEF c
  <2>7. ServerBatch(c)
    BY <2>5, <2>6, HasOne DEF ServerBatch
  <2> QED BY <1>11, <1>s, <2>1, <2>7, WirePut DEF Login
<1>12. CASE LateNetworkSettings
  <2>1. enc["server"]
    BY <1>12 DEF LateNetworkSettings, Step, OrderInv, SettingsInv
  <2> QED BY <1>12, <1>s, <2>1, SendEncrypted DEF LateNetworkSettings, ServerSend, Names
<1>13. CASE ClientHandshake
  <2>1. "client_to_server_handshake" \in Air("client") /\ pc["server"] = "idle"
    BY <1>13, <1>s, HandledAir DEF ClientHandshake, Handle, Names
  <2>2. enc["server"]
    BY <2>1 DEF OrderInv, AirInv, ClientInv, LoginDone
  <2> QED BY <1>13, <1>s, <2>2, SendEncrypted DEF ClientHandshake, ServerSend, Names
<1>14. CASE SendPacksInfo
  <2>1. enc["server"]
    BY <1>14 DEF SendPacksInfo, Step, OrderInv, ServerInv, HandshakeDone
  <2> QED BY <1>14, <1>s, <2>1, SendEncrypted DEF SendPacksInfo, ServerSend, Names
<1>15. CASE ResourcePackResponse
  <2>1. "resource_pack_client_response" \in Air("client")
    BY <1>15, <1>s, HandledAir DEF ResourcePackResponse, Names
  <2>2. packs # "new"
    BY <2>1 DEF OrderInv, AirInv
  <2>3. enc["server"]
    BY <2>2 DEF OrderInv, ServerInv, ClientInv, HandshakeDone
  <2>4. /\ Send("server", <<"resource_pack_stack">>) \/ wire' = wire
        /\ UNCHANGED <<version, early>>
    BY <1>15 DEF ResourcePackResponse, ServerSend
  <2>5. CASE Send("server", <<"resource_pack_stack">>)
    BY <1>s, <2>3, <2>4, <2>5, SendEncrypted DEF Names
  <2> QED BY <2>4, <2>5, WireKept
<1>16. CASE PutStaged
  <2>1. /\ staged \in Batches /\ Put("server", staged) /\ staged # NoBatch
        /\ UNCHANGED <<version, early>>
    BY <1>16, <1>s, SideTyped DEF PutStaged, OutboundFree
  <2>2. ServerBatch(staged)
    BY <2>1, LooseFine DEF QueueInv
  <2> QED BY <1>s, <2>1, <2>2, WirePut
<1>17. CASE UNCHANGED vars
  BY <1>17, WireKept DEF vars
<1> QED
  BY <1>s, <1>1, <1>2, <1>3, <1>4, <1>5, <1>6, <1>7, <1>8, <1>9, <1>10, <1>11,
     <1>12, <1>13, <1>14, <1>15, <1>16, <1>17 DEF Next, ClientWorker, ServerWorker

\* Every step keeps what waits.
LEMMA QueueStep ==
    TypeOK /\ OrderInv /\ QueueInv /\ [Next]_vars => QueueInv'
<1> SUFFICES ASSUME TypeOK, OrderInv, QueueInv, [Next]_vars PROVE QueueInv'
  OBVIOUS
<1>s. "client" \in Sides /\ "server" \in Sides
  BY DEF Sides
<1>e. ToSet(<<>>) = {}
  BY DEF ToSet
<1> USE DEF config, crypto, serverVars, clientVars
<1>1. CASE \/ UNCHANGED vars \/ Receive("client") \/ Receive("server") \/ Connected
           \/ NetworkSettings \/ SendLogin \/ StartEncryption
           \/ ResourcePacksInfo \/ ResourcePackStack \/ StartGame \/ PlayerSpawn
           \/ ClientData
  <2>1. UNCHANGED <<early, queue, staged, joined>>
    BY <1>1 DEF vars, Receive, Connected, NetworkSettings, SendLogin,
         StartEncryption, ResourcePacksInfo, ResourcePackStack, StartGame,
         PlayerSpawn, ClientData
  <2> QED BY <2>1 DEF QueueInv
<1>2. CASE \/ RequestNetworkSettings \/ NetworkSettingsSent \/ Login
           \/ EnableEncryption \/ LateNetworkSettings \/ ClientHandshake
           \/ TransitionStatus \/ SendPacksInfo \/ StackSent \/ Initialized
           \/ ServerData
  <2>1. UNCHANGED <<early, queue, staged, joined>>
    BY <1>2 DEF RequestNetworkSettings, NetworkSettingsSent, Login,
         EnableEncryption, LateNetworkSettings, ClientHandshake,
         TransitionStatus, SendPacksInfo, StackSent, Initialized, ServerData
  <2> QED BY <2>1 DEF QueueInv
<1>3. CASE ClientJoin \/ LoginSuccess \/ ResourcePackResponse
  <2>1. /\ UNCHANGED <<early, queue, staged>>
        /\ \A s \in Sides : joined[s] => joined'[s]
    BY <1>3 DEF ClientJoin, LoginSuccess, ResourcePackResponse, TypeOK
  <2> QED BY <1>s, <2>1 DEF QueueInv
<1>4. CASE CacheStatus \/ ClientQueue
  <2>1. PICK n \in {"data", "client_cache_status"} :
          queue' = [queue EXCEPT !["client"] = Append(@, n)]
    BY <1>4 DEF CacheStatus, ClientQueue
  <2>2. UNCHANGED <<early, staged, joined>>
    BY <1>4 DEF CacheStatus, ClientQueue
  <2>3. early = {} => joined["client"]
    BY <1>4 DEF CacheStatus, ClientQueue, Step, MaySend, OrderInv, ClientInv
  <2>4. queue["client"] \in Seq(Names) /\ n \in Names
    BY <1>s, SideTyped DEF Names
  <2>5. /\ queue'["client"] = Append(queue["client"], n)
        /\ queue'["server"] = queue["server"]
    BY <1>s, <2>1 DEF TypeOK
  <2>6. ToSet(queue'["client"]) = ToSet(queue["client"]) \cup {n}
    BY <2>4, <2>5, SetAppended
  <2> QED BY <2>2, <2>3, <2>5, <2>6 DEF QueueInv, Loose
<1>5. CASE ClientPump
  <2>1. /\ queue'["client"] = <<>> /\ queue'["server"] = queue["server"]
        /\ UNCHANGED <<early, staged, joined>>
    BY <1>5, <1>s DEF ClientPump, TypeOK
  <2> QED BY <1>e, <2>1 DEF QueueInv
<1>6. CASE ServerWrite
  <2>1. PICK n \in Offers : Take(n) /\ Stage(<<n>>)
    BY <1>6 DEF ServerWrite
  <2>2. n \in Loose /\ n \in Names /\ (early = {} => joined["server"])
    BY DEF Offers, MaySend, Loose, TypeOK, Names
  <2>3. /\ staged'.pkts = <<n>> /\ (enc["server"] => staged'.form = "enc")
        /\ UNCHANGED <<early, queue, joined>>
    BY <1>6, <2>1 DEF ServerWrite, Stage, Encode
  <2>4. joined["server"] => enc["server"]
    BY DEF OrderInv, ServerInv, ClientInv, HandshakeDone
  <2>5. ToSet(<<n>>) = {n}
    BY DEF ToSet
  <2> QED BY <2>2, <2>3, <2>4, <2>5 DEF QueueInv
<1>7. CASE ServerQueue
  <2>1. PICK n \in Offers : queue' = [queue EXCEPT !["server"] = Append(@, n)]
    BY <1>7 DEF ServerQueue
  <2>2. n \in Loose /\ n \in Names /\ (early = {} => joined["server"])
    BY DEF Offers, MaySend, Loose, TypeOK, Names
  <2>3. UNCHANGED <<early, staged, joined>>
    BY <1>7 DEF ServerQueue
  <2>4. queue["server"] \in Seq(Names)
    BY <1>s, SideTyped
  <2>5. /\ queue'["server"] = Append(queue["server"], n)
        /\ queue'["client"] = queue["client"]
    BY <1>s, <2>1 DEF TypeOK
  <2>6. ToSet(queue'["server"]) = ToSet(queue["server"]) \cup {n}
    BY <2>2, <2>4, <2>5, SetAppended
  <2> QED BY <2>2, <2>3, <2>5, <2>6 DEF QueueInv
<1>8. CASE ServerFlush
  <2>1. /\ staged'.pkts = queue["server"] /\ (enc["server"] => staged'.form = "enc")
        /\ queue["server"] # <<>>
        /\ UNCHANGED <<early, joined>>
    BY <1>8 DEF ServerFlush, Stage, Encode
  <2>2. queue'["server"] = <<>> /\ queue'["client"] = queue["client"]
    BY <1>8, <1>s DEF ServerFlush, TypeOK
  <2>3. joined["server"] => enc["server"]
    BY DEF OrderInv, ServerInv, ClientInv, HandshakeDone
  <2> QED BY <1>e, <2>1, <2>2, <2>3 DEF QueueInv
<1>9. CASE PutStaged
  <2>1. /\ staged' = NoBatch /\ staged'.pkts = <<>>
        /\ UNCHANGED <<early, queue, joined>>
    BY <1>9 DEF PutStaged, NoBatch
  <2> QED BY <1>e, <2>1 DEF QueueInv
<1> QED
  BY <1>1, <1>2, <1>3, <1>4, <1>5, <1>6, <1>7, <1>8, <1>9
     DEF Next, ClientWorker, ServerWorker

-----------------------------------------------------------------------------
(* What is read.                                                           *)

\* A packet alone in the first batch of the wire is on its way.
LEMMA HeadInAir ==
    ASSUME TypeOK, NEW s \in Sides, wire[s] # <<>>, NEW n \in Names,
           Head(wire[s]).pkts = <<n>>
    PROVE  n \in Air(s)
<1>1. Has(Head(wire[s]).pkts, n)
  BY HasOne
<1>2. Carries(wire[s], n)
  BY <1>1, SideTyped, WireRest
<1> QED BY <1>2 DEF Air, In

\* A reader that has begun to count reads every batch.
LEMMA CountingReads ==
    ASSUME TypeOK, CounterInv, NEW o \in Sides, Receive(o), enc[o], recvCtr[o] > 0
    PROVE  Decodes(o, Head(wire[Other(o)]))
<1> DEFINE s == Other(o)
           w == wire[s]
<1>1. s \in Sides /\ Other(s) = o /\ pc[o] = "idle" /\ w # <<>>
  BY DEF Other, Sides, Receive
<1>2. w \in Seq(Batches) /\ recvCtr[o] \in Nat /\ OnWire(s) \in Nat
  BY <1>1, SideTyped, OnWireTyped
<1>3. Chain(w, recvCtr[o], OnWire(s))
  BY <1>1 DEF CounterInv
<1> QED BY <1>1, <1>2, <1>3, ChainRead DEF Decodes

\* A batch with an encrypted form comes from a side that encrypts, and with no
\* plain batch behind it.
LEMMA EncryptedHead ==
    ASSUME TypeOK, CounterInv, NEW o \in Sides, Receive(o),
           Head(wire[Other(o)]).form = "enc"
    PROVE  /\ enc[Other(o)] /\ (enc[o] => Decodes(o, Head(wire[Other(o)])))
           /\ \A b \in ToSet(wire[Other(o)]) : b.form = "enc"
<1> DEFINE s == Other(o)
           w == wire[s]
<1>1. s \in Sides /\ Other(s) = o /\ pc[o] = "idle" /\ w # <<>>
  BY DEF Other, Sides, Receive
<1>2. w \in Seq(Batches) /\ recvCtr[o] \in Nat /\ OnWire(s) \in Nat
  BY <1>1, SideTyped, OnWireTyped
<1>3. Chain(w, recvCtr[o], OnWire(s))
  BY <1>1 DEF CounterInv
<1>4. /\ Head(w).ctr = recvCtr[o] /\ Chain(Tail(w), recvCtr[o] + 1, OnWire(s))
      /\ \A b \in ToSet(w) : b.form = "enc"
  BY <1>1, <1>2, <1>3, ChainRead
<1>5. Tail(w) \in Seq(Batches) /\ recvCtr[o] + 1 \in Nat
  BY <1>1, <1>2
<1>6. recvCtr[o] + 1 <= OnWire(s)
  BY <1>2, <1>4, <1>5, ChainCount
<1>7. enc[s]
  BY <1>1, <1>2, <1>6, OnWireTyped
<1> QED BY <1>4, <1>7 DEF Decodes

\* Without early senders the server reads every batch of the client.
LEMMA ServerReads ==
    ASSUME TypeOK, OrderInv, CounterInv, WireInv, early = {}, Receive("server")
    PROVE  Decodes("server", Head(wire["client"]))
<1> DEFINE b == Head(wire["client"])
<1>1. /\ "server" \in Sides /\ "client" \in Sides /\ Other("server") = "client"
      /\ pc["server"] = "idle" /\ wire["client"] # <<>>
  BY DEF Sides, Other, Receive
<1>2. ClientBatch(b)
  BY <1>1, SideTyped, SetRest DEF WireInv
<1>3. CASE b.form = "enc"
  <2>1. enc["client"] /\ (enc["server"] => Decodes("server", b))
    BY <1>1, <1>3, EncryptedHead
  <2> QED BY <1>1, <2>1 DEF OrderInv, ClientInv, LoginDone
<1>4. CASE b.pkts = <<"request_network_settings">> /\ b.form = "bare"
  <2>1. "request_network_settings" \in Air("client")
    BY <1>1, <1>4, HeadInAir DEF Names
  <2>2. ~ready["server"] /\ ~enc["server"]
    BY <2>1 DEF OrderInv, SettingsInv, ServerInv, LoginDone
  <2> QED BY <1>4, <2>2 DEF Decodes, PlainForm
<1>5. CASE b.pkts = <<"login">> /\ b.form = Agreed
  <2>1. "login" \in Air("client")
    BY <1>1, <1>5, HeadInAir DEF Names
  <2>2. ~enc["server"] /\ (Modern => ready["server"])
    BY <1>1, <2>1 DEF OrderInv, AirInv, SettingsInv, LoginDone
  <2>3. Header => Modern
    BY DEF Header, Modern
  <2> QED BY <1>5, <2>2, <2>3 DEF Decodes, Agreed, PlainForm
<1> HIDE DEF b
<1> QED BY <1>2, <1>3, <1>4, <1>5 DEF ClientBatch, b

\* Without early senders the client reads every batch of the server.
LEMMA ClientReads ==
    ASSUME TypeOK, OrderInv, CodecInv, early = {}, Receive("client")
    PROVE  Decodes("client", Head(wire["server"]))
<1> DEFINE b == Head(wire["server"])
<1>1. /\ "server" \in Sides /\ "client" \in Sides /\ Other("client") = "server"
      /\ pc["client"] = "idle" /\ wire["server"] # <<>> /\ inbox["client"] = <<>>
  BY DEF Sides, Other, Receive
<1>2. ServerBatch(b)
  BY <1>1, SideTyped, SetRest DEF CodecInv, WireInv
<1>3. CASE b.form = "enc"
  <2>1. /\ enc["server"] /\ (enc["client"] => Decodes("client", b))
        /\ \A c \in ToSet(wire["server"]) : c.form = "enc"
    BY <1>1, <1>3, EncryptedHead DEF CodecInv
  <2>2. CASE ~enc["client"]
    <3>1. Carries(wire["server"], "server_to_client_handshake")
      BY <1>1, <2>1, <2>2, HasNone DEF CodecInv, ReadInv, LoginDone
    <3>2. PICK i \in DOMAIN wire["server"] :
            Has(wire["server"][i].pkts, "server_to_client_handshake")
      BY <3>1 DEF Carries
    <3>3. wire["server"][i] \in ToSet(wire["server"])
      BY DEF ToSet
    <3> QED BY <2>1, <3>2, <3>3 DEF CodecInv, WireInv, ServerBatch
  <2> QED BY <2>1, <2>2
<1>4. CASE b.pkts = <<"network_settings">> /\ b.form = "bare" /\ Modern
  <2>1. "network_settings" \in Air("server")
    BY <1>1, <1>4, HeadInAir DEF Names
  <2>2. ~ready["client"]
    BY <1>4, <2>1 DEF OrderInv, SettingsInv
  <2>3. ~enc["client"]
    BY <1>4, <2>2 DEF OrderInv, SettingsInv, ServerInv, ClientInv
  <2> QED BY <1>4, <2>2, <2>3 DEF Decodes, PlainForm
<1>5. CASE b.pkts = <<"server_to_client_handshake">> /\ b.form = Agreed
  <2>1. "server_to_client_handshake" \in Air("server")
    BY <1>1, <1>5, HeadInAir DEF Names
  <2>2. ~enc["client"] /\ (Modern => ready["client"])
    BY <1>1, <2>1 DEF OrderInv, AirInv, SettingsInv
  <2>3. Header => Modern
    BY DEF Header, Modern
  <2> QED BY <1>5, <2>2, <2>3 DEF Decodes, Agreed, PlainForm
<1> HIDE DEF b
<1> QED BY <1>2, <1>3, <1>4, <1>5 DEF ServerBatch, b

\* A handled packet leaves the batch, the others stay.
LEMMA HandleHas ==
    ASSUME TypeOK, NEW s \in Sides, NEW n, NEW l, Handle(s, n, l), NEW t \in Sides,
           NEW m
    PROVE  /\ Has(inbox'[t], m) => Has(inbox[t], m)
           /\ Has(inbox[t], m) /\ ~(t = s /\ m = n) => Has(inbox'[t], m)
<1>1. /\ inbox[s] \in Seq(Names) /\ inbox[s] # <<>> /\ Head(inbox[s]) = n
      /\ inbox'[s] = Tail(inbox[s])
      /\ t # s => inbox'[t] = inbox[t]
  BY DEF Handle, TypeOK
<1>2. CASE t = s
  BY <1>1, <1>2, HasRest
<1>3. CASE t # s
  BY <1>1, <1>3
<1> QED BY <1>2, <1>3

\* What the wire of the server carries stays there until it is read.
LEMMA PutCarries ==
    ASSUME TypeOK, NEW s \in Sides, NEW c \in Batches, Put(s, c), NEW n
    PROVE  /\ Carries(wire["server"], n) => Carries(wire'["server"], n)
           /\ s = "server" /\ Has(c.pkts, n) => Carries(wire'["server"], n)
<1>1. "server" \in Sides /\ wire["server"] \in Seq(Batches)
  BY SideTyped DEF Sides
<1>2. CASE s = "server"
  <2>1. wire'["server"] = Append(wire["server"], c)
    BY <1>1, <1>2 DEF Put, TypeOK
  <2> QED BY <1>1, <2>1, WireAppended
<1>3. CASE s # "server"
  BY <1>1, <1>3 DEF Put, TypeOK
<1> QED BY <1>2, <1>3

LEMMA SendCarries ==
    ASSUME TypeOK, NEW s \in Sides, NEW pkts \in Seq(Names), Send(s, pkts), NEW n,
           Carries(wire["server"], n)
    PROVE  Carries(wire'["server"], n)
BY EncodeTyped, PutCarries DEF Send

\* A step that reads nothing and switches nothing.
LEMMA ReadFrame ==
    ASSUME ReadInv, SameFailed, UNCHANGED <<early, enc, recvCtr>>,
           HandshakeDone' => HandshakeDone, LoginDone' => LoginDone,
           packs' # "new" => packs # "new",
           Has(inbox'["server"], "client_to_server_handshake") =>
             Has(inbox["server"], "client_to_server_handshake"),
           Has(inbox'["client"], "resource_packs_info") =>
             Has(inbox["client"], "resource_packs_info"),
           Has(inbox["client"], "server_to_client_handshake") =>
             Has(inbox'["client"], "server_to_client_handshake"),
           Carries(wire["server"], "server_to_client_handshake") =>
             Carries(wire'["server"], "server_to_client_handshake")
    PROVE  ReadInv'
<1>1. /\ pc'["client"] = "failed" <=> pc["client"] = "failed"
      /\ pc'["server"] = "failed" <=> pc["server"] = "failed"
  BY DEF SameFailed, Sides
<1> QED BY <1>1 DEF ReadInv

\* Every step keeps what is read.
LEMMA ReadStep ==
    TypeOK /\ OrderInv /\ CodecInv /\ [Next]_vars => ReadInv'
<1> SUFFICES ASSUME TypeOK, OrderInv, CodecInv, [Next]_vars PROVE ReadInv'
  OBVIOUS
<1>s. /\ "client" \in Sides /\ "server" \in Sides
      /\ Other("client") = "server" /\ Other("server") = "client"
  BY DEF Sides, Other
<1>t. /\ pc \in [Sides -> {"start", "idle", "login", "joining", "cache",
                           "ready", "enable", "late", "status", "packs",
                           "stack", "failed"}]
      /\ status \in [Sides -> {"Connecting", "Authenticating", "Initializing",
                               "Initialized"}]
      /\ recvCtr \in [Sides -> Nat] /\ enc \in [Sides -> BOOLEAN]
  BY DEF TypeOK
<1>r. CounterInv /\ WireInv /\ QueueInv /\ ReadInv
  BY DEF CodecInv
<1> USE DEF config, crypto, serverVars, clientVars
<1>1. CASE Connected
  <2>1. SameFailed /\ UNCHANGED <<early, enc, recvCtr>>
    BY <1>1, <1>t DEF Connected, Step, SameFailed
  <2>2. /\ HandshakeDone' => HandshakeDone
        /\ LoginDone' => LoginDone
        /\ packs' # "new" => packs # "new"
    BY <1>1, <1>s, <1>t DEF Connected, Step, HandshakeDone, LoginDone
  <2>3. inbox' = inbox
    BY <1>1 DEF Connected, Step
  <2>4. Carries(wire["server"], "server_to_client_handshake") =>
          Carries(wire'["server"], "server_to_client_handshake")
    <3>1. Send("client", <<"request_network_settings">>) \/ wire' = wire
      BY <1>1 DEF Connected, ServerSend
    <3>2. <<"request_network_settings">> \in Seq(Names)
      BY OnePacket DEF Names
    <3>3. CASE Send("client", <<"request_network_settings">>)
      BY <1>s, <3>2, <3>3, SendCarries
    <3> QED BY <3>1, <3>3
  <2> QED BY <1>r, <2>1, <2>2, <2>3, <2>4, ReadFrame
<1>2. CASE NetworkSettings
  <2>1. SameFailed /\ UNCHANGED <<early, enc, recvCtr>>
    BY <1>2, <1>t DEF NetworkSettings, Handle, SameFailed
  <2>2. /\ HandshakeDone' => HandshakeDone
        /\ LoginDone' => LoginDone
        /\ packs' # "new" => packs # "new"
    BY <1>2, <1>s, <1>t DEF NetworkSettings, Handle, HandshakeDone, LoginDone
  <2>3. /\ Has(inbox'["server"], "client_to_server_handshake") =>
             Has(inbox["server"], "client_to_server_handshake")
        /\ Has(inbox'["client"], "resource_packs_info") =>
             Has(inbox["client"], "resource_packs_info")
        /\ Has(inbox["client"], "server_to_client_handshake") =>
             Has(inbox'["client"], "server_to_client_handshake")
    BY <1>2, <1>s, HandleHas DEF NetworkSettings
  <2>4. wire' = wire
    BY <1>2 DEF NetworkSettings
  <2> QED BY <1>r, <2>1, <2>2, <2>3, <2>4, ReadFrame
<1>3. CASE SendLogin
  <2>1. SameFailed /\ UNCHANGED <<early, enc, recvCtr>>
    BY <1>3, <1>t DEF SendLogin, Step, SameFailed
  <2>2. /\ HandshakeDone' => HandshakeDone
        /\ LoginDone' => LoginDone
        /\ packs' # "new" => packs # "new"
    BY <1>3, <1>s, <1>t DEF SendLogin, Step, HandshakeDone, LoginDone
  <2>3. inbox' = inbox
    BY <1>3 DEF SendLogin, Step
  <2>4. Carries(wire["server"], "server_to_client_handshake") =>
          Carries(wire'["server"], "server_to_client_handshake")
    <3>1. Send("client", <<"login">>) \/ wire' = wire
      BY <1>3 DEF SendLogin, ServerSend
    <3>2. <<"login">> \in Seq(Names)
      BY OnePacket DEF Names
    <3>3. CASE Send("client", <<"login">>)
      BY <1>s, <3>2, <3>3, SendCarries
    <3> QED BY <3>1, <3>3
  <2> QED BY <1>r, <2>1, <2>2, <2>3, <2>4, ReadFrame
<1>4. CASE ClientJoin
  <2>1. SameFailed /\ UNCHANGED <<early, enc, recvCtr>>
    BY <1>4, <1>t DEF ClientJoin, Step, SameFailed
  <2>2. /\ HandshakeDone' => HandshakeDone
        /\ LoginDone' => LoginDone
        /\ packs' # "new" => packs # "new"
    BY <1>4, <1>s, <1>t DEF ClientJoin, Step, HandshakeDone, LoginDone
  <2>3. inbox' = inbox
    BY <1>4 DEF ClientJoin, Step
  <2>4. wire' = wire
    BY <1>4 DEF ClientJoin
  <2> QED BY <1>r, <2>1, <2>2, <2>3, <2>4, ReadFrame
<1>5. CASE LoginSuccess
  <2>1. SameFailed /\ UNCHANGED <<early, enc, recvCtr>>
    BY <1>5, <1>t DEF LoginSuccess, Handle, SameFailed
  <2>2. /\ HandshakeDone' => HandshakeDone
        /\ LoginDone' => LoginDone
        /\ packs' # "new" => packs # "new"
    BY <1>5, <1>s, <1>t DEF LoginSuccess, Handle, HandshakeDone, LoginDone
  <2>3. /\ Has(inbox'["server"], "client_to_server_handshake") =>
             Has(inbox["server"], "client_to_server_handshake")
        /\ Has(inbox'["client"], "resource_packs_info") =>
             Has(inbox["client"], "resource_packs_info")
        /\ Has(inbox["client"], "server_to_client_handshake") =>
             Has(inbox'["client"], "server_to_client_handshake")
    BY <1>5, <1>s, HandleHas DEF LoginSuccess
  <2>4. wire' = wire
    BY <1>5 DEF LoginSuccess
  <2> QED BY <1>r, <2>1, <2>2, <2>3, <2>4, ReadFrame
<1>6. CASE ResourcePackStack
  <2>1. SameFailed /\ UNCHANGED <<early, enc, recvCtr>>
    BY <1>6, <1>t DEF ResourcePackStack, Handle, SameFailed
  <2>2. /\ HandshakeDone' => HandshakeDone
        /\ LoginDone' => LoginDone
        /\ packs' # "new" => packs # "new"
    BY <1>6, <1>s, <1>t DEF ResourcePackStack, Handle, HandshakeDone, LoginDone
  <2>3. /\ Has(inbox'["server"], "client_to_server_handshake") =>
             Has(inbox["server"], "client_to_server_handshake")
        /\ Has(inbox'["client"], "resource_packs_info") =>
             Has(inbox["client"], "resource_packs_info")
        /\ Has(inbox["client"], "server_to_client_handshake") =>
             Has(inbox'["client"], "server_to_client_handshake")
    BY <1>6, <1>s, HandleHas DEF ResourcePackStack
  <2>4. Carries(wire["server"], "server_to_client_handshake") =>
          Carries(wire'["server"], "server_to_client_handshake")
    <3>1. Send("client", <<"resource_pack_client_response">>) \/ wire' = wire
      BY <1>6 DEF ResourcePackStack, ServerSend
    <3>2. <<"resource_pack_client_response">> \in Seq(Names)
      BY OnePacket DEF Names
    <3>3. CASE Send("client", <<"resource_pack_client_response">>)
      BY <1>s, <3>2, <3>3, SendCarries
    <3> QED BY <3>1, <3>3
  <2> QED BY <1>r, <2>1, <2>2, <2>3, <2>4, ReadFrame
<1>7. CASE CacheStatus
  <2>1. SameFailed /\ UNCHANGED <<early, enc, recvCtr>>
    BY <1>7, <1>t DEF CacheStatus, Step, SameFailed
  <2>2. /\ HandshakeDone' => HandshakeDone
        /\ LoginDone' => LoginDone
        /\ packs' # "new" => packs # "new"
    BY <1>7, <1>s, <1>t DEF CacheStatus, Step, HandshakeDone, LoginDone
  <2>3. inbox' = inbox
    BY <1>7 DEF CacheStatus, Step
  <2>4. wire' = wire
    BY <1>7 DEF CacheStatus
  <2> QED BY <1>r, <2>1, <2>2, <2>3, <2>4, ReadFrame
<1>8. CASE StartGame
  <2>1. SameFailed /\ UNCHANGED <<early, enc, recvCtr>>
    BY <1>8, <1>t DEF StartGame, Handle, SameFailed
  <2>2. /\ HandshakeDone' => HandshakeDone
        /\ LoginDone' => LoginDone
        /\ packs' # "new" => packs # "new"
    BY <1>8, <1>s, <1>t DEF StartGame, Handle, HandshakeDone, LoginDone
  <2>3. /\ Has(inbox'["server"], "client_to_server_handshake") =>
             Has(inbox["server"], "client_to_server_handshake")
        /\ Has(inbox'["client"], "resource_packs_info") =>
             Has(inbox["client"], "resource_packs_info")
        /\ Has(inbox["client"], "server_to_client_handshake") =>
             Has(inbox'["client"], "server_to_client_handshake")
    BY <1>8, <1>s, HandleHas DEF StartGame
  <2>4. Carries(wire["server"], "server_to_client_handshake") =>
          Carries(wire'["server"], "server_to_client_handshake")
    <3>1. Send("client", <<"set_local_player_as_initialized">>) \/ wire' = wire
      BY <1>8 DEF StartGame, ServerSend
    <3>2. <<"set_local_player_as_initialized">> \in Seq(Names)
      BY OnePacket DEF Names
    <3>3. CASE Send("client", <<"set_local_player_as_initialized">>)
      BY <1>s, <3>2, <3>3, SendCarries
    <3> QED BY <3>1, <3>3
  <2> QED BY <1>r, <2>1, <2>2, <2>3, <2>4, ReadFrame
<1>9. CASE PlayerSpawn
  <2>1. SameFailed /\ UNCHANGED <<early, enc, recvCtr>>
    BY <1>9, <1>t DEF PlayerSpawn, Handle, SameFailed
  <2>2. /\ HandshakeDone' => HandshakeDone
        /\ LoginDone' => LoginDone
        /\ packs' # "new" => packs # "new"
    BY <1>9, <1>s, <1>t DEF PlayerSpawn, Handle, HandshakeDone, LoginDone
  <2>3. /\ Has(inbox'["server"], "client_to_server_handshake") =>
             Has(inbox["server"], "client_to_server_handshake")
        /\ Has(inbox'["client"], "resource_packs_info") =>
             Has(inbox["client"], "resource_packs_info")
        /\ Has(inbox["client"], "server_to_client_handshake") =>
             Has(inbox'["client"], "server_to_client_handshake")
    BY <1>9, <1>s, HandleHas DEF PlayerSpawn
  <2>4. Carries(wire["server"], "server_to_client_handshake") =>
          Carries(wire'["server"], "server_to_client_handshake")
    <3>1. Send("client", <<"set_local_player_as_initialized">>) \/ wire' = wire
      BY <1>9 DEF PlayerSpawn, ServerSend
    <3>2. <<"set_local_player_as_initialized">> \in Seq(Names)
      BY OnePacket DEF Names
    <3>3. CASE Send("client", <<"set_local_player_as_initialized">>)
      BY <1>s, <3>2, <3>3, SendCarries
    <3> QED BY <3>1, <3>3
  <2> QED BY <1>r, <2>1, <2>2, <2>3, <2>4, ReadFrame
<1>10. CASE ClientData
  <2>1. SameFailed /\ UNCHANGED <<early, enc, recvCtr>>
    BY <1>10, <1>t DEF ClientData, Handle, SameFailed
  <2>2. /\ HandshakeDone' => HandshakeDone
        /\ LoginDone' => LoginDone
        /\ packs' # "new" => packs # "new"
    BY <1>10, <1>s, <1>t DEF ClientData, Handle, HandshakeDone, LoginDone
  <2>3. /\ Has(inbox'["server"], "client_to_server_handshake") =>
             Has(inbox["server"], "client_to_server_handshake")
        /\ Has(inbox'["client"], "resource_packs_info") =>
             Has(inbox["client"], "resource_packs_info")
        /\ Has(inbox["client"], "server_to_client_handshake") =>
             Has(inbox'["client"], "server_to_client_handshake")
    BY <1>10, <1>s, HandleHas DEF ClientData
  <2>4. wire' = wire
    BY <1>10 DEF ClientData
  <2> QED BY <1>r, <2>1, <2>2, <2>3, <2>4, ReadFrame
<1>11. CASE ClientQueue
  <2>1. SameFailed /\ UNCHANGED <<early, enc, recvCtr>>
    BY <1>11, <1>t DEF ClientQueue, SameFailed
  <2>2. /\ HandshakeDone' => HandshakeDone
        /\ LoginDone' => LoginDone
        /\ packs' # "new" => packs # "new"
    BY <1>11, <1>s, <1>t DEF ClientQueue, HandshakeDone, LoginDone
  <2>3. inbox' = inbox
    BY <1>11 DEF ClientQueue
  <2>4. wire' = wire
    BY <1>11 DEF ClientQueue
  <2> QED BY <1>r, <2>1, <2>2, <2>3, <2>4, ReadFrame
<1>12. CASE NetworkSettingsSent
  <2>1. SameFailed /\ UNCHANGED <<early, enc, recvCtr>>
    BY <1>12, <1>t DEF NetworkSettingsSent, Step, SameFailed
  <2>2. /\ HandshakeDone' => HandshakeDone
        /\ LoginDone' => LoginDone
        /\ packs' # "new" => packs # "new"
    BY <1>12, <1>s, <1>t DEF NetworkSettingsSent, Step, HandshakeDone, LoginDone
  <2>3. inbox' = inbox
    BY <1>12 DEF NetworkSettingsSent, Step
  <2>4. wire' = wire
    BY <1>12 DEF NetworkSettingsSent
  <2> QED BY <1>r, <2>1, <2>2, <2>3, <2>4, ReadFrame
<1>13. CASE LateNetworkSettings
  <2>1. SameFailed /\ UNCHANGED <<early, enc, recvCtr>>
    BY <1>13, <1>t DEF LateNetworkSettings, Step, SameFailed
  <2>2. /\ HandshakeDone' => HandshakeDone
        /\ LoginDone' => LoginDone
        /\ packs' # "new" => packs # "new"
    BY <1>13, <1>s, <1>t DEF LateNetworkSettings, Step, HandshakeDone, LoginDone
  <2>3. inbox' = inbox
    BY <1>13 DEF LateNetworkSettings, Step
  <2>4. Carries(wire["server"], "server_to_client_handshake") =>
          Carries(wire'["server"], "server_to_client_handshake")
    <3>1. Send("server", <<"network_settings">>) \/ wire' = wire
      BY <1>13 DEF LateNetworkSettings, ServerSend
    <3>2. <<"network_settings">> \in Seq(Names)
      BY OnePacket DEF Names
    <3>3. CASE Send("server", <<"network_settings">>)
      BY <1>s, <3>2, <3>3, SendCarries
    <3> QED BY <3>1, <3>3
  <2> QED BY <1>r, <2>1, <2>2, <2>3, <2>4, ReadFrame
<1>14. CASE TransitionStatus
  <2>1. SameFailed /\ UNCHANGED <<early, enc, recvCtr>>
    BY <1>14, <1>t DEF TransitionStatus, Step, SameFailed
  <2>2. /\ HandshakeDone' => HandshakeDone
        /\ LoginDone' => LoginDone
        /\ packs' # "new" => packs # "new"
    BY <1>14, <1>s, <1>t DEF TransitionStatus, Step, HandshakeDone, LoginDone
  <2>3. inbox' = inbox
    BY <1>14 DEF TransitionStatus, Step
  <2>4. wire' = wire
    BY <1>14 DEF TransitionStatus
  <2> QED BY <1>r, <2>1, <2>2, <2>3, <2>4, ReadFrame
<1>15. CASE SendPacksInfo
  <2>1. SameFailed /\ UNCHANGED <<early, enc, recvCtr>>
    BY <1>15, <1>t DEF SendPacksInfo, Step, SameFailed
  <2>2. /\ HandshakeDone' => HandshakeDone
        /\ LoginDone' => LoginDone
        /\ packs' # "new" => packs # "new"
    BY <1>15, <1>s, <1>t DEF SendPacksInfo, Step, HandshakeDone, LoginDone
  <2>3. inbox' = inbox
    BY <1>15 DEF SendPacksInfo, Step
  <2>4. Carries(wire["server"], "server_to_client_handshake") =>
          Carries(wire'["server"], "server_to_client_handshake")
    <3>1. Send("server", <<"resource_packs_info">>) \/ wire' = wire
      BY <1>15 DEF SendPacksInfo, ServerSend
    <3>2. <<"resource_packs_info">> \in Seq(Names)
      BY OnePacket DEF Names
    <3>3. CASE Send("server", <<"resource_packs_info">>)
      BY <1>s, <3>2, <3>3, SendCarries
    <3> QED BY <3>1, <3>3
  <2> QED BY <1>r, <2>1, <2>2, <2>3, <2>4, ReadFrame
<1>16. CASE ResourcePackResponse
  <2>1. SameFailed /\ UNCHANGED <<early, enc, recvCtr>>
    BY <1>16, <1>t DEF ResourcePackResponse, Handle, SameFailed
  <2>2. /\ HandshakeDone' => HandshakeDone
        /\ LoginDone' => LoginDone
        /\ packs' # "new" => packs # "new"
    BY <1>16, <1>s, <1>t DEF ResourcePackResponse, Handle, HandshakeDone, LoginDone
  <2>3. /\ Has(inbox'["server"], "client_to_server_handshake") =>
             Has(inbox["server"], "client_to_server_handshake")
        /\ Has(inbox'["client"], "resource_packs_info") =>
             Has(inbox["client"], "resource_packs_info")
        /\ Has(inbox["client"], "server_to_client_handshake") =>
             Has(inbox'["client"], "server_to_client_handshake")
    BY <1>16, <1>s, HandleHas DEF ResourcePackResponse
  <2>4. Carries(wire["server"], "server_to_client_handshake") =>
          Carries(wire'["server"], "server_to_client_handshake")
    <3>1. Send("server", <<"resource_pack_stack">>) \/ wire' = wire
      BY <1>16 DEF ResourcePackResponse, ServerSend
    <3>2. <<"resource_pack_stack">> \in Seq(Names)
      BY OnePacket DEF Names
    <3>3. CASE Send("server", <<"resource_pack_stack">>)
      BY <1>s, <3>2, <3>3, SendCarries
    <3> QED BY <3>1, <3>3
  <2> QED BY <1>r, <2>1, <2>2, <2>3, <2>4, ReadFrame
<1>17. CASE StackSent
  <2>1. SameFailed /\ UNCHANGED <<early, enc, recvCtr>>
    BY <1>17, <1>t DEF StackSent, Step, SameFailed
  <2>2. /\ HandshakeDone' => HandshakeDone
        /\ LoginDone' => LoginDone
        /\ packs' # "new" => packs # "new"
    BY <1>17, <1>s, <1>t DEF StackSent, Step, HandshakeDone, LoginDone
  <2>3. inbox' = inbox
    BY <1>17 DEF StackSent, Step
  <2>4. wire' = wire
    BY <1>17 DEF StackSent
  <2> QED BY <1>r, <2>1, <2>2, <2>3, <2>4, ReadFrame
<1>18. CASE ServerData
  <2>1. SameFailed /\ UNCHANGED <<early, enc, recvCtr>>
    BY <1>18, <1>t DEF ServerData, Handle, SameFailed
  <2>2. /\ HandshakeDone' => HandshakeDone
        /\ LoginDone' => LoginDone
        /\ packs' # "new" => packs # "new"
    BY <1>18, <1>s, <1>t DEF ServerData, Handle, HandshakeDone, LoginDone
  <2>3. /\ Has(inbox'["server"], "client_to_server_handshake") =>
             Has(inbox["server"], "client_to_server_handshake")
        /\ Has(inbox'["client"], "resource_packs_info") =>
             Has(inbox["client"], "resource_packs_info")
        /\ Has(inbox["client"], "server_to_client_handshake") =>
             Has(inbox'["client"], "server_to_client_handshake")
    BY <1>18, <1>s, HandleHas DEF ServerData
  <2>4. wire' = wire
    BY <1>18 DEF ServerData
  <2> QED BY <1>r, <2>1, <2>2, <2>3, <2>4, ReadFrame
<1>19. CASE ServerWrite
  <2>1. SameFailed /\ UNCHANGED <<early, enc, recvCtr>>
    BY <1>19, <1>t DEF ServerWrite, SameFailed
  <2>2. /\ HandshakeDone' => HandshakeDone
        /\ LoginDone' => LoginDone
        /\ packs' # "new" => packs # "new"
    BY <1>19, <1>s, <1>t DEF ServerWrite, HandshakeDone, LoginDone
  <2>3. inbox' = inbox
    BY <1>19 DEF ServerWrite
  <2>4. wire' = wire
    BY <1>19 DEF ServerWrite
  <2> QED BY <1>r, <2>1, <2>2, <2>3, <2>4, ReadFrame
<1>20. CASE ServerQueue
  <2>1. SameFailed /\ UNCHANGED <<early, enc, recvCtr>>
    BY <1>20, <1>t DEF ServerQueue, SameFailed
  <2>2. /\ HandshakeDone' => HandshakeDone
        /\ LoginDone' => LoginDone
        /\ packs' # "new" => packs # "new"
    BY <1>20, <1>s, <1>t DEF ServerQueue, HandshakeDone, LoginDone
  <2>3. inbox' = inbox
    BY <1>20 DEF ServerQueue
  <2>4. wire' = wire
    BY <1>20 DEF ServerQueue
  <2> QED BY <1>r, <2>1, <2>2, <2>3, <2>4, ReadFrame
<1>21. CASE ServerFlush
  <2>1. SameFailed /\ UNCHANGED <<early, enc, recvCtr>>
    BY <1>21, <1>t DEF ServerFlush, SameFailed
  <2>2. /\ HandshakeDone' => HandshakeDone
        /\ LoginDone' => LoginDone
        /\ packs' # "new" => packs # "new"
    BY <1>21, <1>s, <1>t DEF ServerFlush, HandshakeDone, LoginDone
  <2>3. inbox' = inbox
    BY <1>21 DEF ServerFlush
  <2>4. wire' = wire
    BY <1>21 DEF ServerFlush
  <2> QED BY <1>r, <2>1, <2>2, <2>3, <2>4, ReadFrame
<1>22. CASE Initialized
  <2>1. SameFailed /\ UNCHANGED <<early, enc, recvCtr>>
    BY <1>22, <1>t DEF Initialized, Handle, SameFailed
  <2>5. "set_local_player_as_initialized" \in Air("client")
    BY <1>22, <1>s, HandledAir DEF Initialized, Names
  <2>6. HandshakeDone
    BY <2>5 DEF OrderInv, AirInv, ClientInv, ServerInv, HandshakeDone
  <2>2. /\ HandshakeDone' => HandshakeDone
        /\ LoginDone' => LoginDone
        /\ packs' # "new" => packs # "new"
    BY <1>22, <1>s, <1>t, <2>6 DEF Initialized, Handle, LoginDone
  <2>3. /\ Has(inbox'["server"], "client_to_server_handshake") =>
             Has(inbox["server"], "client_to_server_handshake")
        /\ Has(inbox'["client"], "resource_packs_info") =>
             Has(inbox["client"], "resource_packs_info")
        /\ Has(inbox["client"], "server_to_client_handshake") =>
             Has(inbox'["client"], "server_to_client_handshake")
    BY <1>22, <1>s, HandleHas DEF Initialized
  <2>4. wire' = wire
    BY <1>22 DEF Initialized
  <2> QED BY <1>r, <2>1, <2>2, <2>3, <2>4, ReadFrame
<1>23. CASE ClientPump
  <2>1. SameFailed /\ UNCHANGED <<early, enc, recvCtr, pc, status, packs, inbox>>
    BY <1>23 DEF ClientPump, SameFailed
  <2>2. queue["client"] \in Seq(Names)
    BY <1>s, SideTyped
  <2>3. Carries(wire["server"], "server_to_client_handshake") =>
          Carries(wire'["server"], "server_to_client_handshake")
    BY <1>23, <1>s, <2>2, SendCarries DEF ClientPump
  <2> QED BY <1>r, <2>1, <2>3, ReadFrame DEF HandshakeDone, LoginDone
<1>24. CASE PutStaged
  <2>1. SameFailed /\ UNCHANGED <<early, enc, recvCtr, pc, status, packs, inbox>>
    BY <1>24 DEF PutStaged, SameFailed
  <2>2. staged \in Batches
    BY <1>s, SideTyped
  <2>3. Carries(wire["server"], "server_to_client_handshake") =>
          Carries(wire'["server"], "server_to_client_handshake")
    BY <1>24, <1>s, <2>2, PutCarries DEF PutStaged
  <2> QED BY <1>r, <2>1, <2>3, ReadFrame DEF HandshakeDone, LoginDone
<1>25. CASE UNCHANGED vars
  <2>1. SameFailed
        /\ UNCHANGED <<early, enc, recvCtr, pc, status, packs, inbox, wire>>
    BY <1>25 DEF vars, SameFailed
  <2> QED BY <1>r, <2>1, ReadFrame DEF HandshakeDone, LoginDone
<1>26. CASE RequestNetworkSettings
  <2>1. SameFailed /\ UNCHANGED <<early, enc, recvCtr>>
    BY <1>26, <1>t DEF RequestNetworkSettings, Handle, SameFailed
  <2>2. /\ HandshakeDone' => HandshakeDone
        /\ LoginDone' => LoginDone
        /\ packs' # "new" => packs # "new"
    BY <1>26, <1>s, <1>t DEF RequestNetworkSettings, Handle, HandshakeDone, LoginDone
  <2>3. /\ Has(inbox'["server"], "client_to_server_handshake") =>
             Has(inbox["server"], "client_to_server_handshake")
        /\ Has(inbox'["client"], "resource_packs_info") =>
             Has(inbox["client"], "resource_packs_info")
        /\ Has(inbox["client"], "server_to_client_handshake") =>
             Has(inbox'["client"], "server_to_client_handshake")
    BY <1>26, <1>s, HandleHas DEF RequestNetworkSettings
  <2>4. Carries(wire["server"], "server_to_client_handshake") =>
          Carries(wire'["server"], "server_to_client_handshake")
    <3> DEFINE c == [pkts |-> <<"network_settings">>, form |-> "bare", ctr |-> 0]
    <3>1. c \in Batches /\ Put("server", c)
      BY <1>26, OnePacket DEF RequestNetworkSettings, Batches, Names
    <3> HIDE DEF c
    <3> QED BY <1>s, <3>1, PutCarries
  <2> QED BY <1>r, <2>1, <2>2, <2>3, <2>4, ReadFrame
<1>27. CASE Login
  <2> DEFINE c == Encode("server", <<"server_to_client_handshake">>)
  <2>1. c \in Batches /\ c.pkts = <<"server_to_client_handshake">> /\ Put("server", c)
    BY <1>27, <1>s, EncodeTyped, OnePacket DEF Login, ServerSend, Send, Names
  <2> HIDE DEF c
  <2>2. Carries(wire'["server"], "server_to_client_handshake")
    BY <1>s, <2>1, HasOne, PutCarries
  <2>3. /\ UNCHANGED <<early, enc, recvCtr, status, packs>> /\ pc["server"] = "idle"
        /\ pc'["server"] = "enable" /\ pc'["client"] = pc["client"]
    BY <1>27, <1>s, <1>t DEF Login, Handle
  <2>4. /\ Has(inbox'["server"], "client_to_server_handshake") =>
             Has(inbox["server"], "client_to_server_handshake")
        /\ Has(inbox'["client"], "resource_packs_info") =>
             Has(inbox["client"], "resource_packs_info")
    BY <1>27, <1>s, HandleHas DEF Login
  <2> QED BY <1>r, <2>2, <2>3, <2>4 DEF ReadInv, HandshakeDone
<1>28. CASE EnableEncryption
  <2>1. ~enc["server"] /\ LoginDone
    BY <1>28 DEF EnableEncryption, Step, OrderInv, SettingsInv, LoginDone
  <2>2. recvCtr["server"] = 0
    BY <1>s, <1>r, <2>1 DEF CounterInv
  <2>3. /\ UNCHANGED <<early, recvCtr, status, packs, inbox, wire>>
        /\ enc'["client"] = enc["client"] /\ pc'["client"] = pc["client"]
        /\ pc'["server"] \in {"idle", "late"} /\ pc["server"] = "enable"
    BY <1>28, <1>s, <1>t, <2>2 DEF EnableEncryption, Enabled, Step
  <2> QED BY <1>r, <2>1, <2>2, <2>3 DEF ReadInv, HandshakeDone
<1>29. CASE ClientHandshake
  <2>1. Has(inbox["server"], "client_to_server_handshake")
    BY <1>29, <1>s, HandledAir DEF ClientHandshake, Names
  <2>2. enc["server"] /\ recvCtr["server"] > 0
    BY <1>r, <2>1 DEF ReadInv
  <2>3. /\ UNCHANGED <<early, enc, recvCtr, status, packs>>
        /\ pc'["server"] = "status" /\ pc'["client"] = pc["client"]
        /\ pc["server"] = "idle"
    BY <1>29, <1>s, <1>t DEF ClientHandshake, Handle
  <2>4. /\ Has(inbox'["client"], "resource_packs_info") =>
             Has(inbox["client"], "resource_packs_info")
        /\ Has(inbox["client"], "server_to_client_handshake") =>
             Has(inbox'["client"], "server_to_client_handshake")
    BY <1>29, <1>s, HandleHas DEF ClientHandshake
  <2>5. Carries(wire["server"], "server_to_client_handshake") =>
          Carries(wire'["server"], "server_to_client_handshake")
    <3>1. <<"login_success">> \in Seq(Names)
      BY OnePacket DEF Names
    <3> QED BY <1>29, <1>s, <3>1, SendCarries DEF ClientHandshake, ServerSend
  <2> QED BY <1>r, <2>2, <2>3, <2>4, <2>5 DEF ReadInv, HandshakeDone, LoginDone
<1>30. CASE StartEncryption
  <2>1. "server_to_client_handshake" \in Air("server")
    BY <1>30, <1>s, HandledAir DEF StartEncryption, Names
  <2>2. ~enc["client"] /\ packs = "new"
    BY <2>1 DEF OrderInv, AirInv, ClientInv, TypeOK
  <2>3. recvCtr["client"] = 0
    BY <1>s, <1>r, <2>2 DEF CounterInv
  <2>4. /\ UNCHANGED <<early, recvCtr, status, packs>>
        /\ enc'["client"] /\ enc'["server"] = enc["server"]
        /\ pc'["client"] = "joining" /\ pc'["server"] = pc["server"]
    BY <1>30, <1>s, <1>t, <2>3 DEF StartEncryption, Enabled, Handle
  <2>5. /\ Has(inbox'["server"], "client_to_server_handshake") =>
             Has(inbox["server"], "client_to_server_handshake")
        /\ Has(inbox'["client"], "resource_packs_info") =>
             Has(inbox["client"], "resource_packs_info")
    BY <1>30, <1>s, HandleHas DEF StartEncryption
  <2> QED BY <1>r, <2>2, <2>3, <2>4, <2>5 DEF ReadInv, HandshakeDone
<1>31. CASE ResourcePacksInfo
  <2>1. Has(inbox["client"], "resource_packs_info")
    BY <1>31, <1>s, HandledAir DEF ResourcePacksInfo, Names
  <2>2. recvCtr["client"] > 0
    BY <1>r, <2>1 DEF ReadInv
  <2>3. /\ UNCHANGED <<early, enc, recvCtr, status>>
        /\ pc["client"] = "idle" /\ pc'["client"] \in {"idle", "cache"}
        /\ pc'["server"] = pc["server"]
    BY <1>31, <1>s, <1>t DEF ResourcePacksInfo, Handle
  <2>4. /\ Has(inbox'["server"], "client_to_server_handshake") =>
             Has(inbox["server"], "client_to_server_handshake")
        /\ Has(inbox["client"], "server_to_client_handshake") =>
             Has(inbox'["client"], "server_to_client_handshake")
    BY <1>31, <1>s, HandleHas DEF ResourcePacksInfo
  <2>5. Carries(wire["server"], "server_to_client_handshake") =>
          Carries(wire'["server"], "server_to_client_handshake")
    <3>1. Send("client", <<"resource_pack_client_response">>) \/ wire' = wire
      BY <1>31 DEF ResourcePacksInfo
    <3>2. <<"resource_pack_client_response">> \in Seq(Names)
      BY OnePacket DEF Names
    <3>3. CASE Send("client", <<"resource_pack_client_response">>)
      BY <1>s, <3>2, <3>3, SendCarries
    <3> QED BY <3>1, <3>3
  <2> QED BY <1>r, <2>2, <2>3, <2>4, <2>5 DEF ReadInv, HandshakeDone, LoginDone
<1>32. CASE Receive("server")
  <2> DEFINE b == Head(wire["client"])
  <2>1. /\ UNCHANGED <<early, enc, status, packs>> /\ pc["server"] = "idle"
        /\ inbox'["client"] = inbox["client"] /\ pc'["client"] = pc["client"]
        /\ wire'["server"] = wire["server"] /\ recvCtr'["client"] = recvCtr["client"]
        /\ recvCtr'["server"] = IF enc["server"] THEN recvCtr["server"] + 1
                                 ELSE recvCtr["server"]
        /\ wire["client"] # <<>>
    <3>1. wire' = [wire EXCEPT !["client"] = Tail(wire["client"])]
      BY <1>32, <1>s DEF Receive
    <3>2. \/ UNCHANGED <<inbox>> /\ pc' = [pc EXCEPT !["server"] = "failed"]
          \/ inbox' = [inbox EXCEPT !["server"] = b.pkts] /\ UNCHANGED <<pc>>
      BY <1>32, <1>s DEF Receive
    <3>3. wire'["server"] = wire["server"]
      BY <1>s, <3>1 DEF TypeOK
    <3>4. inbox'["client"] = inbox["client"] /\ pc'["client"] = pc["client"]
      BY <1>s, <3>2 DEF TypeOK
    <3>5. recvCtr' = IF enc["server"]
                     THEN [recvCtr EXCEPT !["server"] = recvCtr["server"] + 1]
                     ELSE recvCtr
      BY <1>32 DEF Receive
    <3>6. /\ recvCtr'["client"] = recvCtr["client"]
          /\ recvCtr'["server"] = IF enc["server"] THEN recvCtr["server"] + 1
                                   ELSE recvCtr["server"]
      BY <1>s, <1>t, <3>5
    <3> QED BY <1>32, <1>s, <3>3, <3>4, <3>6 DEF Receive
  <2>2. recvCtr["server"] \in Nat
    BY <1>s, <1>t
  <2>3. HandshakeDone => enc["server"]
    BY DEF OrderInv, ServerInv
  <2>4. CASE Decodes("server", b)
    <3>1. inbox'["server"] = b.pkts /\ pc'["server"] = pc["server"]
      <4>1. inbox' = [inbox EXCEPT !["server"] = b.pkts] /\ pc' = pc
        BY <1>32, <1>s, <2>4 DEF Receive
      <4>2. inbox \in [Sides -> Seq(Names)]
        BY DEF TypeOK
      <4> QED BY <1>s, <4>1, <4>2
    <3>2. Has(b.pkts, "client_to_server_handshake") => enc["server"]
      <4>1. ClientBatch(b)
        BY <1>s, <1>r, <2>1, SideTyped, SetRest DEF WireInv
      <4> QED BY <2>4, <4>1 DEF ClientBatch, Decodes, PlainForm
    <3> HIDE DEF b
    <3>3. enc["server"] => recvCtr'["server"] > 0
      BY <2>1, <2>2
    <3> QED BY <1>r, <2>1, <2>3, <3>1, <3>2, <3>3
         DEF ReadInv, HandshakeDone, LoginDone
  <2>5. CASE ~Decodes("server", b)
    <3>1. ~HandshakeDone
      BY <1>32, <1>s, <1>r, <2>3, <2>5, CountingReads DEF ReadInv
    <3>2. early # {}
      BY <1>32, <1>r, <2>5, ServerReads
    <3>3. inbox'["server"] = <<>> /\ pc'["server"] = "failed"
      BY <1>32, <1>s, <1>t, <2>5 DEF Receive
    <3> QED BY <1>r, <2>1, <3>1, <3>2, <3>3, HasNone
         DEF ReadInv, HandshakeDone, LoginDone
  <2> QED BY <2>4, <2>5
<1>33. CASE Receive("client")
  <2> DEFINE b == Head(wire["server"])
  <2>1. /\ UNCHANGED <<early, enc, status, packs>> /\ pc["client"] = "idle"
        /\ inbox'["server"] = inbox["server"] /\ pc'["server"] = pc["server"]
        /\ wire'["server"] = Tail(wire["server"]) /\ inbox["client"] = <<>>
        /\ recvCtr'["server"] = recvCtr["server"]
        /\ recvCtr'["client"] = IF enc["client"] THEN recvCtr["client"] + 1
                                 ELSE recvCtr["client"]
        /\ wire["server"] # <<>>
    <3>1. wire' = [wire EXCEPT !["server"] = Tail(wire["server"])]
      BY <1>33, <1>s DEF Receive
    <3>2. \/ UNCHANGED <<inbox>> /\ pc' = [pc EXCEPT !["client"] = "failed"]
          \/ inbox' = [inbox EXCEPT !["client"] = b.pkts] /\ UNCHANGED <<pc>>
      BY <1>33, <1>s DEF Receive
    <3>3. wire'["server"] = Tail(wire["server"])
      BY <1>s, <3>1 DEF TypeOK
    <3>4. inbox'["server"] = inbox["server"] /\ pc'["server"] = pc["server"]
      BY <1>s, <3>2 DEF TypeOK
    <3>5. recvCtr' = IF enc["client"]
                     THEN [recvCtr EXCEPT !["client"] = recvCtr["client"] + 1]
                     ELSE recvCtr
      BY <1>33 DEF Receive
    <3>6. /\ recvCtr'["server"] = recvCtr["server"]
          /\ recvCtr'["client"] = IF enc["client"] THEN recvCtr["client"] + 1
                                   ELSE recvCtr["client"]
      BY <1>s, <1>t, <3>5
    <3> QED BY <1>33, <1>s, <3>3, <3>4, <3>6 DEF Receive
  <2>2. recvCtr["client"] \in Nat /\ wire["server"] \in Seq(Batches)
    BY <1>s, <1>t, SideTyped
  <2>3. packs # "new" => enc["client"]
    BY DEF OrderInv, ClientInv
  <2>4. CASE Decodes("client", b)
    <3>1. inbox'["client"] = b.pkts /\ pc'["client"] = pc["client"]
      <4>1. inbox' = [inbox EXCEPT !["client"] = b.pkts] /\ pc' = pc
        BY <1>33, <1>s, <2>4 DEF Receive
      <4>2. inbox \in [Sides -> Seq(Names)]
        BY DEF TypeOK
      <4> QED BY <1>s, <4>1, <4>2
    <3>2. Has(b.pkts, "resource_packs_info") => enc["client"]
      <4>1. ServerBatch(b)
        BY <1>s, <1>r, <2>1, <2>2, SetRest DEF WireInv
      <4> QED BY <2>4, <4>1 DEF ServerBatch, Decodes, PlainForm
    <3>3. Carries(wire["server"], "server_to_client_handshake") =>
            \/ Has(b.pkts, "server_to_client_handshake")
            \/ Carries(wire'["server"], "server_to_client_handshake")
      BY <2>1, <2>2, WireRest
    <3>4. ~Has(inbox["client"], "server_to_client_handshake")
      BY <2>1, HasNone
    <3> HIDE DEF b
    <3>5. /\ enc["client"] => recvCtr'["client"] > 0
          /\ recvCtr["client"] > 0 => recvCtr'["client"] > 0
      BY <2>1, <2>2
    <3> QED BY <1>r, <2>1, <2>3, <3>1, <3>2, <3>3, <3>4, <3>5
         DEF ReadInv, HandshakeDone, LoginDone
  <2>5. CASE ~Decodes("client", b)
    <3>1. packs = "new"
      BY <1>33, <1>s, <1>r, <2>3, <2>5, CountingReads DEF ReadInv
    <3>2. early # {}
      BY <1>33, <2>5, ClientReads
    <3>3. inbox'["client"] = <<>> /\ pc'["client"] = "failed"
      BY <1>33, <1>s, <1>t, <2>5 DEF Receive
    <3> QED BY <1>r, <2>1, <3>1, <3>2, <3>3, HasNone
         DEF ReadInv, HandshakeDone, LoginDone
  <2> QED BY <2>4, <2>5
<1> QED
  BY <1>1, <1>2, <1>3, <1>4, <1>5, <1>6, <1>7, <1>8, <1>9, <1>10, <1>11,
     <1>12, <1>13, <1>14, <1>15, <1>16, <1>17, <1>18, <1>19, <1>20, <1>21,
     <1>22, <1>23, <1>24, <1>25, <1>26, <1>27, <1>28, <1>29, <1>30, <1>31,
     <1>32, <1>33 DEF Next, ClientWorker, ServerWorker

\* The initial states: nothing is on its way and nobody counts.
LEMMA StartReadable == Init => CodecInv
<1> SUFFICES ASSUME Init PROVE CodecInv
  OBVIOUS
<1>1. /\ \A s \in Sides : /\ ~enc[s] /\ sendCtr[s] = 0 /\ recvCtr[s] = 0
                          /\ queue[s] = <<>> /\ wire[s] = <<>> /\ inbox[s] = <<>>
      /\ pc["client"] = "start" /\ pc["server"] = "idle"
      /\ status["server"] = "Authenticating"
      /\ staged = NoBatch /\ packs = "new"
  BY DEF Init, Sides
<1>2. staged.form = "bare" /\ staged.pkts = <<>>
  BY <1>1 DEF NoBatch
<1>3. ToSet(<<>>) = {}
  BY DEF ToSet
<1>4. "client" \in Sides /\ "server" \in Sides /\ \A s \in Sides : Other(s) \in Sides
  BY DEF Sides, Other
<1>5. CounterInv
  BY <1>1, <1>2, <1>4, ChainNew DEF CounterInv, OnWire
<1>6. WireInv
  BY <1>1, <1>3, <1>4 DEF WireInv
<1>7. QueueInv
  BY <1>1, <1>2, <1>3, <1>4 DEF QueueInv
<1>8. ReadInv
  BY <1>1, <1>4, HasNone DEF ReadInv, HandshakeDone, LoginDone
<1> QED BY <1>5, <1>6, <1>7, <1>8 DEF CodecInv

\* A batch that cannot be read ends the session: that happens only when an
\* application sends before it has joined, and never once the server has
\* admitted the player.  Otherwise the switches to the compressor and to
\* encryption fall between the same two batches on both sides, and the
\* counters agree (handleRakNetPayload, handleEncapsulated).
THEOREM BatchesAreReadable == Spec => []BatchesDecode
<1> DEFINE SessionInv == TypeOK /\ OrderInv /\ CodecInv
<1>1. Init => SessionInv
  BY StartInOrder, StartReadable
<1>2. SessionInv /\ [Next]_vars => SessionInv'
  BY TypeStep, OrderStep, CounterStep, WireStep, QueueStep, ReadStep DEF CodecInv
<1>3. SessionInv => BatchesDecode
  <2> SUFFICES ASSUME OrderInv, CodecInv, NEW s \in Sides, pc[s] = "failed"
               PROVE  early # {} /\ ~joined["server"]
    BY DEF BatchesDecode
  <2>1. s = "client" \/ s = "server"
    BY DEF Sides
  <2>2. early # {}
    BY <2>1 DEF CodecInv, ReadInv
  <2>3. joined["server"] => packs # "new" /\ status["server"] # "Authenticating"
    BY DEF OrderInv, ServerInv, ClientInv
  <2>4. ~joined["server"]
    BY <2>1, <2>3 DEF CodecInv, ReadInv, HandshakeDone
  <2> QED BY <2>2, <2>4
<1> HIDE DEF SessionInv
<1> QED BY <1>1, <1>2, <1>3, PTL DEF Spec
=============================================================================
