--------------------------- MODULE PromisesProofs ---------------------------
(* Promises implement PromiseReactions and run reactions in order, for any *)
(* threads and any number of promises.                                     *)
EXTENDS Promises, TLAPS

-----------------------------------------------------------------------------
(* Lists: their elements when one is appended or taken.                    *)

\* Lists in which no element occurs twice.
Distinct(s) == \A i, j \in DOMAIN s : s[i] = s[j] => i = j

\* The elements of a list are of the type of its elements.
LEMMA ElementsTyped ==
    ASSUME NEW S, NEW s \in Seq(S)
    PROVE  ToSet(s) \subseteq S
BY DEF ToSet

\* The empty list has no elements.
LEMMA EmptyList == ToSet(<<>>) = {} /\ Distinct(<<>>)
BY DEF ToSet, Distinct

\* A list of one element.
LEMMA Single ==
    ASSUME NEW d
    PROVE  ToSet(<<d>>) = {d} /\ Distinct(<<d>>)
BY DEF ToSet, Distinct

\* A new element at the end of a list.
LEMMA Appended ==
    ASSUME NEW S, NEW s \in Seq(S), NEW d \in S, Distinct(s), d \notin ToSet(s)
    PROVE  /\ ToSet(Append(s, d)) = ToSet(s) \cup {d}
           /\ Distinct(Append(s, d))
<1> DEFINE a == Append(s, d)
<1>1. /\ DOMAIN a = 1..(Len(s) + 1) /\ DOMAIN s = 1..Len(s) /\ Len(s) \in Nat
      /\ \A i \in 1..Len(s) : a[i] = s[i]
      /\ a[Len(s) + 1] = d
  OBVIOUS
<1> HIDE DEF a
<1>2. ToSet(a) = ToSet(s) \cup {d}
  BY <1>1 DEF ToSet
<1>3. Distinct(a)
  BY <1>1 DEF ToSet, Distinct
<1> QED BY <1>2, <1>3 DEF a

\* Two lists without a common element, one behind the other.
LEMMA Joined ==
    ASSUME NEW S, NEW s \in Seq(S), NEW u \in Seq(S), Distinct(s), Distinct(u),
           ToSet(s) \cap ToSet(u) = {}
    PROVE  /\ ToSet(s \o u) = ToSet(s) \cup ToSet(u)
           /\ Distinct(s \o u)
<1> DEFINE a == s \o u
           m == Len(s)
           n == Len(u)
<1>1. /\ m \in Nat /\ n \in Nat
      /\ DOMAIN a = 1..(m + n) /\ DOMAIN s = 1..m /\ DOMAIN u = 1..n
      /\ \A i \in 1..m : a[i] = s[i]
      /\ \A i \in 1..(m + n) : i > m => a[i] = u[i - m]
      /\ \A i \in 1..n : a[i + m] = u[i]
  OBVIOUS
<1> HIDE DEF a, m, n
<1>2. ToSet(a) \subseteq ToSet(s) \cup ToSet(u)
  <2> SUFFICES ASSUME NEW i \in DOMAIN a
               PROVE  a[i] \in ToSet(s) \cup ToSet(u)
    BY DEF ToSet
  <2>0. i \in 1..(m + n)
    BY <1>1
  <2>1. CASE i <= m
    <3>1. i \in DOMAIN s /\ a[i] = s[i]
      BY <1>1, <2>0, <2>1
    <3> QED BY <3>1 DEF ToSet
  <2>2. CASE i > m
    <3>1. i - m \in DOMAIN u /\ a[i] = u[i - m]
      BY <1>1, <2>0, <2>2
    <3> QED BY <3>1 DEF ToSet
  <2> QED BY <1>1, <2>0, <2>1, <2>2
<1>3. ToSet(s) \cup ToSet(u) \subseteq ToSet(a)
  <2>1. ASSUME NEW i \in DOMAIN s PROVE s[i] \in ToSet(a)
    <3>1. i \in DOMAIN a /\ a[i] = s[i]
      BY <1>1
    <3> QED BY <3>1 DEF ToSet
  <2>2. ASSUME NEW i \in DOMAIN u PROVE u[i] \in ToSet(a)
    <3>1. i + m \in DOMAIN a /\ a[i + m] = u[i]
      BY <1>1
    <3> QED BY <3>1 DEF ToSet
  <2>3. ToSet(s) \subseteq ToSet(a)
    BY <2>1 DEF ToSet
  <2>4. ToSet(u) \subseteq ToSet(a)
    BY <2>2 DEF ToSet
  <2> QED BY <2>3, <2>4
<1>4. Distinct(a)
  <2> SUFFICES ASSUME NEW i \in 1..(m + n), NEW j \in 1..(m + n), a[i] = a[j]
               PROVE  i = j
    BY <1>1 DEF Distinct
  <2>1. CASE i <= m /\ j <= m
    <3>1. i \in DOMAIN s /\ j \in DOMAIN s /\ s[i] = s[j]
      BY <1>1, <2>1
    <3> QED BY <3>1 DEF Distinct
  <2>2. CASE i > m /\ j > m
    <3>1. i - m \in DOMAIN u /\ j - m \in DOMAIN u /\ u[i - m] = u[j - m]
      BY <1>1, <2>2
    <3>2. i - m = j - m
      BY <3>1 DEF Distinct
    <3> QED BY <1>1, <3>2
  <2>3. CASE i <= m /\ j > m
    <3>1. j - m \in 1..n
      BY <1>1, <2>3
    <3>2. i \in DOMAIN s /\ a[i] = s[i]
      BY <1>1, <2>3
    <3>3. j - m \in DOMAIN u /\ a[j] = u[j - m]
      BY <1>1, <2>3, <3>1
    <3>4. a[i] \in ToSet(s)
      BY <3>2 DEF ToSet
    <3>5. a[j] \in ToSet(u)
      BY <3>3 DEF ToSet
    <3> QED BY <3>4, <3>5
  <2>4. CASE i > m /\ j <= m
    <3>1. i - m \in 1..n
      BY <1>1, <2>4
    <3>2. j \in DOMAIN s /\ a[j] = s[j]
      BY <1>1, <2>4
    <3>3. i - m \in DOMAIN u /\ a[i] = u[i - m]
      BY <1>1, <2>4, <3>1
    <3>4. a[j] \in ToSet(s)
      BY <3>2 DEF ToSet
    <3>5. a[i] \in ToSet(u)
      BY <3>3 DEF ToSet
    <3> QED BY <3>4, <3>5
  <2> QED BY <1>1, <2>1, <2>2, <2>3, <2>4
<1> QED BY <1>2, <1>3, <1>4 DEF a

\* A list and what is left of it when its first element is taken.
LEMMA FirstAndRest ==
    ASSUME NEW S, NEW s \in Seq(S), s # <<>>, Distinct(s)
    PROVE  /\ Head(s) \in S /\ Tail(s) \in Seq(S)
           /\ ToSet(s) = ToSet(Tail(s)) \cup {Head(s)}
           /\ Head(s) \notin ToSet(Tail(s))
           /\ Distinct(Tail(s))
<1> DEFINE u == Tail(s)
           n == Len(s)
<1>1. /\ n \in Nat /\ n > 0 /\ DOMAIN s = 1..n /\ Head(s) = s[1]
      /\ u \in Seq(S) /\ DOMAIN u = 1..(n - 1)
      /\ \A i \in 1..(n - 1) : u[i] = s[i + 1]
  OBVIOUS
<1>2. Head(s) \in S
  OBVIOUS
<1> HIDE DEF u, n
<1>3. \A i \in 1..n : i = 1 \/ (i - 1 \in 1..(n - 1) /\ u[i - 1] = s[i])
  BY <1>1
<1>4. \A i \in 1..(n - 1) : i + 1 \in 1..n /\ i + 1 # 1
  BY <1>1
<1>5. ToSet(s) = ToSet(u) \cup {Head(s)}
  <2>1. ToSet(s) \subseteq ToSet(u) \cup {Head(s)}
    <3> SUFFICES ASSUME NEW i \in DOMAIN s
                 PROVE  s[i] \in ToSet(u) \cup {Head(s)}
      BY DEF ToSet
    <3>1. CASE i = 1
      BY <1>1, <3>1
    <3>2. CASE i # 1
      <4>1. i - 1 \in DOMAIN u /\ u[i - 1] = s[i]
        BY <1>1, <1>3, <3>2
      <4> QED BY <4>1 DEF ToSet
    <3> QED BY <3>1, <3>2
  <2>2. 1 \in DOMAIN s
    BY <1>1
  <2>3. ToSet(u) \cup {Head(s)} \subseteq ToSet(s)
    <3>1. ASSUME NEW i \in DOMAIN u PROVE u[i] \in ToSet(s)
      <4>1. i + 1 \in DOMAIN s /\ u[i] = s[i + 1]
        BY <1>1, <1>4
      <4> QED BY <4>1 DEF ToSet
    <3>2. Head(s) \in ToSet(s)
      BY <1>1, <2>2 DEF ToSet
    <3> QED BY <3>1, <3>2 DEF ToSet
  <2> QED BY <2>1, <2>3
<1>6. Head(s) \notin ToSet(u)
  <2> SUFFICES ASSUME NEW i \in DOMAIN u PROVE u[i] # Head(s)
    BY DEF ToSet
  <2>1. i + 1 \in DOMAIN s /\ u[i] = s[i + 1] /\ i + 1 # 1 /\ 1 \in DOMAIN s
    BY <1>1, <1>4
  <2> QED BY <1>1, <2>1 DEF Distinct
<1>7. Distinct(u)
  <2> SUFFICES ASSUME NEW i \in DOMAIN u, NEW j \in DOMAIN u, u[i] = u[j]
               PROVE  i = j
    BY DEF Distinct
  <2>1. i + 1 \in DOMAIN s /\ j + 1 \in DOMAIN s /\ s[i + 1] = s[j + 1]
    BY <1>1, <1>4
  <2>2. i + 1 = j + 1
    BY <2>1 DEF Distinct
  <2> QED BY <1>1, <2>2
<1> QED BY <1>1, <1>2, <1>5, <1>6, <1>7 DEF u

-----------------------------------------------------------------------------

\* The continuations in the queue, in the hands of threads and at promises.
T == ToSet(tasks)
H == [t \in Threads |-> ToSet(held[t])]
C == [p \in Promise |-> ToSet(conts[p])]

DistinctLists ==
    /\ Distinct(tasks)
    /\ \A t \in Threads : Distinct(held[t])
    /\ \A p \in Promise : Distinct(conts[p])

\* A continuation is in one place only.
OnePlace ==
    /\ \A t \in Threads, d \in Promise : ~(d \in T /\ d \in H[t])
    /\ \A p \in Promise, d \in Promise : ~(d \in T /\ d \in C[p])
    /\ \A t \in Threads, p \in Promise, d \in Promise : ~(d \in H[t] /\ d \in C[p])
    /\ \A t, u \in Threads, d \in Promise : d \in H[t] /\ d \in H[u] => t = u
    /\ current \notin T
    /\ \A t \in Threads : current \notin H[t]
    /\ \A p \in Promise : current \notin C[p]

\* d was made by then(), catchError() or an adoption and is not settled.
Open(d) == d <= count /\ status[d] = "Pending" /\ job[d].kind \in Reaction

\* Continuations are at a promise while it is pending and leave it when it is
\* settled.
Jobs ==
    /\ \A d \in T : Open(d) /\ status[job[d].src] # "Pending"
    /\ \A t \in Threads : \A d \in H[t] :
          Open(d) /\ status[job[d].src] # "Pending"
    /\ \A p \in Promise : \A d \in C[p] :
          Open(d) /\ job[d].src = p /\ status[p] = "Pending"
    /\ current # None => Open(current) /\ status[job[current].src] # "Pending"
    /\ \A p \in Promise : p > count => status[p] = "Pending"
    /\ \A p \in Promise : pc[p] # "idle" => p <= count /\ job[p].kind = "future"

\* A thread that is not about to publish holds nothing.
Control ==
    /\ \A t \in Threads : H[t] # {} => pc[t] \in {"notify", "publish"}
    /\ pc[Worker] \in {"run", "callback"} => current # None
    /\ pc[Worker] \in {"loop", "done"} => current = None

Inv == TypeOK /\ DistinctLists /\ OnePlace /\ Jobs /\ Control

-----------------------------------------------------------------------------
(* What the parts of an operation do to the places of continuations.       *)

LEMMA PlacesTyped ==
    ASSUME TypeOK
    PROVE  /\ T \subseteq Promise
           /\ \A t \in Threads : H[t] \subseteq Promise
           /\ \A p \in Promise : C[p] \subseteq Promise
BY ElementsTyped DEF TypeOK, T, H, C

LEMMA SamePlaces ==
    ASSUME UNCHANGED <<tasks, held, conts>>, DistinctLists
    PROVE  T' = T /\ H' = H /\ C' = C /\ DistinctLists'
BY DEF T, H, C, DistinctLists

LEMMA SettlePlaces ==
    ASSUME TypeOK, DistinctLists, UNCHANGED tasks,
           NEW t \in Threads, NEW p \in Promise, NEW s, NEW v,
           SettleState(t, p, s, v)
    PROVE  /\ T' = T
           /\ H' = [H EXCEPT ![t] = C[p]]
           /\ C' = [C EXCEPT ![p] = {}]
           /\ DistinctLists'
<1> USE DEF SettleState, TypeOK
<1>1. T' = T
  BY DEF T
<1>2. H' = [H EXCEPT ![t] = C[p]]
  BY DEF H, C
<1>3. C' = [C EXCEPT ![p] = {}]
  BY EmptyList DEF C
<1>4. DistinctLists'
  BY EmptyList DEF DistinctLists
<1> QED BY <1>1, <1>2, <1>3, <1>4

LEMMA AddPlaces ==
    ASSUME TypeOK, DistinctLists, UNCHANGED tasks,
           NEW t \in Threads, NEW p \in Promise, NEW d \in Promise,
           d \notin C[p], AddContinuation(t, p, d)
    PROVE  /\ T' = T
           /\ status[p] # "Pending" => H' = [H EXCEPT ![t] = {d}] /\ C' = C
           /\ status[p] = "Pending" => C' = [C EXCEPT ![p] = @ \cup {d}] /\ H' = H
           /\ DistinctLists'
<1> USE DEF AddContinuation, TypeOK, Settled
<1>1. T' = T
  BY DEF T
<1>2. CASE status[p] # "Pending"
  <2>0. ToSet(<<d>>) = {d} /\ Distinct(<<d>>)
    BY Single
  <2>1. H' = [H EXCEPT ![t] = {d}] /\ C' = C
    BY <1>2, <2>0 DEF H, C
  <2>2. DistinctLists'
    BY <1>2, <2>0 DEF DistinctLists
  <2> QED BY <1>1, <1>2, <2>1, <2>2
<1>3. CASE status[p] = "Pending"
  <2>1. /\ ToSet(Append(conts[p], d)) = ToSet(conts[p]) \cup {d}
        /\ Distinct(Append(conts[p], d))
    BY Appended DEF C, DistinctLists
  <2>2. C' = [C EXCEPT ![p] = @ \cup {d}] /\ H' = H
    BY <1>3, <2>1 DEF H, C
  <2>3. DistinctLists'
    BY <1>3, <2>1 DEF DistinctLists
  <2> QED BY <1>1, <1>3, <2>2, <2>3
<1> QED BY <1>2, <1>3

LEMMA PublishPlaces ==
    ASSUME TypeOK, DistinctLists, OnePlace, NEW t \in Threads, Publish(t)
    PROVE  /\ T' = T \cup H[t]
           /\ H' = [H EXCEPT ![t] = {}]
           /\ C' = C
           /\ DistinctLists'
<1>1. /\ ToSet(tasks \o held[t]) = T \cup H[t]
      /\ Distinct(tasks \o held[t])
  <2>1. ToSet(tasks) \cap ToSet(held[t]) = {}
    BY PlacesTyped DEF OnePlace, T, H
  <2> QED BY <2>1, Joined DEF TypeOK, DistinctLists, T, H
<1>2. H' = [H EXCEPT ![t] = {}]
  BY EmptyList DEF Publish, TypeOK, H
<1>3. C' = C
  BY DEF Publish, state, C
<1>4. DistinctLists'
  BY <1>1, EmptyList DEF Publish, state, DistinctLists, TypeOK
<1> QED BY <1>1, <1>2, <1>3, <1>4 DEF Publish, T

LEMMA TakePlaces ==
    ASSUME TypeOK, DistinctLists, Take
    PROVE  /\ current' \in Promise
           /\ current' \notin T'
           /\ T = T' \cup {current'}
           /\ tasks' \in Seq(Promise)
           /\ H' = H /\ C' = C
           /\ DistinctLists'
<1>1. /\ Head(tasks) \in Promise /\ Tail(tasks) \in Seq(Promise)
      /\ ToSet(tasks) = ToSet(Tail(tasks)) \cup {Head(tasks)}
      /\ Head(tasks) \notin ToSet(Tail(tasks))
      /\ Distinct(Tail(tasks))
  BY FirstAndRest DEF Take, TypeOK, DistinctLists
<1> QED BY <1>1 DEF Take, state, T, H, C, DistinctLists

-----------------------------------------------------------------------------
(* The invariant is inductive.                                             *)

Unplaced(d) ==
    /\ d \notin T
    /\ \A t \in Threads : d \notin H[t]
    /\ \A p \in Promise : d \notin C[p]

LEMMA InitInv == Init => Inv
<1> SUFFICES ASSUME Init PROVE Inv
  OBVIOUS
<1>1. TypeOK
  <2>1. \A q \in Promise : q # Worker /\ q \in Threads
    BY ThreadAssumption DEF Threads
  <2>2. /\ \A u \in Apps : u # Worker /\ u \in Threads
        /\ Worker \in Threads
    BY ThreadAssumption DEF Threads
  <2>3. count \in 0..MaxPromises
    BY ThreadAssumption DEF Init
  <2>4. /\ DOMAIN pc = Threads
        /\ \A t \in Apps : pc[t] = "idle"
        /\ \A p \in Promise : pc[p] = "idle"
        /\ pc[Worker] = "loop"
    BY <2>1, <2>2 DEF Init
  <2>5. /\ status \in [Promise -> {"Pending", "Fulfilled", "Rejected"}]
        /\ value \in [Promise -> Promise \cup {None}]
        /\ conts \in [Promise -> Seq(Promise)] /\ tasks \in Seq(Promise)
        /\ held \in [Threads -> Seq(Promise)]
        /\ arg \in [Threads -> Promise \cup {None}]
    BY DEF Init
  <2>6. job \in [Promise -> [kind : Reaction \cup {"resolver", "future"},
                             src : Promise]]
    BY DEF Init
  <2> QED BY <2>3, <2>4, <2>5, <2>6 DEF Init, TypeOK
<1>2. DistinctLists
  BY EmptyList DEF Init, DistinctLists
<1>3. T = {} /\ (\A t \in Threads : H[t] = {}) /\ (\A p \in Promise : C[p] = {})
  BY EmptyList DEF Init, T, H, C
<1>4. OnePlace
  BY <1>3 DEF OnePlace
<1>5. Jobs
  <2>1. \A p \in Promise : p # Worker /\ p \in Threads
    BY ThreadAssumption DEF Threads
  <2> QED BY <1>3, <2>1 DEF Init, Jobs
<1>6. Control
  BY <1>3 DEF Init, Control, None, Threads
<1> QED BY <1>1, <1>2, <1>4, <1>5, <1>6 DEF Inv

\* Settling a promise that has no continuation of its own under way.
LEMMA SettleInv ==
    ASSUME Inv, NEW t \in Threads, NEW p \in Promise, NEW s \in Outcome,
           NEW v \in Promise \cup {None},
           SettleState(t, p, s, v), UNCHANGED <<count, job, tasks, stopping, dropped, overtaking>>,
           p <= count, Unplaced(p), current' # p, H[t] = {},
           t \in Promise => pc[t] # "idle",
           \/ current' = current
           \/ current' = None /\ t = Worker
    PROVE  Inv'
<1> USE DEF Inv
<1>0. /\ None \notin Promise
      /\ \A q \in Promise : q # Worker /\ q \in Threads /\ q \notin Apps
      /\ Worker \in Threads /\ Worker \notin Apps
      /\ \A u \in Apps : u \in Threads
  BY ThreadAssumption DEF None, Promise, Threads
<1>1. TypeOK'
  <2>1. pc' = [pc EXCEPT ![t] = "notify"] /\ DOMAIN pc = Threads
    BY DEF SettleState, TypeOK
  <2>2. /\ DOMAIN pc' = Threads
        /\ \A u \in Apps : pc'[u] \in {"idle", "notify", "publish", "asleep", "awake"}
        /\ \A q \in Promise : pc'[q] \in {"idle", "await", "notify", "publish"}
        /\ pc'[Worker] \in {"loop", "run", "callback", "notify", "publish", "done"}
    BY <1>0, <2>1 DEF TypeOK
  <2> QED BY <2>2 DEF TypeOK, SettleState, Outcome
<1>2. /\ T' = T /\ H' = [H EXCEPT ![t] = C[p]] /\ C' = [C EXCEPT ![p] = {}]
      /\ DistinctLists'
  BY SettlePlaces
<1>3. /\ DOMAIN H = Threads /\ DOMAIN C = Promise
      /\ T \subseteq Promise
      /\ \A u \in Threads : H[u] \subseteq Promise
      /\ \A q \in Promise : C[q] \subseteq Promise
  BY PlacesTyped DEF H, C
<1>4. OnePlace'
  <2>1. \A q, r \in Promise : \A d \in Promise : d \in C[q] /\ d \in C[r] => q = r
    BY DEF Jobs
  <2> QED BY <1>0, <1>2, <1>3, <2>1 DEF OnePlace
<1>5. Jobs'
  <2>1. /\ status' = [status EXCEPT ![p] = s] /\ s # "Pending"
        /\ DOMAIN status = Promise /\ job' = job /\ count' = count
        /\ \A q \in Promise : job[q].src \in Promise
    BY DEF SettleState, TypeOK, Outcome
  <2>2. \A d \in Promise : Open(d) /\ d # p => Open(d)'
    BY <2>1 DEF Open
  <2>3. \A q \in Promise : status[q] # "Pending" => status'[q] # "Pending"
    BY <2>1
  <2>4. \A d \in T' : Open(d)' /\ status'[job'[d].src] # "Pending"
    BY <1>2, <1>3, <2>1, <2>2, <2>3 DEF Jobs, Unplaced
  <2>5. \A u \in Threads : \A d \in H'[u] :
           Open(d)' /\ status'[job'[d].src] # "Pending"
    BY <1>2, <1>3, <2>1, <2>2, <2>3 DEF Jobs, Unplaced
  <2>6. \A q \in Promise : \A d \in C'[q] :
           Open(d)' /\ job'[d].src = q /\ status'[q] = "Pending"
    BY <1>2, <1>3, <2>1, <2>2, <2>3 DEF Jobs, Unplaced
  <2>7. current' # None => Open(current)' /\ status'[job'[current'].src] # "Pending"
    <3>1. CASE current' = current
      BY <2>1, <2>2, <2>3, <3>1 DEF Jobs, TypeOK
    <3> QED BY <3>1
  <2>8. \A q \in Promise : q > count' => status'[q] = "Pending"
    <3>1. \A q \in Promise : q > count => q # p
      BY ThreadAssumption DEF TypeOK, Promise
    <3> QED BY <2>1, <3>1 DEF Jobs
  <2>9. \A q \in Promise : pc'[q] # "idle" => q <= count' /\ job'[q].kind = "future"
    BY <1>0, <2>1 DEF Jobs, SettleState, TypeOK
  <2> QED BY <2>4, <2>5, <2>6, <2>7, <2>8, <2>9 DEF Jobs
<1>6. Control'
  BY <1>0, <1>2, <1>3 DEF Control, TypeOK, SettleState
<1> QED BY <1>1, <1>2, <1>4, <1>5, <1>6

\* Registering the continuation of a promise that has none.
LEMMA AddInv ==
    ASSUME Inv, NEW t \in Apps \cup {Worker}, NEW p \in Promise, NEW d \in Promise,
           NEW k \in Reaction, AddContinuation(t, p, d),
           job' = [job EXCEPT ![d] = [kind |-> k, src |-> p]],
           UNCHANGED <<tasks, stopping, dropped>>,
           count' \in 0..MaxPromises, count <= count', d <= count',
           status[d] = "Pending", Unplaced(d), pc[d] = "idle",
           current' # d, H[t] = {},
           \/ current' = current /\ (t = Worker => pc[t] = "callback")
           \/ current' = None /\ t = Worker
    PROVE  Inv'
<1> USE DEF Inv
<1>0. /\ None \notin Promise
      /\ \A q \in Promise : q # Worker /\ q \in Threads /\ q \notin Apps
      /\ Worker \in Threads /\ Worker \notin Apps
      /\ \A u \in Apps : u \in Threads
      /\ t \in Threads /\ t \notin Promise
  BY ThreadAssumption DEF None, Promise, Threads
<1>1. /\ DOMAIN pc = Threads
      /\ \E r \in {"publish", Rest(t)} : pc' = [pc EXCEPT ![t] = r]
      /\ status' = status /\ value' = value /\ arg' = arg
  BY DEF TypeOK, AddContinuation
<1>2. /\ t \in Apps => pc'[t] \in {"publish", "idle"}
      /\ t = Worker => pc'[t] \in {"publish", "loop", "callback"}
  BY <1>0, <1>1 DEF Rest
<1>3. TypeOK'
  <2>1. /\ DOMAIN pc' = Threads
        /\ \A u \in Apps : pc'[u] \in {"idle", "notify", "publish", "asleep", "awake"}
        /\ \A q \in Promise : pc'[q] \in {"idle", "await", "notify", "publish"}
        /\ pc'[Worker] \in {"loop", "run", "callback", "notify", "publish", "done"}
    BY <1>0, <1>1, <1>2 DEF TypeOK
  <2>2. job' \in [Promise -> [kind : Reaction \cup {"resolver", "future"},
                              src : Promise]]
    BY DEF TypeOK
  <2>3. /\ conts' \in [Promise -> Seq(Promise)]
        /\ held' \in [Threads -> Seq(Promise)]
    <3>1. <<d>> \in Seq(Promise) /\ Append(conts[p], d) \in Seq(Promise)
      BY DEF TypeOK
    <3>2. /\ conts \in [Promise -> Seq(Promise)] /\ held \in [Threads -> Seq(Promise)]
          /\ \/ held' = [held EXCEPT ![t] = <<d>>] /\ conts' = conts
             \/ conts' = [conts EXCEPT ![p] = Append(conts[p], d)] /\ held' = held
      BY DEF TypeOK, AddContinuation
    <3> QED BY <3>1, <3>2
  <2>4. overtaking' \subseteq Promise
    BY DEF TypeOK, AddContinuation
  <2>5. current' \in Promise \cup {None}
    BY DEF TypeOK
  <2>6. /\ stopping' \in BOOLEAN /\ dropped' \in BOOLEAN /\ tasks' \in Seq(Promise)
        /\ status' \in [Promise -> {"Pending", "Fulfilled", "Rejected"}]
        /\ value' \in [Promise -> Promise \cup {None}]
        /\ arg' \in [Threads -> Promise \cup {None}]
    BY <1>1 DEF TypeOK
  <2> QED BY <2>1, <2>2, <2>3, <2>4, <2>5, <2>6 DEF TypeOK
<1>4. /\ T' = T
      /\ \/ status[p] # "Pending" /\ H' = [H EXCEPT ![t] = {d}] /\ C' = C
         \/ status[p] = "Pending" /\ C' = [C EXCEPT ![p] = @ \cup {d}] /\ H' = H
      /\ DistinctLists'
  BY <1>0, AddPlaces DEF Unplaced
<1>5. /\ DOMAIN H = Threads /\ DOMAIN C = Promise
      /\ T \subseteq Promise
      /\ \A u \in Threads : H[u] \subseteq Promise
      /\ \A q \in Promise : C[q] \subseteq Promise
  BY PlacesTyped DEF H, C
<1>6. OnePlace'
  BY <1>0, <1>4, <1>5 DEF OnePlace, Unplaced
<1>7. Jobs'
  <2>1. /\ \A q \in Promise : q # d => job'[q] = job[q]
        /\ job'[d].kind = k /\ job'[d].src = p
        /\ \A q \in Promise : job[q].src \in Promise
        /\ count \in Nat /\ count' \in Nat
        /\ \A q \in Promise : q \in Nat
    <3>1. /\ count \in Nat /\ count' \in Nat
          /\ \A q \in Promise : q \in Nat
      BY ThreadAssumption DEF TypeOK, Promise
    <3>2. \A q \in Promise : q # d => job'[q] = job[q]
      BY DEF TypeOK
    <3>3. job'[d] = [kind |-> k, src |-> p]
      BY DEF TypeOK
    <3>4. \A q \in Promise : job[q].src \in Promise
      BY DEF TypeOK
    <3> QED BY <3>1, <3>2, <3>3, <3>4
  <2>2. \A e \in Promise : Open(e) /\ e # d => Open(e)'
    BY <1>1, <2>1 DEF Open
  <2>3. Open(d)'
    BY <1>1, <2>1 DEF Open
  <2>4. \A e \in T' : Open(e)' /\ status'[job'[e].src] # "Pending"
    BY <1>1, <1>4, <1>5, <2>1, <2>2 DEF Jobs, Unplaced
  <2>5. \A u \in Threads : \A e \in H'[u] :
           Open(e)' /\ status'[job'[e].src] # "Pending"
    BY <1>0, <1>1, <1>4, <1>5, <2>1, <2>2, <2>3 DEF Jobs, Unplaced
  <2>6. \A q \in Promise : \A e \in C'[q] :
           Open(e)' /\ job'[e].src = q /\ status'[q] = "Pending"
    BY <1>1, <1>4, <1>5, <2>1, <2>2, <2>3 DEF Jobs, Unplaced
  <2>7. current' # None => Open(current)' /\ status'[job'[current'].src] # "Pending"
    <3>1. CASE current' = current
      BY <1>1, <2>1, <2>2, <3>1 DEF Jobs, TypeOK
    <3> QED BY <3>1
  <2>8. \A q \in Promise : q > count' => status'[q] = "Pending"
    BY <1>1, <2>1 DEF Jobs
  <2>9. \A q \in Promise : pc'[q] # "idle" => q <= count' /\ job'[q].kind = "future"
    BY <1>0, <1>1, <2>1 DEF Jobs
  <2> QED BY <2>4, <2>5, <2>6, <2>7, <2>8, <2>9 DEF Jobs
<1>8. Control'
  <2>1. \A u \in Threads : H'[u] # {} => pc'[u] \in {"notify", "publish"}
    BY <1>0, <1>1, <1>4, <1>5 DEF Control, AddContinuation, TypeOK, Settled
  <2>2. /\ pc'[Worker] \in {"run", "callback"} => current' # None
        /\ pc'[Worker] \in {"loop", "done"} => current' = None
    <3>1. CASE t = Worker
      BY <1>0, <1>1, <3>1 DEF Control, Rest
    <3>2. CASE t # Worker
      BY <1>0, <1>1, <3>2 DEF Control
    <3> QED BY <3>1, <3>2
  <2> QED BY <2>1, <2>2 DEF Control
<1> QED BY <1>3, <1>4, <1>6, <1>7, <1>8

LEMMA ThreadFacts ==
    /\ None \notin Promise
    /\ \A q \in Promise : q # Worker /\ q \in Threads /\ q \notin Apps /\ q \in Nat
    /\ Worker \in Threads /\ Worker \notin Apps /\ Worker \notin Promise
    /\ \A u \in Apps : u \in Threads /\ u # Worker /\ u \notin Promise
BY ThreadAssumption DEF None, Promise, Threads

\* A thread that may call, and the worker before it settles, holds nothing.
LEMMA CallersHoldNothing ==
    ASSUME Inv
    PROVE  \A t \in Threads : pc[t] \notin {"notify", "publish"} => H[t] = {}
BY DEF Inv, Control

\* The next promise is new.
LEMMA NextIsNew ==
    ASSUME Inv, count < MaxPromises
    PROVE  /\ count + 1 \in Promise /\ count + 1 \in 0..MaxPromises /\ count \in Nat
           /\ Unplaced(count + 1)
           /\ status[count + 1] = "Pending"
           /\ pc[count + 1] = "idle"
           /\ current # count + 1
<1>1. count + 1 \in Promise /\ count + 1 \in 0..MaxPromises /\ count \in Nat
  BY ThreadAssumption DEF Inv, TypeOK, Promise
<1>2. ~Open(count + 1)
  BY <1>1 DEF Open
<1>3. Unplaced(count + 1)
  BY <1>2 DEF Inv, Jobs, Unplaced
<1>4. current # count + 1
  BY <1>1, <1>2, ThreadFacts DEF Inv, Jobs
<1>5. status[count + 1] = "Pending" /\ pc[count + 1] = "idle"
  BY <1>1 DEF Inv, Jobs
<1> QED BY <1>1, <1>3, <1>4, <1>5

\* A promise that is settled by its resolver or its future has no continuation.
LEMMA OwnIsUnplaced ==
    ASSUME Inv, NEW p \in Promise, job[p].kind \notin Reaction
    PROVE  Unplaced(p) /\ current # p
<1>1. ~Open(p)
  BY DEF Open
<1> QED BY <1>1, ThreadFacts DEF Inv, Jobs, Unplaced

LEMMA CurrentIsUnplaced ==
    ASSUME Inv, current # None
    PROVE  Unplaced(current) /\ current \in Promise /\ current <= count
BY DEF Inv, OnePlace, Unplaced, TypeOK, Jobs, Open

\* Steps that move no continuation.
LEMMA QuietInv ==
    ASSUME Inv, UNCHANGED <<status, conts, job, tasks, held, current>>,
           TypeOK', count <= count', Control',
           \A q \in Promise : pc'[q] # "idle" => pc[q] # "idle"
    PROVE  Inv'
<1> USE DEF Inv
<1>1. T' = T /\ H' = H /\ C' = C /\ DistinctLists'
  BY SamePlaces
<1>2. OnePlace'
  BY <1>1 DEF OnePlace
<1>3. count \in Nat /\ count' \in Nat /\ T \subseteq Promise
      /\ (\A u \in Threads : H[u] \subseteq Promise)
      /\ (\A q \in Promise : C[q] \subseteq Promise)
  BY ThreadAssumption, PlacesTyped DEF TypeOK
<1>4. \A d \in Promise : Open(d) => Open(d)'
  BY <1>3, ThreadFacts DEF Open
<1>5. Jobs'
  <2>1. /\ \A d \in T' : Open(d)' /\ status'[job'[d].src] # "Pending"
        /\ \A t \in Threads : \A d \in H'[t] :
              Open(d)' /\ status'[job'[d].src] # "Pending"
        /\ \A p \in Promise : \A d \in C'[p] :
              Open(d)' /\ job'[d].src = p /\ status'[p] = "Pending"
    BY <1>1, <1>3, <1>4 DEF Jobs
  <2>2. current' # None => Open(current)' /\ status'[job'[current'].src] # "Pending"
    BY <1>4 DEF Jobs, TypeOK
  <2>3. \A p \in Promise : p > count' => status'[p] = "Pending"
    BY <1>3, ThreadFacts DEF Jobs
  <2>4. \A p \in Promise : pc'[p] # "idle" => p <= count' /\ job'[p].kind = "future"
    BY <1>3, ThreadFacts DEF Jobs
  <2> QED BY <2>1, <2>2, <2>3, <2>4 DEF Jobs
<1> QED BY <1>1, <1>2, <1>5

LEMMA PublishInv ==
    ASSUME Inv, NEW t \in Threads, Publish(t)
    PROVE  Inv'
<1> USE DEF Inv
<1>1. T' = T \cup H[t] /\ H' = [H EXCEPT ![t] = {}] /\ C' = C /\ DistinctLists'
  BY PublishPlaces
<1>2. /\ DOMAIN H = Threads
      /\ \A u \in Threads : H[u] \subseteq Promise
      /\ T \subseteq Promise /\ (\A q \in Promise : C[q] \subseteq Promise)
  BY PlacesTyped DEF H
<1>3. /\ count' = count /\ status' = status /\ value' = value /\ job' = job
      /\ conts' = conts /\ arg' = arg /\ current' = current /\ dropped' = dropped
      /\ overtaking' = overtaking /\ pc' = [pc EXCEPT ![t] = Rest(t)]
      /\ DOMAIN pc = Threads /\ pc[t] = "publish"
  BY DEF Publish, state, TypeOK
<1>4. /\ t \in Apps \cup Promise => Rest(t) = "idle"
      /\ t = Worker => Rest(t) = IF current = None THEN "loop" ELSE "callback"
  BY <1>3, ThreadFacts DEF Rest
<1>5. TypeOK'
  <2>1. /\ DOMAIN pc' = Threads
        /\ \A u \in Apps : pc'[u] \in {"idle", "notify", "publish", "asleep", "awake"}
        /\ \A q \in Promise : pc'[q] \in {"idle", "await", "notify", "publish"}
        /\ pc'[Worker] \in {"loop", "run", "callback", "notify", "publish", "done"}
    BY <1>3, <1>4, ThreadFacts DEF TypeOK
  <2>2. /\ tasks \o held[t] \in Seq(Promise) /\ <<>> \in Seq(Promise)
        /\ held \in [Threads -> Seq(Promise)]
    BY DEF TypeOK
  <2>3. tasks' \in Seq(Promise) /\ held' \in [Threads -> Seq(Promise)]
    BY <2>2 DEF Publish
  <2>4. stopping' \in BOOLEAN
    BY DEF Publish, Reclaim, TypeOK
  <2> QED BY <1>3, <2>1, <2>3, <2>4 DEF TypeOK
<1>6. OnePlace'
  BY <1>1, <1>2, <1>3 DEF OnePlace
<1>7. \A d \in Promise : Open(d)' <=> Open(d)
  BY <1>3 DEF Open
<1>8. Jobs'
  <2>1. /\ \A d \in T' : Open(d)' /\ status'[job'[d].src] # "Pending"
        /\ \A u \in Threads : \A d \in H'[u] :
              Open(d)' /\ status'[job'[d].src] # "Pending"
        /\ \A p \in Promise : \A d \in C'[p] :
              Open(d)' /\ job'[d].src = p /\ status'[p] = "Pending"
    BY <1>1, <1>2, <1>3, <1>7 DEF Jobs
  <2>2. current' # None => Open(current)' /\ status'[job'[current'].src] # "Pending"
    BY <1>3, <1>7 DEF Jobs, TypeOK
  <2>3. \A p \in Promise : p > count' => status'[p] = "Pending"
    BY <1>3 DEF Jobs
  <2>4. \A p \in Promise : pc'[p] # "idle" => p <= count' /\ job'[p].kind = "future"
    BY <1>3, <1>4, ThreadFacts DEF Jobs
  <2> QED BY <2>1, <2>2, <2>3, <2>4 DEF Jobs
<1>9. Control'
  BY <1>1, <1>2, <1>3, <1>4, ThreadFacts DEF Control
<1> QED BY <1>1, <1>5, <1>6, <1>8, <1>9

LEMMA TakeInv ==
    ASSUME Inv, Take
    PROVE  Inv'
<1> USE DEF Inv
<1>1. /\ current' \in Promise /\ current' \notin T' /\ T = T' \cup {current'}
      /\ tasks' \in Seq(Promise)
      /\ H' = H /\ C' = C /\ DistinctLists'
  BY TakePlaces
<1>2. /\ count' = count /\ status' = status /\ value' = value /\ job' = job
      /\ conts' = conts /\ held' = held /\ arg' = arg /\ dropped' = dropped
      /\ stopping' = stopping /\ overtaking' = overtaking
      /\ pc' = [pc EXCEPT ![Worker] = "run"] /\ DOMAIN pc = Threads
      /\ pc[Worker] = "loop"
  BY DEF Take, state, TypeOK
<1>3. TypeOK'
  BY <1>1, <1>2, ThreadFacts DEF TypeOK
<1>4. OnePlace'
  BY <1>1, <1>2 DEF OnePlace
<1>5. \A d \in Promise : Open(d)' <=> Open(d)
  BY <1>2 DEF Open
<1>6. /\ T \subseteq Promise /\ (\A u \in Threads : H[u] \subseteq Promise)
      /\ (\A q \in Promise : C[q] \subseteq Promise)
  BY PlacesTyped
<1>7. Jobs'
  <2>1. /\ \A d \in T' : Open(d)' /\ status'[job'[d].src] # "Pending"
        /\ \A u \in Threads : \A d \in H'[u] :
              Open(d)' /\ status'[job'[d].src] # "Pending"
        /\ \A p \in Promise : \A d \in C'[p] :
              Open(d)' /\ job'[d].src = p /\ status'[p] = "Pending"
    BY <1>1, <1>2, <1>5, <1>6 DEF Jobs
  <2>2. Open(current)' /\ status'[job'[current'].src] # "Pending"
    <3>1. Open(current') /\ status[job[current'].src] # "Pending"
      BY <1>1 DEF Jobs
    <3> QED BY <1>2, <3>1 DEF Open
  <2>3. \A p \in Promise : p > count' => status'[p] = "Pending"
    BY <1>2 DEF Jobs
  <2>4. \A p \in Promise : pc'[p] # "idle" => p <= count' /\ job'[p].kind = "future"
    BY <1>2, ThreadFacts DEF Jobs
  <2> QED BY <2>1, <2>2, <2>3, <2>4 DEF Jobs
<1>8. Control'
  BY <1>1, <1>2, ThreadFacts DEF Control
<1> QED BY <1>1, <1>3, <1>4, <1>7, <1>8

\* A promise without a continuation is left to a waiter.
LEMMA FutureInv ==
    ASSUME Inv, NEW d \in Promise, Unplaced(d), status[d] = "Pending",
           pc[d] = "idle",
           UNCHANGED <<status, value, conts, tasks, held, stopping, arg, dropped,
                       overtaking>>,
           job' \in [Promise -> [kind : Reaction \cup {"resolver", "future"},
                                 src : Promise]],
           job'[d].kind = "future", \A q \in Promise \ {d} : job'[q] = job[q],
           count' \in 0..MaxPromises, count <= count', d <= count',
           DOMAIN pc' = Threads, pc'[d] = "await",
           \A t \in Threads \ {d, Worker} : pc'[t] = pc[t],
           \/ current' = current /\ current # d /\ pc'[Worker] = pc[Worker]
           \/ current' = None /\ pc'[Worker] = "loop" /\ H[Worker] = {}
    PROVE  Inv'
<1> USE DEF Inv
<1>1. TypeOK'
  BY ThreadFacts DEF TypeOK
<1>2. T' = T /\ H' = H /\ C' = C /\ DistinctLists'
  BY SamePlaces
<1>3. /\ T \subseteq Promise /\ (\A u \in Threads : H[u] \subseteq Promise)
      /\ (\A q \in Promise : C[q] \subseteq Promise)
      /\ count \in Nat /\ count' \in Nat
  BY PlacesTyped, ThreadAssumption DEF TypeOK
<1>4. OnePlace'
  BY <1>2, <1>3, ThreadFacts DEF OnePlace
<1>5. \A e \in Promise : Open(e) /\ e # d => Open(e)'
  BY <1>3, ThreadFacts DEF Open
<1>6. Jobs'
  <2>1. /\ \A e \in T' : Open(e)' /\ status'[job'[e].src] # "Pending"
        /\ \A u \in Threads : \A e \in H'[u] :
              Open(e)' /\ status'[job'[e].src] # "Pending"
        /\ \A p \in Promise : \A e \in C'[p] :
              Open(e)' /\ job'[e].src = p /\ status'[p] = "Pending"
    BY <1>2, <1>3, <1>5 DEF Jobs, Unplaced
  <2>2. current' # None => Open(current)' /\ status'[job'[current'].src] # "Pending"
    BY <1>5 DEF Jobs, TypeOK
  <2>3. \A p \in Promise : p > count' => status'[p] = "Pending"
    BY <1>3, ThreadFacts DEF Jobs
  <2>4. \A p \in Promise : pc'[p] # "idle" => p <= count' /\ job'[p].kind = "future"
    BY <1>3, ThreadFacts DEF Jobs
  <2> QED BY <2>1, <2>2, <2>3, <2>4 DEF Jobs
<1>7. Control'
  <2>1. H[d] = {}
    BY ThreadFacts DEF Control
  <2> QED BY <1>2, <2>1, ThreadFacts DEF Control
<1> QED BY <1>1, <1>2, <1>4, <1>6, <1>7

LEMMA StepInv ==
    ASSUME Inv, [Next]_vars
    PROVE  Inv'
<1> USE DEF Inv, state
<1>1. ASSUME NEW t \in Apps \cup {Worker}, Create(t) PROVE Inv'
  <2>1. count' \in 0..MaxPromises /\ count <= count'
    BY <1>1, ThreadAssumption DEF Create, TypeOK
  <2>2. TypeOK' /\ Control'
    BY <1>1, <2>1, SamePlaces DEF Create, TypeOK, Control
  <2> QED BY <1>1, <2>1, <2>2, QuietInv DEF Create
<1>2. ASSUME NEW t \in Apps \cup {Worker}, FromFuture(t) PROVE Inv'
  <2>1. /\ count + 1 \in Promise /\ count + 1 \in 0..MaxPromises /\ count \in Nat
        /\ Unplaced(count + 1) /\ status[count + 1] = "Pending"
        /\ pc[count + 1] = "idle" /\ current # count + 1
    BY <1>2, NextIsNew DEF FromFuture
  <2>2. /\ job' = [job EXCEPT ![count + 1].kind = "future"]
        /\ pc' = [pc EXCEPT ![count + 1] = "await"] /\ count' = count + 1
        /\ current' = current
    BY <1>2 DEF FromFuture
  <2>3. /\ job' \in [Promise -> [kind : Reaction \cup {"resolver", "future"},
                                 src : Promise]]
        /\ job'[count + 1].kind = "future"
        /\ \A q \in Promise \ {count + 1} : job'[q] = job[q]
    <3>1. /\ job[count + 1] \in [kind : Reaction \cup {"resolver", "future"},
                                  src : Promise]
          /\ job \in [Promise -> [kind : Reaction \cup {"resolver", "future"},
                                  src : Promise]]
      BY <2>1 DEF TypeOK
    <3> DEFINE new == [job[count + 1] EXCEPT !.kind = "future"]
    <3>2. /\ new \in [kind : Reaction \cup {"resolver", "future"}, src : Promise]
          /\ new.kind = "future"
      BY <3>1
    <3>3. job' = [job EXCEPT ![count + 1] = new]
      BY <2>2
    <3> HIDE DEF new
    <3> QED BY <2>1, <3>1, <3>2, <3>3
  <2>4. /\ DOMAIN pc' = Threads /\ pc'[count + 1] = "await"
        /\ \A u \in Threads \ {count + 1, Worker} : pc'[u] = pc[u]
        /\ pc'[Worker] = pc[Worker]
    BY <2>1, <2>2, ThreadFacts DEF TypeOK
  <2>5. UNCHANGED <<status, value, conts, tasks, held, stopping, arg, dropped, overtaking>>
    BY <1>2 DEF FromFuture
  <2>6. count' \in 0..MaxPromises /\ count <= count' /\ count + 1 <= count'
    BY <2>1, <2>2
  <2> QED BY <2>1, <2>2, <2>3, <2>4, <2>5, <2>6, FutureInv
<1>3. ASSUME NEW t \in Apps \cup {Worker}, NEW p \in 1..count, NEW k \in Reaction,
             Chain(t, p, k)
      PROVE  Inv'
  <2>1. /\ count + 1 \in Promise /\ count + 1 \in 0..MaxPromises /\ count \in Nat
        /\ Unplaced(count + 1) /\ status[count + 1] = "Pending"
        /\ pc[count + 1] = "idle" /\ current # count + 1
    BY <1>3, NextIsNew DEF Chain
  <2>2. /\ count' = count + 1 /\ AddContinuation(t, p, count + 1)
        /\ job' = [job EXCEPT ![count + 1] = [kind |-> k, src |-> p]]
        /\ UNCHANGED <<tasks, stopping, dropped>> /\ current' = current
        /\ pc[t] \in {"idle", "callback"} /\ (t = Worker => pc[t] = "callback")
    BY <1>3, ThreadFacts DEF Chain, MayCall
  <2>3. p \in Promise
    BY <2>1, ThreadAssumption DEF Promise, TypeOK
  <2>4. H[t] = {} /\ t \in Threads
    BY <2>2, CallersHoldNothing, ThreadFacts
  <2>5. count' \in 0..MaxPromises /\ count <= count' /\ count + 1 <= count'
    BY <2>1, <2>2
  <2> QED BY <2>1, <2>2, <2>3, <2>4, <2>5, AddInv
<1>4. ASSUME NEW t \in Apps \cup {Worker}, NEW p \in 1..count, NEW s \in Outcome,
             Settle(t, p, s)
      PROVE  Inv'
  <2>1. p \in Promise /\ p <= count
    BY ThreadAssumption DEF Promise, TypeOK
  <2>2. Unplaced(p) /\ current # p
    BY <1>4, <2>1, OwnIsUnplaced DEF Settle, Reaction
  <2>3. H[t] = {} /\ t \in Threads /\ t \notin Promise
    BY <1>4, CallersHoldNothing, ThreadFacts DEF Settle, MayCall
  <2>4. /\ SettleState(t, p, s, p) /\ current' = current
        /\ UNCHANGED <<count, job, tasks, stopping, dropped, overtaking>>
    BY <1>4 DEF Settle
  <2> QED BY <2>1, <2>2, <2>3, <2>4, SettleInv
<1>5. ASSUME NEW t \in Apps \cup {Worker}, NEW p \in 1..count, Get(t, p) PROVE Inv'
  <2>1. p \in Promise /\ t \in Apps
    BY <1>5, ThreadAssumption DEF Get, Promise, TypeOK
  <2>2. H[t] = {}
    BY <1>5, <2>1, CallersHoldNothing, ThreadFacts DEF Get, MayCall
  <2>3. TypeOK'
    BY <1>5, <2>1, ThreadFacts DEF Get, TypeOK
  <2>4. Control'
    BY <1>5, <2>1, <2>2, SamePlaces, ThreadFacts DEF Get, Control, TypeOK
  <2>5. /\ UNCHANGED <<count, status, conts, job, tasks, held, current>>
        /\ count <= count'
    BY <1>5, ThreadAssumption DEF Get, TypeOK
  <2>6. \A q \in Promise : pc'[q] = pc[q]
    BY <1>5, <2>1, ThreadFacts DEF Get, TypeOK
  <2> QED BY <2>3, <2>4, <2>5, <2>6, QuietInv
<1>6. ASSUME NEW t \in Threads, GetTest(t) PROVE Inv'
  <2>1. t \in Apps
    BY <1>6, ThreadFacts DEF GetTest, TypeOK, Threads
  <2>2. H[t] = {}
    BY <1>6, CallersHoldNothing DEF GetTest
  <2>3. TypeOK'
    BY <1>6, <2>1, ThreadFacts DEF GetTest, TypeOK
  <2>4. Control'
    BY <1>6, <2>1, <2>2, SamePlaces, ThreadFacts DEF GetTest, Control, TypeOK
  <2>5. /\ UNCHANGED <<count, status, conts, job, tasks, held, current>>
        /\ count <= count'
    BY <1>6, ThreadAssumption DEF GetTest, TypeOK
  <2>6. \A q \in Promise : pc'[q] = pc[q]
    BY <1>6, <2>1, ThreadFacts DEF GetTest, TypeOK
  <2> QED BY <2>3, <2>4, <2>5, <2>6, QuietInv
<1>7. ASSUME NEW t \in Threads, Publish(t) PROVE Inv'
  BY <1>7, PublishInv
<1>8. ASSUME NEW p \in Promise, NEW s \in Outcome, FutureReady(p, s) PROVE Inv'
  <2>1. pc[p] = "await" /\ job[p].kind = "future" /\ p <= count
    BY <1>8 DEF FutureReady, Jobs
  <2>2. Unplaced(p) /\ current # p
    BY <2>1, OwnIsUnplaced DEF Reaction
  <2>3. H[p] = {} /\ p \in Threads
    BY <2>1, CallersHoldNothing, ThreadFacts
  <2>4. /\ SettleState(p, p, s, p) /\ current' = current
        /\ UNCHANGED <<count, job, tasks, stopping, dropped, overtaking>>
    BY <1>8 DEF FutureReady
  <2> QED BY <2>1, <2>2, <2>3, <2>4, SettleInv
<1>9. CASE Drop
  <2>1. TypeOK'
    BY <1>9 DEF Drop, Reclaim, TypeOK
  <2>2. Control'
    BY <1>9, SamePlaces DEF Drop, Control
  <2> QED BY <1>9, <2>1, <2>2, QuietInv, ThreadAssumption DEF Drop, TypeOK
<1>10. CASE Take
  BY <1>10, TakeInv
<1>11. CASE Exit
  <2>1. TypeOK'
    BY <1>11, ThreadFacts DEF Exit, TypeOK
  <2>2. Control'
    BY <1>11, SamePlaces, ThreadFacts DEF Exit, Control, TypeOK
  <2> QED BY <1>11, <2>1, <2>2, QuietInv, ThreadFacts, ThreadAssumption DEF Exit, TypeOK
<1>12. CASE UNCHANGED vars
  <2>1. TypeOK'
    BY <1>12 DEF vars, TypeOK
  <2>2. Control'
    BY <1>12, SamePlaces DEF vars, Control
  <2> QED BY <1>12, <2>1, <2>2, QuietInv, ThreadAssumption DEF vars, TypeOK
<1>13. ASSUME NEW t \in Threads, Notify(t) PROVE Inv'
  <2>1. /\ UNCHANGED <<count, status, value, conts, job, tasks, held, current, dropped,
                        overtaking>>
        /\ DOMAIN pc' = Threads
        /\ pc'[t] \in {"publish", Rest(t)}
        /\ \A u \in Threads \ {t} : pc'[u] = pc[u] \/ (pc[u] = "asleep" /\ pc'[u] = "awake")
        /\ arg' = [arg EXCEPT ![t] = None]
        /\ held[t] # <<>> => pc'[t] = "publish"
        /\ pc[t] = "notify"
    BY <1>13 DEF Notify
  <2>2. /\ t \in Apps \cup Promise => Rest(t) = "idle"
        /\ t = Worker => Rest(t) = IF current = None THEN "loop" ELSE "callback"
    BY <2>1, ThreadFacts DEF Rest
  <2>3. TypeOK'
    <3>1. /\ \A u \in Apps : pc'[u] \in {"idle", "notify", "publish", "asleep", "awake"}
          /\ \A q \in Promise : pc'[q] \in {"idle", "await", "notify", "publish"}
          /\ pc'[Worker] \in {"loop", "run", "callback", "notify", "publish", "done"}
      BY <2>1, <2>2, ThreadFacts DEF TypeOK
    <3>2. stopping' \in BOOLEAN
      BY <1>13 DEF Notify, Reclaim, TypeOK
    <3> QED BY <2>1, <3>1, <3>2 DEF TypeOK
  <2>4. held[t] = <<>> => H[t] = {}
    BY EmptyList DEF H
  <2>5. H' = H
    BY <2>1, SamePlaces
  <2>6. Control'
    <3>1. \A u \in Threads : H'[u] # {} => pc'[u] \in {"notify", "publish"}
      BY <2>1, <2>4, <2>5 DEF Control
    <3>2. /\ pc'[Worker] \in {"run", "callback"} => current' # None
          /\ pc'[Worker] \in {"loop", "done"} => current' = None
      BY <2>1, <2>2, ThreadFacts DEF Control, TypeOK
    <3> QED BY <3>1, <3>2 DEF Control
  <2>7. \A q \in Promise : pc'[q] # "idle" => pc[q] # "idle"
    BY <2>1, ThreadFacts
  <2> QED BY <2>1, <2>3, <2>6, <2>7, QuietInv, ThreadAssumption DEF TypeOK
<1>14. CASE Run
  <2>1. current # None /\ H[Worker] = {} /\ pc[Worker] = "run"
    BY <1>14, CallersHoldNothing, ThreadFacts DEF Run, Control
  <2>2. /\ Unplaced(current) /\ current \in Promise /\ current <= count
        /\ status[job[current].src] # "Pending"
    BY <2>1, CurrentIsUnplaced DEF Jobs
  <2>3. CASE ~Passes(current)
    <3>1. /\ pc' = [pc EXCEPT ![Worker] = "callback"]
          /\ UNCHANGED <<count, status, value, conts, job, tasks, stopping, arg, held,
                          current, dropped, overtaking>>
      BY <1>14, <2>2, <2>3 DEF Run, Settled
    <3>2. TypeOK'
      BY <3>1, ThreadFacts DEF TypeOK
    <3>3. Control'
      BY <2>1, <3>1, SamePlaces, ThreadFacts DEF Control, TypeOK
    <3> QED BY <3>1, <3>2, <3>3, QuietInv, ThreadFacts, ThreadAssumption DEF TypeOK
  <2>4. CASE Passes(current)
    <3> DEFINE src == job[current].src
    <3>1. /\ SettleState(Worker, current, status[src], value[src])
          /\ current' = None
          /\ UNCHANGED <<count, job, tasks, stopping, dropped, overtaking>>
      BY <1>14, <2>2, <2>4 DEF Run, Settled
    <3>2. src \in Promise
      BY <2>2 DEF TypeOK
    <3>3. status[src] \in Outcome /\ value[src] \in Promise \cup {None}
      BY <2>2, <3>2 DEF TypeOK, Outcome
    <3> HIDE DEF src
    <3> QED BY <2>1, <2>2, <3>1, <3>3, SettleInv, ThreadFacts
  <2> QED BY <2>3, <2>4
<1>15. CASE CallbackReturns
  <2>1. current # None /\ H[Worker] = {} /\ pc[Worker] = "callback"
    BY <1>15, CallersHoldNothing, ThreadFacts
       DEF CallbackReturns, ReturnOutcome, ReturnPromise, ReturnFuture, Control
  <2>2. /\ Unplaced(current) /\ current \in Promise /\ current <= count
        /\ status[current] = "Pending" /\ job[current].kind \in Reaction
    BY <2>1, CurrentIsUnplaced DEF Jobs, Open
  <2>3. pc[current] = "idle"
    BY <2>2 DEF Jobs, Reaction
  <2>4. ASSUME NEW s \in Outcome, ReturnOutcome(s) PROVE Inv'
    <3>1. /\ SettleState(Worker, current, s, current) /\ current' = None
          /\ UNCHANGED <<count, job, tasks, stopping, dropped, overtaking>>
      BY <2>4 DEF ReturnOutcome
    <3> QED BY <2>1, <2>2, <3>1, SettleInv, ThreadFacts
  <2>5. ASSUME NEW q \in 1..count, ReturnPromise(q) PROVE Inv'
    <3>1. /\ AddContinuation(Worker, q, current) /\ current' = None
          /\ job' = [job EXCEPT ![current] = [kind |-> "adopt", src |-> q]]
          /\ UNCHANGED <<tasks, stopping, dropped>> /\ count' = count
      BY <2>5 DEF ReturnPromise
    <3>2. q \in Promise /\ count \in 0..MaxPromises /\ count <= count
      BY ThreadAssumption DEF Promise, TypeOK
    <3>3. "adopt" \in Reaction
      BY DEF Reaction
    <3> QED BY <2>1, <2>2, <2>3, <3>1, <3>2, <3>3, AddInv, ThreadFacts
  <2>6. CASE ReturnFuture
    <3>1. /\ job' = [job EXCEPT ![current] = [kind |-> "future", src |-> current]]
          /\ current' = None
          /\ pc' = [pc EXCEPT ![Worker] = "loop", ![current] = "await"]
          /\ UNCHANGED <<count, status, value, conts, tasks, stopping, arg, held,
                          dropped, overtaking>>
      BY <2>6 DEF ReturnFuture
    <3>2. /\ job' \in [Promise -> [kind : Reaction \cup {"resolver", "future"},
                                   src : Promise]]
          /\ job'[current].kind = "future"
          /\ \A q \in Promise \ {current} : job'[q] = job[q]
      BY <2>2, <3>1 DEF TypeOK
    <3>3. /\ DOMAIN pc' = Threads /\ pc'[current] = "await"
          /\ \A u \in Threads \ {current, Worker} : pc'[u] = pc[u]
          /\ pc'[Worker] = "loop"
      BY <2>2, <3>1, ThreadFacts DEF TypeOK
    <3>4. count' \in 0..MaxPromises /\ count <= count' /\ current <= count'
      BY <2>2, <3>1, ThreadAssumption DEF TypeOK
    <3> QED BY <2>1, <2>2, <2>3, <3>1, <3>2, <3>3, <3>4, FutureInv
  <2> QED BY <1>15, <2>4, <2>5, <2>6 DEF CallbackReturns
<1> QED BY <1>1, <1>2, <1>3, <1>4, <1>5, <1>6, <1>7, <1>8, <1>9, <1>10, <1>11,
           <1>12, <1>13, <1>14, <1>15 DEF Next

\* Whatever threads do, a continuation is in one place, at its promise while
\* that is pending and on its way to the worker once it is settled.
THEOREM Invariance == Spec => []Inv
BY InitInv, StepInv, PTL DEF Spec

\* The type invariant.
THEOREM TypeCorrect == Spec => []TypeOK
BY Invariance, PTL DEF Inv

-----------------------------------------------------------------------------
(* The refinement.                                                         *)

StageOf(d) ==
    IF ~Unplaced(d) \/ (pc[Worker] = "run" /\ d = current) THEN "waiting"
    ELSE IF d = current THEN "called" ELSE "none"

LEMMA StagesAre ==
    /\ Stages = [d \in Promise |-> StageOf(d)]
    /\ Stages' = [d \in Promise |-> StageOf(d)']
<1>1. \A d : d \in Queued <=> ~Unplaced(d)
  BY DEF Queued, Unplaced, T, H, C
<1>2. \A d : d \in Queued' <=> ~Unplaced(d)'
  BY DEF Queued, Unplaced, T, H, C
<1>3. Stages = [d \in Promise |-> StageOf(d)]
  <2>1. ASSUME NEW d \in Promise PROVE Stages[d] = StageOf(d)
    <3>1. CASE pc[Worker] = "run"
      BY <1>1, <3>1 DEF Stages, StageOf
    <3>2. CASE pc[Worker] # "run"
      BY <1>1, <3>2 DEF Stages, StageOf
    <3> QED BY <3>1, <3>2
  <2> QED BY <2>1 DEF Stages
<1>4. Stages' = [d \in Promise |-> StageOf(d)']
  <2>1. ASSUME NEW d \in Promise PROVE Stages'[d] = StageOf(d)'
    <3>1. CASE pc'[Worker] = "run"
      BY <1>2, <3>1 DEF Stages, StageOf
    <3>2. CASE pc'[Worker] # "run"
      BY <1>2, <3>2 DEF Stages, StageOf
    <3> QED BY <3>1, <3>2
  <2> QED BY <2>1 DEF Stages
<1> QED BY <1>3, <1>4

\* Steps that keep the set of queued continuations and the running one.
LEMMA SameStages ==
    ASSUME \A d \in Promise : Unplaced(d)' <=> Unplaced(d),
           current' = current, pc'[Worker] = "run" <=> pc[Worker] = "run"
    PROVE  Stages' = Stages
<1>1. \A d \in Promise : StageOf(d)' = StageOf(d)
  BY DEF StageOf
<1> QED BY <1>1, StagesAre

LEMMA SettleKeeps ==
    ASSUME Inv, NEW t \in Threads, NEW p \in Promise, NEW s, NEW v,
           SettleState(t, p, s, v), UNCHANGED tasks, H[t] = {}
    PROVE  \A d \in Promise : Unplaced(d)' <=> Unplaced(d)
<1>1. T' = T /\ H' = [H EXCEPT ![t] = C[p]] /\ C' = [C EXCEPT ![p] = {}]
  BY SettlePlaces DEF Inv
<1>2. DOMAIN H = Threads /\ DOMAIN C = Promise
  BY DEF H, C
<1> QED BY <1>1, <1>2 DEF Unplaced

LEMMA AddPuts ==
    ASSUME Inv, NEW t \in Threads, NEW p \in Promise, NEW d \in Promise,
           Unplaced(d), AddContinuation(t, p, d), UNCHANGED tasks, H[t] = {}
    PROVE  \A e \in Promise : Unplaced(e)' <=> Unplaced(e) /\ e # d
<1>1. /\ T' = T
      /\ \/ H' = [H EXCEPT ![t] = {d}] /\ C' = C
         \/ C' = [C EXCEPT ![p] = @ \cup {d}] /\ H' = H
  BY AddPlaces DEF Inv, Unplaced
<1>2. DOMAIN H = Threads /\ DOMAIN C = Promise
  BY DEF H, C
<1> QED BY <1>1, <1>2 DEF Unplaced

LEMMA InitRefines == Init => Reactions!Init
<1> SUFFICES ASSUME Init PROVE Reactions!Init
  OBVIOUS
<1>1. \A d \in Promise : StageOf(d) = "none"
  BY EmptyList, ThreadFacts DEF Init, StageOf, Unplaced, T, H, C
<1>2. Stages = [d \in Promise |-> "none"]
  BY <1>1, StagesAre
<1> QED BY <1>2 DEF Init, Reactions!Init, Reactions!Promise, Promise, None

LEMMA StepRefines ==
    ASSUME Inv, [Next]_vars
    PROVE  [Reactions!Next]_(Reactions!vars)
<1> USE DEF Inv, state
<1> DEFINE absVars == <<count, status, value, job, Stages>>
<1>0. /\ Reactions!Promise = Promise /\ Reactions!Reaction = Reaction
  BY DEF Reactions!Promise, Promise, Reactions!Reaction, Reaction
<1>1. SUFFICES Reactions!Next \/ UNCHANGED absVars
  BY DEF Reactions!vars
<1>2. ASSUME NEW t \in Apps \cup {Worker}, Create(t) PROVE Reactions!Make
  <2>1. T' = T /\ H' = H /\ C' = C
    BY <1>2, SamePlaces DEF Create
  <2>2. Stages' = Stages
    BY <1>2, <2>1, SameStages DEF Create, Unplaced
  <2> QED BY <1>2, <2>2 DEF Create, Reactions!Make
<1>3. ASSUME NEW t \in Apps \cup {Worker}, FromFuture(t) PROVE Reactions!Make
  <2>1. T' = T /\ H' = H /\ C' = C
    BY <1>3, SamePlaces DEF FromFuture
  <2>2. pc'[Worker] = pc[Worker]
    BY <1>3, NextIsNew, ThreadFacts DEF FromFuture, TypeOK
  <2>3. Stages' = Stages
    BY <1>3, <2>1, <2>2, SameStages DEF FromFuture, Unplaced
  <2> QED BY <1>3, <2>3 DEF FromFuture, Reactions!Make
<1>4. ASSUME NEW t \in Apps \cup {Worker}, NEW p \in 1..count, NEW k \in Reaction,
             Chain(t, p, k)
      PROVE  Reactions!Make
  <2>1. /\ count + 1 \in Promise /\ Unplaced(count + 1) /\ current # count + 1
        /\ count \in Nat
    BY <1>4, NextIsNew DEF Chain
  <2>2. /\ count' = count + 1 /\ AddContinuation(t, p, count + 1)
        /\ job' = [job EXCEPT ![count + 1] = [kind |-> k, src |-> p]]
        /\ tasks' = tasks /\ current' = current
        /\ status' = status /\ value' = value
        /\ pc[t] \in {"idle", "callback"} /\ (t = Worker => pc[t] = "callback")
    BY <1>4, ThreadFacts DEF Chain, MayCall, AddContinuation
  <2>3. p \in Promise /\ t \in Threads
    BY <2>1, ThreadAssumption, ThreadFacts DEF Promise, TypeOK
  <2>4. H[t] = {}
    BY <2>2, <2>3, CallersHoldNothing
  <2>5. \A e \in Promise : Unplaced(e)' <=> Unplaced(e) /\ e # count + 1
    BY <2>1, <2>2, <2>3, <2>4, AddPuts
  <2>6. pc'[Worker] = "run" <=> pc[Worker] = "run"
    BY <2>2, <2>3, ThreadFacts DEF AddContinuation, Rest, TypeOK
  <2>7. \A e \in Promise :
           StageOf(e)' = IF e = count + 1 THEN "waiting" ELSE StageOf(e)
    BY <2>1, <2>2, <2>5, <2>6 DEF StageOf
  <2>8. Stages' = [Stages EXCEPT ![count + 1] = "waiting"]
    BY <2>1, <2>7, StagesAre
  <2> QED BY <1>0, <1>4, <2>2, <2>8 DEF Chain, Reactions!Make
<1>5. ASSUME NEW t \in Threads, NEW p \in Promise, NEW s \in Outcome,
             SettleState(t, p, s, p), p <= count, H[t] = {},
             job[p].kind \in {"resolver", "future"},
             UNCHANGED <<count, job, tasks, current>>, pc[t] # "run"
      PROVE  Reactions!Settle(p, s)
  <2>1. \A d \in Promise : Unplaced(d)' <=> Unplaced(d)
    BY <1>5, SettleKeeps
  <2>2. pc'[Worker] = "run" <=> pc[Worker] = "run"
    BY <1>5, ThreadFacts DEF SettleState, TypeOK
  <2>3. Stages' = Stages
    BY <1>5, <2>1, <2>2, SameStages
  <2> QED BY <1>5, <2>3 DEF SettleState, Settled, Reactions!Settle, Reactions!Settles
<1>6. ASSUME NEW t \in Apps \cup {Worker}, NEW p \in 1..count, NEW s \in Outcome,
             Settle(t, p, s)
      PROVE  p \in Promise /\ Reactions!Settle(p, s)
  <2>1. p \in Promise /\ p <= count
    BY ThreadAssumption DEF Promise, TypeOK
  <2>2. H[t] = {} /\ t \in Threads /\ pc[t] # "run"
    BY <1>6, CallersHoldNothing, ThreadFacts DEF Settle, MayCall
  <2> QED BY <1>5, <1>6, <2>1, <2>2 DEF Settle
<1>7. ASSUME NEW p \in Promise, NEW s \in Outcome, FutureReady(p, s)
      PROVE  Reactions!Settle(p, s)
  <2>1. pc[p] = "await" /\ job[p].kind = "future" /\ p <= count
    BY <1>7 DEF FutureReady, Jobs
  <2>2. H[p] = {} /\ p \in Threads
    BY <2>1, CallersHoldNothing, ThreadFacts
  <2> QED BY <1>5, <1>7, <2>1, <2>2 DEF FutureReady
<1>8. ASSUME UNCHANGED <<count, status, value, conts, job, tasks, held, current>>,
             pc'[Worker] = "run" <=> pc[Worker] = "run"
      PROVE  UNCHANGED absVars
  <2>1. T' = T /\ H' = H /\ C' = C
    BY <1>8, SamePlaces
  <2>2. Stages' = Stages
    BY <1>8, <2>1, SameStages DEF Unplaced
  <2> QED BY <1>8, <2>2
<1>9. ASSUME NEW t \in Apps \cup {Worker}, NEW p \in 1..count, Get(t, p)
      PROVE  UNCHANGED absVars
  BY <1>8, <1>9, ThreadFacts DEF Get, TypeOK
<1>10. ASSUME NEW t \in Threads, GetTest(t) PROVE UNCHANGED absVars
  <2>1. t # Worker
    BY <1>10 DEF GetTest, TypeOK
  <2> QED BY <1>8, <1>10, <2>1, ThreadFacts DEF GetTest, TypeOK
<1>11. ASSUME NEW t \in Threads, Notify(t) PROVE UNCHANGED absVars
  <2>1. pc'[Worker] = "run" <=> pc[Worker] = "run"
    BY <1>11, ThreadFacts DEF Notify, Rest, TypeOK
  <2> QED BY <1>8, <1>11, <2>1 DEF Notify
<1>12. ASSUME NEW t \in Threads, Publish(t) PROVE UNCHANGED absVars
  <2>1. T' = T \cup H[t] /\ H' = [H EXCEPT ![t] = {}] /\ C' = C /\ DOMAIN H = Threads
    BY <1>12, PublishPlaces DEF H
  <2>2. \A d \in Promise : Unplaced(d)' <=> Unplaced(d)
    BY <2>1 DEF Unplaced
  <2>3. pc'[Worker] = "run" <=> pc[Worker] = "run"
    BY <1>12, ThreadFacts DEF Publish, Rest, TypeOK
  <2>4. Stages' = Stages
    BY <1>12, <2>2, <2>3, SameStages DEF Publish
  <2> QED BY <1>12, <2>4 DEF Publish
<1>13. CASE Drop
  BY <1>8, <1>13 DEF Drop
<1>14. CASE Exit
  BY <1>8, <1>14, ThreadFacts DEF Exit, TypeOK
<1>15. CASE UNCHANGED vars
  BY <1>8, <1>15 DEF vars
<1>16. CASE Take
  <2>1. /\ current' \in Promise /\ current' \notin T' /\ T = T' \cup {current'}
        /\ H' = H /\ C' = C
    BY <1>16, TakePlaces
  <2>2. /\ current = None /\ pc[Worker] = "loop" /\ pc'[Worker] = "run"
    BY <1>16, ThreadFacts DEF Take, Control, TypeOK
  <2>3. \A d \in Promise : Unplaced(d) <=> Unplaced(d)' /\ d # current'
    BY <2>1 DEF Unplaced
  <2>4. \A d \in Promise : StageOf(d)' = StageOf(d)
    BY <2>1, <2>2, <2>3, ThreadFacts DEF StageOf
  <2>5. Stages' = Stages
    BY <2>4, StagesAre
  <2> QED BY <1>16, <2>5 DEF Take
<1>17. CASE Run
  <2>1. current # None /\ H[Worker] = {} /\ pc[Worker] = "run"
    BY <1>17, CallersHoldNothing, ThreadFacts DEF Run, Control
  <2>2. /\ Unplaced(current) /\ current \in Promise
        /\ status[job[current].src] # "Pending" /\ status[current] = "Pending"
    BY <2>1, CurrentIsUnplaced DEF Jobs, Open
  <2>3. Stages[current] = "waiting"
    BY <2>1, <2>2, StagesAre DEF StageOf
  <2>4. Reactions!Passes(current) <=> Passes(current)
    BY DEF Passes, Reactions!Passes
  <2>5. CASE ~Passes(current)
    <3>1. /\ pc' = [pc EXCEPT ![Worker] = "callback"]
          /\ UNCHANGED <<count, status, value, conts, job, tasks, held, current>>
      BY <1>17, <2>2, <2>5 DEF Run, Settled
    <3>2. T' = T /\ H' = H /\ C' = C /\ pc'[Worker] = "callback"
      BY <3>1, SamePlaces, ThreadFacts DEF TypeOK
    <3>3. \A d \in Promise :
             StageOf(d)' = IF d = current THEN "called" ELSE StageOf(d)
      BY <2>1, <2>2, <3>1, <3>2 DEF StageOf, Unplaced
    <3>4. Stages' = [Stages EXCEPT ![current] = "called"]
      BY <2>2, <3>3, StagesAre
    <3>5. \A e \in Promise : Stages[e] # "called"
      BY <2>1, StagesAre DEF StageOf
    <3>6. Reactions!Call(current)
      BY <1>0, <2>2, <2>3, <2>4, <2>5, <3>1, <3>4, <3>5
         DEF Reactions!Call, Reactions!Due
    <3> QED BY <1>0, <2>2, <3>6 DEF Reactions!Next
  <2>6. CASE Passes(current)
    <3>1. /\ SettleState(Worker, current, status[job[current].src],
                         value[job[current].src])
          /\ current' = None
          /\ UNCHANGED <<count, job, tasks>>
      BY <1>17, <2>2, <2>6 DEF Run, Settled
    <3>2. \A d \in Promise : Unplaced(d)' <=> Unplaced(d)
      BY <2>1, <2>2, <3>1, SettleKeeps, ThreadFacts
    <3>3. pc'[Worker] = "notify"
      BY <3>1, ThreadFacts DEF SettleState, TypeOK
    <3>4. \A d \in Promise : StageOf(d)' = IF d = current THEN "none" ELSE StageOf(d)
      BY <2>2, <3>1, <3>2, <3>3, ThreadFacts DEF StageOf
    <3>5. Stages' = [Stages EXCEPT ![current] = "none"]
      BY <2>2, <3>4, StagesAre
    <3>6. Reactions!Pass(current)
      BY <2>2, <2>3, <2>4, <2>6, <3>1, <3>5
         DEF SettleState, Reactions!Pass, Reactions!Due, Reactions!Settles
    <3> QED BY <1>0, <2>2, <3>6 DEF Reactions!Next
  <2> QED BY <2>5, <2>6
<1>18. CASE CallbackReturns
  <2>1. current # None /\ H[Worker] = {} /\ pc[Worker] = "callback"
    BY <1>18, CallersHoldNothing, ThreadFacts
       DEF CallbackReturns, ReturnOutcome, ReturnPromise, ReturnFuture, Control
  <2>2. /\ Unplaced(current) /\ current \in Promise /\ status[current] = "Pending"
    BY <2>1, CurrentIsUnplaced DEF Jobs, Open
  <2>3. Stages[current] = "called"
    BY <2>1, <2>2, StagesAre DEF StageOf
  <2>4. ASSUME NEW s \in Outcome, ReturnOutcome(s) PROVE Reactions!Return(current)
    <3>1. /\ SettleState(Worker, current, s, current) /\ current' = None
          /\ UNCHANGED <<count, job, tasks>>
      BY <2>4 DEF ReturnOutcome
    <3>2. \A d \in Promise : Unplaced(d)' <=> Unplaced(d)
      BY <2>1, <2>2, <3>1, SettleKeeps, ThreadFacts
    <3>3. pc'[Worker] = "notify"
      BY <3>1, ThreadFacts DEF SettleState, TypeOK
    <3>4. \A d \in Promise : StageOf(d)' = IF d = current THEN "none" ELSE StageOf(d)
      BY <2>1, <2>2, <3>1, <3>2, <3>3, ThreadFacts DEF StageOf
    <3>5. Stages' = [Stages EXCEPT ![current] = "none"]
      BY <2>2, <3>4, StagesAre
    <3> QED BY <2>2, <2>3, <3>1, <3>5
            DEF SettleState, Reactions!Return, Reactions!Settles, Outcome
  <2>5. ASSUME NEW q \in 1..count, ReturnPromise(q) PROVE Reactions!Return(current)
    <3>1. /\ AddContinuation(Worker, q, current) /\ current' = None /\ q # current
          /\ job' = [job EXCEPT ![current] = [kind |-> "adopt", src |-> q]]
          /\ UNCHANGED <<tasks, count, status, value>>
      BY <2>5 DEF ReturnPromise, AddContinuation
    <3>2. q \in Promise
      BY ThreadAssumption DEF Promise, TypeOK
    <3>3. \A e \in Promise : Unplaced(e)' <=> Unplaced(e) /\ e # current
      BY <2>1, <2>2, <3>1, <3>2, AddPuts, ThreadFacts
    <3>4. pc'[Worker] # "run"
      BY <3>1, ThreadFacts DEF AddContinuation, Rest, TypeOK
    <3>5. \A d \in Promise :
             StageOf(d)' = IF d = current THEN "waiting" ELSE StageOf(d)
      BY <2>1, <2>2, <3>1, <3>3, <3>4, ThreadFacts DEF StageOf
    <3>6. Stages' = [Stages EXCEPT ![current] = "waiting"]
      BY <2>2, <3>5, StagesAre
    <3> QED BY <2>3, <3>1, <3>6 DEF Reactions!Return
  <2>6. ASSUME ReturnFuture PROVE Reactions!Return(current)
    <3>1. /\ job' = [job EXCEPT ![current] = [kind |-> "future", src |-> current]]
          /\ current' = None
          /\ pc' = [pc EXCEPT ![Worker] = "loop", ![current] = "await"]
          /\ UNCHANGED <<count, status, value, conts, tasks, held>>
      BY <2>6 DEF ReturnFuture
    <3>2. T' = T /\ H' = H /\ C' = C /\ pc'[Worker] = "loop"
      BY <2>2, <3>1, SamePlaces, ThreadFacts DEF TypeOK
    <3>3. \A d \in Promise : StageOf(d)' = IF d = current THEN "none" ELSE StageOf(d)
      BY <2>1, <2>2, <3>1, <3>2, ThreadFacts DEF StageOf, Unplaced
    <3>4. Stages' = [Stages EXCEPT ![current] = "none"]
      BY <2>2, <3>3, StagesAre
    <3> QED BY <2>3, <3>1, <3>4 DEF Reactions!Return
  <2>7. Reactions!Return(current)
    BY <1>18, <2>4, <2>5, <2>6 DEF CallbackReturns
  <2> QED BY <1>0, <2>2, <2>7 DEF Reactions!Next
<1>19. ASSUME NEW p \in Promise, NEW s \in Outcome, Reactions!Settle(p, s)
       PROVE  Reactions!Next
  BY <1>0, <1>19 DEF Reactions!Next, Outcome
<1>20. Reactions!Make => Reactions!Next
  BY DEF Reactions!Next
<1> HIDE DEF absVars
<1> QED BY <1>2, <1>3, <1>4, <1>6, <1>7, <1>9, <1>10, <1>11, <1>12, <1>13, <1>14,
           <1>15, <1>16, <1>17, <1>18, <1>19, <1>20 DEF Next, absVars

\* Promises implement PromiseReactions: with any number of threads, callbacks
\* and futures that make, chain and settle promises at the same time, every
\* reaction runs once, after its source was settled and alone, and every
\* promise is settled once with the outcome it is due.
THEOREM Implements == Spec => Refines
<1>1. Inv /\ [Next]_vars => [Reactions!Next]_(Reactions!vars)
  BY StepRefines
<1> QED BY <1>1, InitRefines, Invariance, PTL DEF Spec, Refines, Reactions!Spec

-----------------------------------------------------------------------------
(* Reactions to one promise wait in the order in which they were added.    *)

Plain(d) == job[d].kind \in {"then", "catch"}
Before(c, d, s) == \E i, j \in DOMAIN s : i < j /\ s[i] = c /\ s[j] = d

\* c is in the queue, and ahead of d if d is; or both wait in one list, c first.
Turn(c, d) ==
    \/ c \in T /\ (d \in T => Before(c, d, tasks))
    \/ \E t \in Threads : Before(c, d, held[t])
    \/ \E p \in Promise : Before(c, d, conts[p])

\* Two reactions to one promise that wait, the second of which was not added
\* while the first was in the hands of a thread.
Rivals(c, d) ==
    /\ c < d /\ Plain(c) /\ Plain(d) /\ job[c].src = job[d].src
    /\ d \notin overtaking /\ ~Unplaced(c) /\ ~Unplaced(d)

OrderInv == \A c, d \in Promise : Rivals(c, d) => Turn(c, d)

\* What is before what in lists that grow, are joined or lose their first.
LEMMA BeforeIn ==
    ASSUME NEW s, NEW c, NEW d, Before(c, d, s)
    PROVE  c \in ToSet(s) /\ d \in ToSet(s)
BY DEF Before, ToSet

LEMMA BeforeNone == \A c, d : ~Before(c, d, <<>>)
BY DEF Before

LEMMA BeforeAppended ==
    ASSUME NEW s \in Seq(Promise), NEW e \in Promise, NEW c, NEW d
    PROVE  /\ Before(c, d, s) => Before(c, d, Append(s, e))
           /\ c \in ToSet(s) => Before(c, e, Append(s, e))
<1> DEFINE a == Append(s, e)
<1>1. /\ DOMAIN a = 1..(Len(s) + 1) /\ DOMAIN s = 1..Len(s) /\ Len(s) \in Nat
      /\ \A i \in 1..Len(s) : a[i] = s[i]
      /\ a[Len(s) + 1] = e
  OBVIOUS
<1>2. /\ \A i \in DOMAIN s : i \in DOMAIN a /\ i < Len(s) + 1
      /\ Len(s) + 1 \in DOMAIN a
  BY <1>1
<1> HIDE DEF a
<1>3. Before(c, d, s) => Before(c, d, a)
  BY <1>1, <1>2 DEF Before
<1>4. c \in ToSet(s) => Before(c, e, a)
  BY <1>1, <1>2 DEF Before, ToSet
<1> QED BY <1>3, <1>4 DEF a

LEMMA BeforeJoined ==
    ASSUME NEW s \in Seq(Promise), NEW u \in Seq(Promise), NEW c, NEW d
    PROVE  /\ Before(c, d, s) => Before(c, d, s \o u)
           /\ Before(c, d, u) => Before(c, d, s \o u)
           /\ c \in ToSet(s) /\ d \in ToSet(u) => Before(c, d, s \o u)
<1> DEFINE a == s \o u
           m == Len(s)
           n == Len(u)
<1>1. /\ m \in Nat /\ n \in Nat /\ DOMAIN s = 1..m /\ DOMAIN u = 1..n
      /\ DOMAIN a = 1..(m + n)
      /\ \A i \in 1..m : a[i] = s[i]
      /\ \A i \in (m + 1)..(m + n) : a[i] = u[i - m]
  OBVIOUS
<1>2. \A i \in 1..n : i + m \in (m + 1)..(m + n) /\ (i + m) - m = i
  BY <1>1
<1>3. \A i \in DOMAIN s : i \in DOMAIN a /\ a[i] = s[i]
  BY <1>1
<1>4. \A i \in DOMAIN u : i + m \in DOMAIN a /\ a[i + m] = u[i]
  <2>1. \A i \in (m + 1)..(m + n) : i \in DOMAIN a
    BY <1>1
  <2> QED BY <1>1, <1>2, <2>1
<1>5. /\ \A i \in DOMAIN s, j \in DOMAIN u : i < j + m
      /\ \A i, j \in DOMAIN u : i < j => i + m < j + m
  BY <1>1
<1> HIDE DEF a, m, n
<1>6. Before(c, d, s) => Before(c, d, a)
  BY <1>3 DEF Before
<1>7. Before(c, d, u) => Before(c, d, a)
  BY <1>4, <1>5 DEF Before
<1>8. c \in ToSet(s) /\ d \in ToSet(u) => Before(c, d, a)
  BY <1>3, <1>4, <1>5 DEF Before, ToSet
<1> QED BY <1>6, <1>7, <1>8 DEF a

LEMMA BeforeRest ==
    ASSUME NEW s \in Seq(Promise), s # <<>>, Distinct(s), NEW c, NEW d, Before(c, d, s)
    PROVE  d # Head(s) /\ (c # Head(s) => Before(c, d, Tail(s)))
<1> DEFINE u == Tail(s)
           h == Head(s)
<1>1. /\ DOMAIN s = 1..Len(s) /\ Len(s) \in Nat /\ h = s[1] /\ 1 \in DOMAIN s
      /\ \A i \in DOMAIN s : i = 1 \/ (i - 1 \in DOMAIN u /\ u[i - 1] = s[i])
  OBVIOUS
<1>2. PICK i, j \in DOMAIN s : i < j /\ s[i] = c /\ s[j] = d
  BY DEF Before
<1>3. j # 1 /\ i - 1 < j - 1
  BY <1>1, <1>2
<1> HIDE DEF u, h
<1>4. d # h
  BY <1>1, <1>2, <1>3 DEF Distinct
<1>5. c # h => Before(c, d, u)
  BY <1>1, <1>2, <1>3 DEF Before
<1> QED BY <1>4, <1>5 DEF u, h

-----------------------------------------------------------------------------
\* A step that leaves the lists alone, and the jobs of what is in them.
LEMMA OrderQuiet ==
    ASSUME Inv, OrderInv, UNCHANGED <<tasks, held, conts, overtaking>>,
           \A c \in Promise : ~Unplaced(c) => job'[c] = job[c]
    PROVE  OrderInv'
<1>1. T' = T /\ H' = H /\ C' = C
  BY SamePlaces DEF Inv
<1>2. \A c : Unplaced(c)' <=> Unplaced(c)
  BY <1>1 DEF Unplaced
<1>3. \A c, d \in Promise : Rivals(c, d)' => Rivals(c, d)
  <2> HIDE DEF Unplaced
  <2> QED BY <1>2 DEF Rivals, Plain
<1>4. \A c, d : Turn(c, d)' <=> Turn(c, d)
  BY <1>1 DEF Turn
<1> QED BY <1>3, <1>4 DEF OrderInv

\* A promise is settled: its list moves to the thread that settles it.
LEMMA OrderSettle ==
    ASSUME Inv, OrderInv, NEW t \in Threads, NEW p \in Promise, NEW s, NEW v,
           SettleState(t, p, s, v), UNCHANGED <<job, tasks, overtaking>>, H[t] = {}
    PROVE  OrderInv'
<1>1. T' = T /\ H' = [H EXCEPT ![t] = C[p]] /\ C' = [C EXCEPT ![p] = {}]
  BY SettlePlaces DEF Inv
<1>2. DOMAIN H = Threads /\ DOMAIN C = Promise
  BY DEF H, C
<1>3. \A c : ~Unplaced(c)' => ~Unplaced(c)
  BY <1>1, <1>2 DEF Unplaced
<1>4. \A c, d \in Promise : Rivals(c, d)' => Rivals(c, d)
  <2> HIDE DEF Unplaced
  <2> QED BY <1>3 DEF Rivals, Plain
<1>5. /\ held \in [Threads -> Seq(Promise)] /\ conts \in [Promise -> Seq(Promise)]
      /\ held' = [held EXCEPT ![t] = conts[p]]
      /\ conts' = [conts EXCEPT ![p] = <<>>]
  BY DEF Inv, TypeOK, SettleState
<1>6. \A c, d : ~Before(c, d, held[t])
  BY BeforeIn DEF H
<1>7. ASSUME NEW c, NEW d, Turn(c, d) PROVE Turn(c, d)'
  <2>1. CASE c \in T /\ (d \in T => Before(c, d, tasks))
    BY <1>1, <2>1 DEF Turn
  <2>2. ASSUME NEW u \in Threads, Before(c, d, held[u]) PROVE Turn(c, d)'
    <3>1. u # t /\ held'[u] = held[u]
      BY <1>5, <1>6, <2>2
    <3> QED BY <2>2, <3>1 DEF Turn
  <2>3. ASSUME NEW q \in Promise, Before(c, d, conts[q]) PROVE Turn(c, d)'
    <3>1. CASE q = p
      <4>1. held'[t] = conts[p]
        BY <1>5
      <4> QED BY <2>3, <3>1, <4>1 DEF Turn
    <3>2. CASE q # p
      <4>1. conts'[q] = conts[q]
        BY <1>5, <3>2
      <4> QED BY <2>3, <4>1 DEF Turn
    <3> QED BY <3>1, <3>2
  <2> QED BY <1>7, <2>1, <2>2, <2>3 DEF Turn
<1> HIDE DEF Rivals, Turn
<1> QED BY <1>4, <1>7 DEF OrderInv

\* A continuation is registered: one of an adoption, or one that is new.
LEMMA OrderAdd ==
    ASSUME Inv, OrderInv, NEW t \in Threads, NEW p \in Promise, NEW d \in Promise,
           AddContinuation(t, p, d), UNCHANGED tasks, Unplaced(d), H[t] = {},
           NEW k, job' = [job EXCEPT ![d] = [kind |-> k, src |-> p]],
           k = "adopt" \/ \A c \in Promise : Open(c) => c < d
    PROVE  OrderInv'
<1>1. /\ T' = T
      /\ status[p] # "Pending" => H' = [H EXCEPT ![t] = {d}] /\ C' = C
      /\ status[p] = "Pending" => C' = [C EXCEPT ![p] = @ \cup {d}] /\ H' = H
  BY AddPlaces DEF Inv, Unplaced
<1>2. /\ DOMAIN H = Threads /\ DOMAIN C = Promise
      /\ T \subseteq Promise
      /\ \A u \in Threads : H[u] \subseteq Promise
      /\ \A q \in Promise : C[q] \subseteq Promise
  BY PlacesTyped DEF H, C, Inv
<1>3. \A c : ~Unplaced(c)' => ~Unplaced(c) \/ c = d
  BY <1>1, <1>2 DEF Unplaced
<1>4. \A c \in Promise : ~Unplaced(c) => Open(c)
  BY DEF Unplaced, Inv, Jobs
<1>5. /\ job'[d] = [kind |-> k, src |-> p]
      /\ \A c \in Promise : c # d => job'[c] = job[c]
      /\ \A c \in Promise : c \in Nat
  <2>1. \A c \in Promise : c \in Nat
    BY ThreadFacts
  <2>2. job'[d] = [kind |-> k, src |-> p] /\ \A c \in Promise : c # d => job'[c] = job[c]
    BY DEF Inv, TypeOK
  <2> QED BY <2>1, <2>2
<1>6. /\ \A c : c # d => (c \in overtaking' <=> c \in overtaking)
      /\ (\E u \in Threads : \E c \in H[u] : job[c].src = p) => d \in overtaking'
  BY DEF AddContinuation, H
<1>7. /\ held \in [Threads -> Seq(Promise)] /\ conts \in [Promise -> Seq(Promise)]
      /\ IF status[p] # "Pending"
         THEN held' = [held EXCEPT ![t] = <<d>>] /\ conts' = conts
         ELSE conts' = [conts EXCEPT ![p] = Append(conts[p], d)] /\ held' = held
  BY DEF Inv, TypeOK, AddContinuation, Settled
<1>8. \A c, e : ~Before(c, e, held[t])
  BY BeforeIn DEF H
<1>9. ASSUME NEW c, NEW e, Turn(c, e) PROVE Turn(c, e)'
  <2>1. CASE c \in T /\ (e \in T => Before(c, e, tasks))
    BY <1>1, <2>1 DEF Turn
  <2>2. ASSUME NEW u \in Threads, Before(c, e, held[u]) PROVE Turn(c, e)'
    <3>1. held'[u] = held[u]
      BY <1>7, <1>8, <2>2
    <3> QED BY <2>2, <3>1 DEF Turn
  <2>3. ASSUME NEW q \in Promise, Before(c, e, conts[q]) PROVE Turn(c, e)'
    <3>1. conts'[q] = conts[q] \/ conts'[q] = Append(conts[q], d)
      BY <1>7
    <3>2. Before(c, e, conts'[q])
      <4>1. conts[q] \in Seq(Promise)
        BY <1>7
      <4>2. Before(c, e, Append(conts[q], d))
        BY <2>3, <4>1, BeforeAppended
      <4>3. CASE conts'[q] = conts[q]
        BY <2>3, <4>3
      <4>4. CASE conts'[q] = Append(conts[q], d)
        BY <4>2, <4>4
      <4> QED BY <3>1, <4>3, <4>4
    <3> QED BY <3>2 DEF Turn
  <2> QED BY <1>9, <2>1, <2>2, <2>3 DEF Turn
<1>10. ASSUME NEW c \in Promise, NEW e \in Promise, Rivals(c, e)' PROVE Turn(c, e)'
  <2>1. CASE c # d /\ e # d
    <3>1. Rivals(c, e)
      <4> HIDE DEF Unplaced
      <4> QED BY <1>3, <1>5, <1>6, <1>10, <2>1 DEF Rivals, Plain
    <3> QED BY <1>9, <3>1 DEF OrderInv
  <2>2. CASE c = d
    <3>1. k # "adopt" /\ d < e /\ ~Unplaced(e)
      <4> HIDE DEF Unplaced
      <4> QED BY <1>3, <1>5, <1>10, <2>2 DEF Rivals, Plain
    <3>2. e < d
      BY <1>4, <3>1
    <3> QED BY <1>5, <3>1, <3>2
  <2>3. CASE e = d /\ c # d
    <3>1. c < d /\ ~Unplaced(c) /\ job[c].src = p /\ d \notin overtaking'
      <4> HIDE DEF Unplaced
      <4> QED BY <1>3, <1>5, <1>10, <2>3 DEF Rivals
    <3>2. \A u \in Threads : c \notin H[u]
      BY <1>6, <3>1
    <3>3. CASE status[p] = "Pending"
      <4>1. c \notin T
        BY <3>1, <3>3 DEF Inv, Jobs
      <4>2. c \in C[p]
        BY <3>1, <3>2, <4>1 DEF Unplaced, Inv, Jobs
      <4>3. conts'[p] = Append(conts[p], d) /\ conts[p] \in Seq(Promise)
        BY <1>7, <3>3
      <4>4. Before(c, d, conts'[p])
        BY <4>2, <4>3, BeforeAppended DEF C
      <4> QED BY <2>3, <4>4 DEF Turn
    <3>4. CASE status[p] # "Pending"
      <4>1. \A q \in Promise : c \notin C[q]
        BY <3>1, <3>4 DEF Inv, Jobs
      <4>2. c \in T'
        BY <1>1, <3>1, <3>2, <4>1 DEF Unplaced
      <4>3. d \notin T'
        BY <1>1 DEF Unplaced
      <4> QED BY <2>3, <4>2, <4>3 DEF Turn
    <3> QED BY <3>3, <3>4
  <2> QED BY <2>1, <2>2, <2>3
<1> QED BY <1>10 DEF OrderInv

\* A thread's list is put behind the queue.
LEMMA OrderPublish ==
    ASSUME Inv, OrderInv, NEW t \in Threads, Publish(t)
    PROVE  OrderInv'
<1>1. T' = T \cup H[t] /\ H' = [H EXCEPT ![t] = {}] /\ C' = C
  BY PublishPlaces DEF Inv
<1>2. DOMAIN H = Threads
  BY DEF H
<1>3. \A c : ~Unplaced(c)' => ~Unplaced(c)
  BY <1>1, <1>2 DEF Unplaced
<1>4. /\ tasks \in Seq(Promise) /\ held \in [Threads -> Seq(Promise)]
      /\ tasks' = tasks \o held[t] /\ held' = [held EXCEPT ![t] = <<>>]
      /\ UNCHANGED <<job, conts, overtaking>>
  BY DEF Inv, TypeOK, Publish, state
<1>5. \A c, d \in Promise : Rivals(c, d)' => Rivals(c, d)
  <2> HIDE DEF Unplaced
  <2> QED BY <1>3, <1>4 DEF Rivals, Plain
<1>6. ASSUME NEW c, NEW d, Turn(c, d) PROVE Turn(c, d)'
  <2>1. CASE c \in T /\ (d \in T => Before(c, d, tasks))
    <3>1. d \in T' => Before(c, d, tasks')
      BY <1>1, <1>4, <2>1, BeforeJoined DEF T, H
    <3> QED BY <1>1, <2>1, <3>1 DEF Turn
  <2>2. ASSUME NEW u \in Threads, Before(c, d, held[u]) PROVE Turn(c, d)'
    <3>1. CASE u = t
      <4>1. Before(c, d, tasks') /\ c \in H[t]
        BY <1>4, <2>2, <3>1, BeforeJoined, BeforeIn DEF H
      <4> QED BY <1>1, <4>1 DEF Turn
    <3>2. CASE u # t
      <4>1. held'[u] = held[u]
        BY <1>4, <3>2
      <4> QED BY <2>2, <4>1 DEF Turn
    <3> QED BY <3>1, <3>2
  <2>3. ASSUME NEW q \in Promise, Before(c, d, conts[q]) PROVE Turn(c, d)'
    BY <1>4, <2>3 DEF Turn
  <2> QED BY <1>6, <2>1, <2>2, <2>3 DEF Turn
<1> HIDE DEF Rivals, Turn
<1> QED BY <1>5, <1>6 DEF OrderInv

\* The first of the queue leaves it.
LEMMA OrderTake ==
    ASSUME Inv, OrderInv, Take
    PROVE  OrderInv'
<1>1. /\ current' \in Promise /\ current' \notin T' /\ T = T' \cup {current'}
      /\ H' = H /\ C' = C
  BY TakePlaces DEF Inv
<1>2. /\ tasks \in Seq(Promise) /\ tasks # <<>> /\ Distinct(tasks)
      /\ tasks' = Tail(tasks) /\ current' = Head(tasks)
      /\ UNCHANGED <<job, held, conts, overtaking>>
  BY DEF Inv, TypeOK, DistinctLists, Take, state
<1>3. \A c : ~Unplaced(c)' => ~Unplaced(c)
  BY <1>1 DEF Unplaced
<1>4. \A c, d \in Promise : Rivals(c, d)' => Rivals(c, d)
  <2> HIDE DEF Unplaced
  <2> QED BY <1>2, <1>3 DEF Rivals, Plain
<1>6. ASSUME NEW c \in Promise, NEW d \in Promise, Turn(c, d), ~Unplaced(c)' PROVE Turn(c, d)'
  <2>1. CASE c \in T /\ (d \in T => Before(c, d, tasks))
    <3>1. c # current'
      BY <1>1, <1>6, <2>1 DEF Unplaced, Inv, OnePlace
    <3>2. d \in T' => Before(c, d, tasks')
      BY <1>1, <1>2, <2>1, <3>1, BeforeRest
    <3> QED BY <1>1, <2>1, <3>1, <3>2 DEF Turn
  <2>2. CASE \/ \E t \in Threads : Before(c, d, held[t])
             \/ \E p \in Promise : Before(c, d, conts[p])
    BY <1>2, <2>2 DEF Turn
  <2> QED BY <1>6, <2>1, <2>2 DEF Turn
<1>7. \A c, d : Rivals(c, d)' => ~Unplaced(c)'
  BY DEF Rivals
<1> HIDE DEF Rivals, Turn, Unplaced
<1> QED BY <1>4, <1>6, <1>7 DEF OrderInv

\* The order is kept from the start and by every step.
LEMMA InitOrder == Init => OrderInv
<1> SUFFICES ASSUME Init PROVE OrderInv
  OBVIOUS
<1>1. \A c : Unplaced(c)
  BY EmptyList DEF Init, T, H, C, Unplaced
<1> QED BY <1>1 DEF OrderInv, Rivals

LEMMA OrderStep ==
    ASSUME Inv, OrderInv, [Next]_vars
    PROVE  OrderInv'
<1> USE DEF state
<1>0. TypeOK /\ Jobs /\ Control
  BY DEF Inv
<1>1. ASSUME UNCHANGED <<tasks, held, conts, overtaking, job>> PROVE OrderInv'
  BY <1>1, OrderQuiet
<1>2. ASSUME NEW t \in Apps \cup {Worker}, FromFuture(t) PROVE OrderInv'
  <2>1. Unplaced(count + 1)
    BY <1>2, NextIsNew DEF FromFuture
  <2>2. \A q \in Promise : q # count + 1 => job'[q] = job[q]
    BY <1>0, <1>2 DEF FromFuture, TypeOK
  <2>3. UNCHANGED <<tasks, held, conts, overtaking>>
    BY <1>2 DEF FromFuture
  <2> HIDE DEF Unplaced
  <2> QED BY <2>1, <2>2, <2>3, OrderQuiet
<1>3. ASSUME NEW t \in Apps \cup {Worker}, NEW p \in 1..count, NEW k \in Reaction,
             Chain(t, p, k)
      PROVE  OrderInv'
  <2>1. count + 1 \in Promise /\ count \in Nat /\ Unplaced(count + 1)
    BY <1>3, NextIsNew DEF Chain
  <2>2. /\ AddContinuation(t, p, count + 1) /\ UNCHANGED tasks
        /\ job' = [job EXCEPT ![count + 1] = [kind |-> k, src |-> p]]
        /\ pc[t] \in {"idle", "callback"}
    BY <1>3, ThreadFacts DEF Chain, MayCall
  <2>3. p \in Promise
    BY <1>0, <2>1, ThreadAssumption DEF Promise, TypeOK
  <2>4. H[t] = {} /\ t \in Threads
    BY <2>2, CallersHoldNothing, ThreadFacts
  <2>5. \A c \in Promise : Open(c) => c < count + 1
    BY <2>1, ThreadFacts DEF Open
  <2> QED BY <2>1, <2>2, <2>3, <2>4, <2>5, OrderAdd
<1>4. ASSUME NEW t \in Apps \cup {Worker}, NEW p \in 1..count, NEW s \in Outcome,
             Settle(t, p, s)
      PROVE  OrderInv'
  <2>1. p \in Promise
    BY <1>0, ThreadAssumption DEF Promise, TypeOK
  <2>2. H[t] = {} /\ t \in Threads
    BY <1>4, CallersHoldNothing, ThreadFacts DEF Settle, MayCall
  <2>3. SettleState(t, p, s, p) /\ UNCHANGED <<job, tasks, overtaking>>
    BY <1>4 DEF Settle
  <2> QED BY <2>1, <2>2, <2>3, OrderSettle
<1>5. ASSUME NEW p \in Promise, NEW s \in Outcome, FutureReady(p, s) PROVE OrderInv'
  <2>1. H[p] = {} /\ p \in Threads
    BY <1>5, CallersHoldNothing, ThreadFacts DEF FutureReady
  <2>2. SettleState(p, p, s, p) /\ UNCHANGED <<job, tasks, overtaking>>
    BY <1>5 DEF FutureReady
  <2> QED BY <2>1, <2>2, OrderSettle
<1>6. CASE Run
  <2>1. current # None /\ H[Worker] = {}
    BY <1>0, <1>6, CallersHoldNothing, ThreadFacts DEF Run, Control
  <2>2. current \in Promise
    BY <2>1, CurrentIsUnplaced
  <2>3. UNCHANGED <<job, tasks, overtaking>>
    BY <1>6 DEF Run
  <2>4. \/ UNCHANGED <<held, conts>>
        \/ \E s, v : SettleState(Worker, current, s, v)
    BY <1>6 DEF Run
  <2>5. ASSUME NEW s, NEW v, SettleState(Worker, current, s, v) PROVE OrderInv'
    BY <2>1, <2>2, <2>3, <2>5, OrderSettle, ThreadFacts
  <2> QED BY <1>1, <2>3, <2>4, <2>5
<1>7. CASE CallbackReturns
  <2>1. current # None /\ H[Worker] = {}
    BY <1>0, <1>7, CallersHoldNothing, ThreadFacts
       DEF CallbackReturns, ReturnOutcome, ReturnPromise, ReturnFuture, Control
  <2>2. Unplaced(current) /\ current \in Promise
    BY <2>1, CurrentIsUnplaced
  <2>3. ASSUME NEW s \in Outcome, ReturnOutcome(s) PROVE OrderInv'
    <3>1. SettleState(Worker, current, s, current) /\ UNCHANGED <<job, tasks, overtaking>>
      BY <2>3 DEF ReturnOutcome
    <3> QED BY <2>1, <2>2, <3>1, OrderSettle, ThreadFacts
  <2>4. ASSUME NEW q \in 1..count, ReturnPromise(q) PROVE OrderInv'
    <3>1. /\ AddContinuation(Worker, q, current) /\ UNCHANGED tasks
          /\ job' = [job EXCEPT ![current] = [kind |-> "adopt", src |-> q]]
      BY <2>4 DEF ReturnPromise
    <3>2. q \in Promise
      BY <1>0, ThreadAssumption DEF Promise, TypeOK
    <3> QED BY <2>1, <2>2, <3>1, <3>2, OrderAdd, ThreadFacts
  <2>5. CASE ReturnFuture
    <3>1. UNCHANGED <<tasks, held, conts, overtaking>>
      BY <2>5 DEF ReturnFuture
    <3>2. \A q \in Promise : q # current => job'[q] = job[q]
      BY <1>0, <2>5 DEF ReturnFuture, TypeOK
    <3> HIDE DEF Unplaced
    <3> QED BY <2>2, <3>1, <3>2, OrderQuiet
  <2> QED BY <1>7, <2>3, <2>4, <2>5 DEF CallbackReturns
<1>8. ASSUME NEW t \in Threads, Publish(t) PROVE OrderInv'
  BY <1>8, OrderPublish
<1>9. CASE Take
  BY <1>9, OrderTake
<1>10. ASSUME NEW t \in Apps \cup {Worker}, NEW p \in 1..count, Get(t, p)
       PROVE  OrderInv'
  BY <1>1, <1>10 DEF Get
<1>11. ASSUME NEW t \in Apps \cup {Worker}, Create(t) PROVE OrderInv'
  BY <1>1, <1>11 DEF Create
<1>12. ASSUME NEW t \in Threads, GetTest(t) \/ Notify(t) PROVE OrderInv'
  BY <1>1, <1>12 DEF GetTest, Notify
<1>13. CASE Drop \/ Exit \/ UNCHANGED vars
  BY <1>1, <1>13 DEF Drop, Exit, vars
<1> HIDE DEF OrderInv
<1> QED BY <1>2, <1>3, <1>4, <1>5, <1>6, <1>7, <1>8, <1>9, <1>10, <1>11, <1>12,
           <1>13 DEF Next

\* What Take takes is behind no earlier reaction to the same promise.
LEMMA TakeInOrder ==
    ASSUME Inv, OrderInv, Take, NEW c \in Promise, NEW d \in Promise,
           current' = d, job[d].kind # "adopt", d \notin overtaking, c < d,
           job[c].src = job[d].src, job[c].kind \in {"then", "catch"}
    PROVE  c \notin Queued
<1>1. /\ d \in T /\ tasks \in Seq(Promise) /\ tasks # <<>> /\ Distinct(tasks)
      /\ d = Head(tasks)
  <2>1. d \in T
    BY TakePlaces DEF Inv
  <2> QED BY <2>1 DEF Inv, TypeOK, DistinctLists, Take
<1>2. Plain(d) /\ Plain(c)
  BY <1>1 DEF Inv, Jobs, Open, Reaction, Plain
<1>3. ~Unplaced(d)
  BY <1>1 DEF Unplaced
<1>4. SUFFICES ASSUME ~Unplaced(c) PROVE FALSE
  BY DEF Queued, Unplaced, T, H, C
<1>5. Turn(c, d)
  <2> HIDE DEF Unplaced
  <2> QED BY <1>2, <1>3, <1>4 DEF OrderInv, Rivals
<1>6. ~Before(c, d, tasks)
  BY <1>1, BeforeRest
<1>7. \A u \in Threads : ~Before(c, d, held[u])
  BY <1>1, BeforeIn DEF Inv, OnePlace, H
<1>8. \A p \in Promise : ~Before(c, d, conts[p])
  BY <1>1, BeforeIn DEF Inv, OnePlace, C
<1> QED BY <1>1, <1>5, <1>6, <1>7, <1>8 DEF Turn

\* No other action gives the worker a continuation.
LEMMA OthersTakeNothing ==
    ASSUME Inv, [Next]_vars, ~Take
    PROVE  current' = current \/ current' = None
BY DEF Next, vars, Create, FromFuture, Chain, Settle, Get, GetTest, Notify, Publish,
       FutureReady, Drop, Run, CallbackReturns, ReturnOutcome, ReturnPromise,
       ReturnFuture, Exit

\* Reactions to one promise run in the order in which they were added, whatever
\* threads chain and settle, unless they were added between a settlement and
\* its publication (fulfillShared, publishContinuations).
THEOREM RunInOrder == Spec => InOrder
<1> DEFINE A == \A d \in Promise :
         (current' = d /\ current # d /\ job[d].kind # "adopt") =>
           \/ d \in overtaking
           \/ \A c \in 1..(d - 1) :
                 (job[c].src = job[d].src /\ job[c].kind \in {"then", "catch"})
                   => c \notin Queued
<1>1. ASSUME Inv, OrderInv, [Next]_vars PROVE A
  <2> SUFFICES ASSUME NEW d \in Promise, current' = d, current # d,
                      job[d].kind # "adopt", d \notin overtaking,
                      NEW c \in 1..(d - 1), job[c].src = job[d].src,
                      job[c].kind \in {"then", "catch"}
               PROVE  c \notin Queued
    OBVIOUS
  <2>1. Take
    BY <1>1, OthersTakeNothing, ThreadFacts
  <2>2. c \in Promise /\ c < d
    BY ThreadAssumption DEF Promise
  <2> QED BY <1>1, <2>1, <2>2, TakeInOrder
<1>2. Inv /\ OrderInv /\ [Next]_vars => [A]_vars
  BY <1>1
<1>3. Spec => []OrderInv
  BY InitOrder, OrderStep, Invariance, PTL DEF Spec
<1> HIDE DEF A
<1>4. Spec => [][A]_vars
  BY <1>2, <1>3, Invariance, PTL DEF Spec
<1> QED BY <1>4 DEF InOrder, A
=============================================================================
