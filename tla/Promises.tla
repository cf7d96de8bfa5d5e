----------------------------- MODULE Promises -----------------------------
(* JsPromise and JsMicrotaskQueue: promises that any thread may make,      *)
(* chain, settle and wait for, and the one worker that runs reactions.     *)
(* A step is a critical section of a promise's or of the queue's mutex.    *)
(*                                                                         *)
(* A continuation is named after the promise it settles (destination): a   *)
(* promise has at most one at a time, job says what its closure captured.  *)
(* Promises are numbered in the order in which they are made; a promise    *)
(* and the registration of its continuation are one step, since nobody     *)
(* knows the promise before.  A value is represented by the promise whose  *)
(* resolver, callback or future produced it.                               *)
EXTENDS Naturals, Sequences, SequencesExt

CONSTANTS Apps,         \* threads of the application
          Worker,       \* the thread of the queue
          MaxPromises   \* bound on the promises made

Promise == 1..MaxPromises
None == 0

\* adoptFuture() starts a waiter for the promise it settles; it has its name.
Threads == Apps \cup {Worker} \cup Promise

ASSUME ThreadAssumption ==
    /\ MaxPromises \in Nat
    /\ Worker \notin Apps
    /\ (Apps \cup {Worker}) \cap Promise = {}

VARIABLES
    count,      \* promises made so far
    status, value, conts,           \* State: status, value or error, continuations
    job,        \* [kind, src]: the closure that settles a promise
    tasks,      \* JsMicrotaskQueue::State::tasks
    stopping,   \* JsMicrotaskQueue::State::stopping
    pc, arg,    \* where a thread is, and the promise it is busy with
    held,       \* the continuations a thread has yet to give to the queue
    current,    \* destination of the task the worker runs
    dropped,    \* nobody outside holds a promise or a resolver any more
    overtaking  \* continuations added while earlier ones were unpublished

state == <<status, value, conts>>
vars == <<count, status, value, conts, job, tasks, stopping, pc, arg, held,
          current, dropped, overtaking>>

Reaction == {"then", "catch", "adopt"}
Settled(p) == status[p] # "Pending"

TypeOK ==
    /\ count \in 0..MaxPromises
    /\ status \in [Promise -> {"Pending", "Fulfilled", "Rejected"}]
    /\ value \in [Promise -> Promise \cup {None}]
    /\ conts \in [Promise -> Seq(Promise)]
    /\ job \in [Promise -> [kind : Reaction \cup {"resolver", "future"},
                            src : Promise]]
    /\ tasks \in Seq(Promise)
    /\ stopping \in BOOLEAN
    /\ DOMAIN pc = Threads
    /\ \A t \in Apps : pc[t] \in {"idle", "notify", "publish", "asleep", "awake"}
    /\ \A p \in Promise : pc[p] \in {"idle", "await", "notify", "publish"}
    /\ pc[Worker] \in {"loop", "run", "callback", "notify", "publish", "done"}
    /\ arg \in [Threads -> Promise \cup {None}]
    /\ held \in [Threads -> Seq(Promise)]
    /\ current \in Promise \cup {None}
    /\ dropped \in BOOLEAN
    /\ overtaking \subseteq Promise

Init ==
    /\ count = 0
    /\ status = [p \in Promise |-> "Pending"]
    /\ value = [p \in Promise |-> None]
    /\ conts = [p \in Promise |-> <<>>]
    /\ job = [p \in Promise |-> [kind |-> "resolver", src |-> p]]
    /\ tasks = <<>> /\ stopping = FALSE
    /\ pc = [t \in Threads |-> IF t = Worker THEN "loop" ELSE "idle"]
    /\ arg = [t \in Threads |-> None]
    /\ held = [t \in Threads |-> <<>>]
    /\ current = None
    /\ dropped = FALSE
    /\ overtaking = {}

-----------------------------------------------------------------------------
(* The parts operations are made of.                                       *)

\* A promise's state holds the queue, a continuation holds the states of its
\* source and its destination: a pending promise with continuations holds
\* itself.  What keeps the queue alive once nobody outside holds a promise.
Referenced ==
    \/ \E p \in Promise : conts[p] # <<>>
    \/ tasks # <<>>
    \/ \E t \in Threads : held[t] # <<>>
    \/ \E t \in Threads \ {Worker} : pc[t] # "idle"
    \/ pc[Worker] \notin {"loop", "done"}

ReclaimMutant == UNCHANGED stopping     \* the destructor forgets the flag

\* ~JsMicrotaskQueue runs on the thread that gives up the last reference;
\* it joins the worker, or detaches it if it is the worker itself.
Reclaim == stopping' = (stopping \/ (dropped' /\ ~Referenced'))

\* Where a thread goes on: the worker inside a callback, or to its next task.
Rest(t) ==
    IF t # Worker THEN "idle" ELSE IF current' = None THEN "loop" ELSE "callback"

\* Application code runs on its own threads and inside callbacks.
MayCall(t) ==
    /\ ~dropped
    /\ \/ t \in Apps /\ pc[t] = "idle"
       \/ t = Worker /\ pc[t] = "callback"

\* fulfillShared(), fulfill(), reject(): the part under the mutex.
SettleState(t, p, s, v) ==
    /\ ~Settled(p)
    /\ status' = [status EXCEPT ![p] = s]
    /\ value' = [value EXCEPT ![p] = v]
    /\ conts' = [conts EXCEPT ![p] = <<>>]
    /\ held' = [held EXCEPT ![t] = conts[p]]
    /\ arg' = [arg EXCEPT ![t] = p]
    /\ pc' = [pc EXCEPT ![t] = "notify"]

\* Stores without looking at the status.
AddContinuationMutant(t, p, d) ==
    /\ conts' = [conts EXCEPT ![p] = Append(@, d)]
    /\ pc' = [pc EXCEPT ![t] = Rest(t)]
    /\ UNCHANGED <<held, overtaking, status, value, arg>>

\* addContinuation(p, d): stored, or left to the thread to be queued.
AddContinuation(t, p, d) ==
    /\ IF Settled(p)
       THEN /\ held' = [held EXCEPT ![t] = <<d>>]
            /\ pc' = [pc EXCEPT ![t] = "publish"]
            /\ UNCHANGED conts
       ELSE /\ conts' = [conts EXCEPT ![p] = Append(@, d)]
            /\ pc' = [pc EXCEPT ![t] = Rest(t)]
            /\ UNCHANGED held
    /\ overtaking' =
         IF \E u \in Threads : \E c \in ToSet(held[u]) : job[c].src = p
         THEN overtaking \cup {d} ELSE overtaking \ {d}
    /\ UNCHANGED <<status, value, arg>>

-----------------------------------------------------------------------------
(* Calls of the application.                                               *)

\* pending(): the first step of create(), resolved(), rejected() and
\* fromSynchronous(), whose settling is a Settle of the same thread.
Create(t) ==
    /\ MayCall(t) /\ count < MaxPromises
    /\ count' = count + 1
    /\ UNCHANGED <<state, job, tasks, stopping, pc, arg, held, current,
                   dropped, overtaking>>

\* fromFuture(): a waiter starts.
FromFuture(t) ==
    /\ MayCall(t) /\ count < MaxPromises
    /\ count' = count + 1
    /\ job' = [job EXCEPT ![count'].kind = "future"]
    /\ pc' = [pc EXCEPT ![count'] = "await"]
    /\ UNCHANGED <<state, tasks, stopping, arg, held, current, dropped,
                   overtaking>>

\* then(), catchError(), and fromSynchronous() of a callable that returns a
\* promise (adoptPromise).
Chain(t, p, kind) ==
    /\ MayCall(t) /\ count < MaxPromises
    /\ count' = count + 1
    /\ job' = [job EXCEPT ![count'] = [kind |-> kind, src |-> p]]
    /\ current' = current
    /\ AddContinuation(t, p, count')
    /\ UNCHANGED <<tasks, stopping, dropped>>

\* A resolver or rejecter made by create() is called, by any thread.
Settle(t, p, s) ==
    /\ MayCall(t)
    /\ job[p].kind = "resolver"
    /\ SettleState(t, p, s, p)
    /\ UNCHANGED <<count, job, tasks, stopping, current, dropped, overtaking>>

\* get(), getShared(): return at once if the promise is settled, else wait
\* for its condition; a thread that was woken tests again.
Get(t, p) ==
    /\ MayCall(t) /\ t \in Apps
    /\ ~Settled(p)
    /\ pc' = [pc EXCEPT ![t] = "asleep"]
    /\ arg' = [arg EXCEPT ![t] = p]
    /\ UNCHANGED <<count, state, job, tasks, stopping, held, current,
                   dropped, overtaking>>

GetTest(t) ==
    /\ pc[t] = "awake"
    /\ pc' = [pc EXCEPT ![t] = IF Settled(arg[t]) THEN "idle" ELSE "asleep"]
    /\ arg' = [arg EXCEPT ![t] = IF Settled(arg[t]) THEN None ELSE @]
    /\ UNCHANGED <<count, state, job, tasks, stopping, held, current,
                   dropped, overtaking>>

\* The application lets every promise and every resolver go.
Drop ==
    /\ ~dropped /\ dropped' = TRUE
    /\ \A t \in Apps : pc[t] = "idle"
    /\ UNCHANGED <<count, state, job, tasks, pc, arg, held, current, overtaking>>
    /\ Reclaim

-----------------------------------------------------------------------------
(* After the mutex: settled.notify_all(), then publishContinuations() or   *)
(* enqueue().                                                              *)

NotifyMutant(t) ==      \* wakes nobody
    /\ pc[t] = "notify"
    /\ UNCHANGED <<count, state, job, tasks, held, current, dropped, overtaking>>
    /\ pc' = [pc EXCEPT ![t] = IF held[t] = <<>> THEN Rest(t) ELSE "publish"]
    /\ arg' = [arg EXCEPT ![t] = None]
    /\ Reclaim

Notify(t) ==
    /\ pc[t] = "notify"
    /\ UNCHANGED <<count, state, job, tasks, held, current, dropped, overtaking>>
    /\ pc' = [u \in Threads |->
                IF u = t THEN IF held[t] = <<>> THEN Rest(t) ELSE "publish"
                ELSE IF pc[u] = "asleep" /\ arg[u] = arg[t] THEN "awake"
                ELSE pc[u]]
    /\ arg' = [arg EXCEPT ![t] = None]
    /\ Reclaim

PublishMutant(t) ==     \* puts the batch in front
    /\ pc[t] = "publish"
    /\ tasks' = held[t] \o tasks
    /\ held' = [held EXCEPT ![t] = <<>>]
    /\ UNCHANGED <<count, state, job, arg, current, dropped, overtaking>>
    /\ pc' = [pc EXCEPT ![t] = Rest(t)]
    /\ Reclaim

\* enqueueBatch()
Publish(t) ==
    /\ pc[t] = "publish"
    /\ tasks' = tasks \o held[t]
    /\ held' = [held EXCEPT ![t] = <<>>]
    /\ UNCHANGED <<count, state, job, arg, current, dropped, overtaking>>
    /\ pc' = [pc EXCEPT ![t] = Rest(t)]
    /\ Reclaim

\* The waiter of adoptFuture(): future.get() returned or threw.
FutureReady(p, s) ==
    /\ pc[p] = "await"
    /\ SettleState(p, p, s, p)
    /\ UNCHANGED <<count, job, tasks, stopping, current, dropped, overtaking>>

-----------------------------------------------------------------------------
(* The worker.                                                             *)

TakeMutant ==           \* leaves the task in the queue
    /\ pc[Worker] = "loop" /\ tasks # <<>>
    /\ current' = Head(tasks)
    /\ pc' = [pc EXCEPT ![Worker] = "run"]
    /\ UNCHANGED <<count, state, job, tasks, stopping, arg, held, dropped,
                   overtaking>>

Take ==
    /\ pc[Worker] = "loop" /\ tasks # <<>>
    /\ current' = Head(tasks)
    /\ tasks' = Tail(tasks)
    /\ pc' = [pc EXCEPT ![Worker] = "run"]
    /\ UNCHANGED <<count, state, job, stopping, arg, held, dropped, overtaking>>

Passes(d) ==
    LET s == status[job[d].src]
    IN  \/ job[d].kind = "adopt"
        \/ job[d].kind = "then" /\ s = "Rejected"
        \/ job[d].kind = "catch" /\ s = "Fulfilled"

\* A continuation looks at its source: it hands the outcome on, rejects if it
\* runs too early, or calls the callback.
Run ==
    /\ pc[Worker] = "run"
    /\ LET src == job[current].src
       IN  IF Settled(src) /\ ~Passes(current)
           THEN /\ pc' = [pc EXCEPT ![Worker] = "callback"]
                /\ UNCHANGED <<state, arg, held, current>>
           ELSE /\ IF Settled(src)
                   THEN SettleState(Worker, current, status[src], value[src])
                   ELSE SettleState(Worker, current, "Rejected", current)
                /\ current' = None
    /\ UNCHANGED <<count, job, tasks, stopping, dropped, overtaking>>

\* The callback returns a value, throws, or returns an invalid promise or
\* its own (adoptPromise rejects both), or the waiter cannot be started.
ReturnOutcome(s) ==
    /\ pc[Worker] = "callback"
    /\ SettleState(Worker, current, s, current)
    /\ current' = None
    /\ UNCHANGED <<count, job, tasks, stopping, dropped, overtaking>>

\* The callback returns another promise: adoptPromise().
ReturnPromise(q) ==
    /\ pc[Worker] = "callback" /\ ~dropped
    /\ q # current
    /\ job' = [job EXCEPT ![current] = [kind |-> "adopt", src |-> q]]
    /\ current' = None
    /\ AddContinuation(Worker, q, current)
    /\ UNCHANGED <<count, tasks, stopping, dropped>>

\* The callback returns a future: adoptFuture().
ReturnFuture ==
    /\ pc[Worker] = "callback"
    /\ job' = [job EXCEPT ![current] = [kind |-> "future", src |-> current]]
    /\ current' = None
    /\ pc' = [pc EXCEPT ![Worker] = "loop", ![current] = "await"]
    /\ UNCHANGED <<count, state, tasks, stopping, arg, held, dropped, overtaking>>

\* The worker finds the queue stopping and empty.
Exit ==
    /\ pc[Worker] = "loop" /\ stopping /\ tasks = <<>>
    /\ pc' = [pc EXCEPT ![Worker] = "done"]
    /\ UNCHANGED <<count, state, job, tasks, stopping, arg, held, current,
                   dropped, overtaking>>

-----------------------------------------------------------------------------
Outcome == {"Fulfilled", "Rejected"}

CallbackReturns ==
    \/ \E s \in Outcome : ReturnOutcome(s)
    \/ \E q \in 1..count : ReturnPromise(q)
    \/ ReturnFuture

Next ==
    \/ \E t \in Apps \cup {Worker} :
          \/ Create(t) \/ FromFuture(t)
          \/ \E p \in 1..count :
                \/ \E k \in Reaction : Chain(t, p, k)
                \/ \E s \in Outcome : Settle(t, p, s)
                \/ Get(t, p)
    \/ \E t \in Threads : GetTest(t) \/ Notify(t) \/ Publish(t)
    \/ \E p \in Promise, s \in Outcome : FutureReady(p, s)
    \/ Drop \/ Take \/ Run \/ CallbackReturns \/ Exit

\* Threads run: what a call or a task has begun it goes on with, and
\* callbacks return.  Futures may never be ready, nobody has to settle.
GoesOn(t) == GetTest(t) \/ Notify(t) \/ Publish(t)

Fairness ==
    /\ \A t \in Apps : WF_vars(GoesOn(t))
    /\ WF_vars(\E p \in Promise : GoesOn(p))
    /\ WF_vars(GoesOn(Worker) \/ Take \/ Run \/ CallbackReturns \/ Exit)

Spec == Init /\ [][Next]_vars /\ Fairness

-----------------------------------------------------------------------------
\* Continuations that nobody has begun to run, wherever they are.
Queued ==
    UNION ({ToSet(tasks)} \cup {ToSet(held[t]) : t \in Threads}
                          \cup {ToSet(conts[p]) : p \in Promise})

Stages ==
    LET waiting == Queued \cup IF pc[Worker] = "run" THEN {current} ELSE {}
    IN  [d \in Promise |-> IF d \in waiting THEN "waiting"
                           ELSE IF d = current THEN "called" ELSE "none"]

Reactions == INSTANCE PromiseReactions WITH stage <- Stages

\* Whatever threads settle, chain and run at the same time, promises behave as
\* PromiseReactions says: no continuation is lost between a promise, a thread
\* and the queue or runs twice, none runs before its source is settled, no
\* outcome is replaced, callbacks do not overlap.
Refines == Reactions!Spec

\* Reactions to one promise run in the order in which they were added.  The
\* exception are those added while some thread held a continuation of the same
\* promise that was not yet in the queue: one that its settlement had taken out
\* (fulfillShared publishes after it has released the mutex), or one that was
\* added after the settlement and is left to its thread.
InOrder ==
    [][\A d \in Promise :
         (current' = d /\ current # d /\ job[d].kind # "adopt") =>
           \/ d \in overtaking
           \/ \A c \in 1..(d - 1) :
                 (job[c].src = job[d].src /\ job[c].kind \in {"then", "catch"})
                   => c \notin Queued]_vars

\* A promise whose reaction is due is settled, or follows something that is
\* still pending.
ReactionsSettle ==
    \A d \in Promise :
        (job[d].kind \in Reaction /\ Settled(job[d].src)) ~>
            \/ Settled(d)
            \/ job[d].kind = "future"
            \/ ~Settled(job[d].src)

\* get() returns once its promise is settled: notify_all() after the mutex
\* was released misses nobody.
GetReturns ==
    \A t \in Apps :
        (pc[t] \in {"asleep", "awake"} /\ Settled(arg[t])) ~> pc[t] = "idle"

\* When nobody holds a promise any more the queue is destroyed and its worker
\* ends, unless a promise that nobody can settle keeps itself through its
\* continuations, or a future is not ready.
WorkerEnds ==
    dropped ~>
        \/ pc[Worker] = "done"
        \/ \E p \in Promise :
              ~Settled(p) /\ (conts[p] # <<>> \/ pc[p] = "await")
=============================================================================
