------------------------- MODULE PromiseReactions -------------------------
(* What JsPromise promises to the code that uses it, without threads,      *)
(* queues or locks.  A promise is settled once.  Whoever has its resolvers *)
(* or its future settles it; a promise made by then() or catchError() is   *)
(* settled by its reaction, which is due when the promise it waits for is  *)
(* settled.  A reaction that does not apply passes the outcome on; one     *)
(* that applies calls its callback, once, and no two callbacks run at the  *)
(* same time.                                                              *)
EXTENDS Naturals

CONSTANT MaxPromises    \* how many promises are made

VARIABLES count,        \* promises made so far: they are 1..count
          status,       \* "Pending", "Fulfilled" or "Rejected"
          value,        \* the promise that produced the value or the error
          job,          \* who settles it: [kind, src]
          stage         \* "none", "waiting" for its turn, "called"

vars == <<count, status, value, job, stage>>

Promise == 1..MaxPromises
Reaction == {"then", "catch", "adopt"}

Init ==
    /\ count = 0
    /\ status = [p \in Promise |-> "Pending"]
    /\ value = [p \in Promise |-> 0]
    /\ job = [p \in Promise |-> [kind |-> "resolver", src |-> p]]
    /\ stage = [p \in Promise |-> "none"]

\* Does d's reaction hand the outcome of its source on, without a callback?
Passes(d) ==
    \/ job[d].kind = "adopt"
    \/ job[d].kind = "then" /\ status[job[d].src] = "Rejected"
    \/ job[d].kind = "catch" /\ status[job[d].src] = "Fulfilled"

Due(d) == stage[d] = "waiting" /\ status[job[d].src] # "Pending"

Settles(d, s, v) ==
    /\ status[d] = "Pending"
    /\ status' = [status EXCEPT ![d] = s]
    /\ value' = [value EXCEPT ![d] = v]

Make ==
    /\ count < MaxPromises
    /\ count' = count + 1
    /\ \/ UNCHANGED <<job, stage>>
       \/ /\ job' = [job EXCEPT ![count + 1].kind = "future"]
          /\ UNCHANGED stage
       \/ \E p \in 1..count, k \in Reaction :
             /\ job' = [job EXCEPT ![count + 1] = [kind |-> k, src |-> p]]
             /\ stage' = [stage EXCEPT ![count + 1] = "waiting"]
    /\ UNCHANGED <<status, value>>

Settle(p, s) ==
    /\ p <= count
    /\ job[p].kind \in {"resolver", "future"}
    /\ Settles(p, s, p)
    /\ UNCHANGED <<count, job, stage>>

Pass(d) ==
    /\ Due(d)
    /\ Passes(d)
    /\ Settles(d, status[job[d].src], value[job[d].src])
    /\ stage' = [stage EXCEPT ![d] = "none"]
    /\ UNCHANGED <<count, job>>

Call(d) ==
    /\ Due(d)
    /\ ~Passes(d)
    /\ \A e \in Promise : stage[e] # "called"
    /\ stage' = [stage EXCEPT ![d] = "called"]
    /\ UNCHANGED <<count, status, value, job>>

\* The callback ends with a value or an exception, or d follows another
\* promise or a future.
Return(d) ==
    /\ stage[d] = "called"
    /\ \/ /\ \E s \in {"Fulfilled", "Rejected"} : Settles(d, s, d)
          /\ stage' = [stage EXCEPT ![d] = "none"]
          /\ UNCHANGED job
       \/ /\ \E q \in 1..count \ {d} :
                job' = [job EXCEPT ![d] = [kind |-> "adopt", src |-> q]]
          /\ stage' = [stage EXCEPT ![d] = "waiting"]
          /\ UNCHANGED <<status, value>>
       \/ /\ job' = [job EXCEPT ![d] = [kind |-> "future", src |-> d]]
          /\ stage' = [stage EXCEPT ![d] = "none"]
          /\ UNCHANGED <<status, value>>
    /\ UNCHANGED count

Next ==
    \/ Make
    \/ \E p \in Promise :
          \/ \E s \in {"Fulfilled", "Rejected"} : Settle(p, s)
          \/ Pass(p)
          \/ Call(p)
          \/ Return(p)

Spec == Init /\ [][Next]_vars
=============================================================================
