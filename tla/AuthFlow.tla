------------------------------ MODULE AuthFlow ------------------------------
(* Logins with MicrosoftAuthFlow: the MSA token of LiveTokenManager, the    *)
(* Xbox tokens of XboxTokenManager, the retries around them, and the cache  *)
(* files (FileAuthCache) that outlive the process.                          *)
(*                                                                          *)
(* A flow is what createNativeBedrockAuthflow() makes; flows of the same    *)
(* user share files and nothing else.  Logins of one flow share its         *)
(* managers; their reactions run one at a time (see Promises).  A step is a *)
(* reaction with those after it that only touch what the login itself       *)
(* holds, or one of the two file operations inside a reaction.              *)
(* MSA tokens are numbered in the order in which they are issued, other     *)
(* tokens are told apart by their names.  Whether a token has expired is a  *)
(* choice at every test of its date.                                        *)
EXTENDS Naturals, Sequences, SequencesExt

CONSTANTS Flows, Logins,
          Scenarios,    \* calls <<login, flow, tries of the outer retry>>,
                        \* whether one waits for the other, bound on faults
          Keys,         \* the Xbox tokens a login needs, in order of request
          Xsts,         \* the name of the XSTS token
          MaxTokens,    \* bound on the MSA tokens issued
          Unread, Blank, Mixed, None

\* What a cache holds: a token, or 0, under each name.  The file of "live"
\* has the MSA token, the file of "xbl" the others.
Names == {"token", Xsts} \cup ToSet(Keys)
Caches == {"live", "xbl"}
Content == [Names -> 0..MaxTokens]
Empty == [n \in Names |-> 0]

\* The MSA token has a name of its own; the marks are no contents; calls are
\* getXboxToken(), with one try, or getMinecraftBedrockToken(), with two.
ASSUME NameAssumption == "token" \notin ToSet(Keys) \cup {Xsts}
ASSUME TokenAssumption ==
    MaxTokens \in Nat \ {0} /\ {Unread, Blank, Mixed} \cap Content = {}
ASSUME ScenarioAssumption ==
    \A s \in Scenarios : /\ s.faults \in Nat
                         /\ s.calls \subseteq Logins \X Flows \X {0, 2}

VARIABLES
    scenario,
    file,           \* contents; Blank: missing or of length 0, Mixed: not JSON
    faults,         \* crashes and failures so far
    diskFailed,     \* a file operation failed
    alive,          \* of a flow: "no", "creating", "yes"
    shared,         \* flows that were not alone at some time
    mem,            \* FileAuthCache::State::cache of each flow
    forceRefresh,   \* LiveTokenManagerState::forceRefresh
    polling,        \* LiveTokenManagerState::polling
    job,            \* where each login is, and what its closures captured
    issued          \* MSA tokens issued so far

disk == <<file, faults, diskFailed>>
flows == <<alive, shared, forceRefresh>>
vars == <<scenario, disk, flows, mem, polling, job, issued>>

NewJob ==
    [pc |-> "idle", flow |-> None,
     left |-> 0,            \* tries of the outer retry; 0 for getXboxToken()
     tries |-> 2,           \* tries of the inner retry
     held |-> Empty,        \* tokens found in the cache before the tries
     toks |-> Empty,        \* tokens of this try
     snap |-> Empty,        \* what getCached() returned
     access |-> "none",     \* getAccessToken() of verifyTokens()
     codeExpired |-> FALSE,
     cache |-> "live", ok |-> "idle", bad |-> "idle",   \* a write under way
     had |-> FALSE, refused |-> FALSE, renewed |-> FALSE, lastMsa |-> 0]

Http == {"forcing", "renewing", "device", "polling", "asking", "chain"}
Ended == {"idle", "done", "failed", "gone"}

\* A flow that is not there has nothing in memory; a login that is not under
\* way holds nothing.
TypeOK ==
    /\ file \in [Caches -> Content \cup {Blank, Mixed}]
    /\ faults \in 0..scenario.faults /\ diskFailed \in BOOLEAN
    /\ alive \in [Flows -> {"no", "creating", "yes"}]
    /\ shared \subseteq Flows
    /\ forceRefresh \in [Flows -> BOOLEAN] /\ polling \in [Flows -> BOOLEAN]
    /\ \A f \in Flows, c \in Caches : mem[f][c] = Unread \/ mem[f][c] \in Content
    /\ \A f \in Flows : alive[f] # "yes" =>
          (\A c \in Caches : mem[f][c] = Unread) /\ ~polling[f] /\ ~forceRefresh[f]
    /\ issued \in 0..MaxTokens
    /\ \A l \in Logins :
          /\ {job[l].toks, job[l].snap, job[l].held} \subseteq Content
          /\ job[l].pc \in Ended \/ alive[job[l].flow] # "no"

Init ==
    /\ scenario \in Scenarios
    /\ file = [c \in Caches |-> Blank]
    /\ faults = 0 /\ diskFailed = FALSE
    /\ alive = [f \in Flows |-> "no"]
    /\ shared = {}
    /\ mem = [f \in Flows |-> [c \in Caches |-> Unread]]
    /\ forceRefresh = [f \in Flows |-> FALSE]
    /\ polling = [f \in Flows |-> FALSE]
    /\ job = [l \in Logins |-> NewJob]
    /\ issued = 0

-----------------------------------------------------------------------------
(* The parts reactions are made of.                                         *)

Writing(f) == \E m \in Logins : job[m].flow = f /\ job[m].pc \in {"open", "write"}

\* A reaction of l may run: its flow's worker is not inside a file operation.
Turn(l, where) == job[l].pc = where /\ ~Writing(job[l].flow)

Set(l, r) == job' = [job EXCEPT ![l] = r] /\ UNCHANGED scenario
Over(where) == [NewJob EXCEPT !.pc = where]

\* The outer retry begins anew with the cache; the forceRefresh it sets on
\* the XboxTokenManager is read by nobody.
OuterFailed(r) ==
    IF r.left = 2 THEN [NewJob EXCEPT !.pc = "begin", !.flow = r.flow, !.left = 1]
    ELSE Over("failed")

\* retry(): the second try follows after a delay.
AttemptFailed(r) ==
    IF r.tries = 2
    THEN [r EXCEPT !.pc = "delay", !.tries = 1, !.lastMsa = r.toks["token"],
                   !.snap = Empty, !.toks = Empty, !.codeExpired = FALSE]
    ELSE OuterFailed(r)

\* The XSTS token is what getXboxToken() returns, getMinecraftBedrockToken()
\* asks for the chain with it.
GotXsts(r) ==
    IF r.left = 0 THEN Over("done")
    ELSE [NewJob EXCEPT !.pc = "chain", !.flow = r.flow, !.left = r.left]

\* With the MSA token in hand: the next Xbox token, if any is missing.
Tokens(r) == IF r.toks[Xsts] = 0 THEN [r EXCEPT !.pc = "asking"] ELSE GotXsts(r)

\* refreshTokensState() needs a refresh token.
RefreshTokens(r, request, without) ==
    [r EXCEPT !.pc = IF r.snap["token"] # 0 THEN request ELSE without, !.snap = Empty]

\* getMsaTokenState(): the cached token is used.
Use(r) ==
    LET n == r.snap["token"]
    IN  IF n = 0 THEN AttemptFailed(r)
        ELSE Tokens([r EXCEPT !.toks["token"] = n, !.snap = Empty])

\* Where the promises of a login lead.
Go(r, where) ==
    CASE where = "outerFailed" -> OuterFailed(r)
      [] where = "attemptFailed" -> AttemptFailed(r)
      [] where = "tokens" -> Tokens(r)
      [] where = "gotXsts" -> GotXsts(r)
      [] where = "forced" -> RefreshTokens(r, "forcing", "proceed")
      [] where = "renew" -> RefreshTokens(r, "renewing", "device")
      [] where = "use" -> Use(r)
      [] OTHER -> [r EXCEPT !.pc = where]

\* A write begins; where its login goes on, whether it succeeds or not.
ToFile(r, c, ok, bad) ==
    [r EXCEPT !.pc = "open", !.cache = c, !.ok = ok, !.bad = bad]

Readable(c) == file[c] \notin {Blank, Mixed}

\* getCached(): from memory, from the file, or {} after the file was reset.
Visible(f, c) ==
    IF mem[f][c] # Unread THEN mem[f][c] ELSE IF Readable(c) THEN file[c] ELSE Empty

GetCached(l, r, c, ok, bad) ==
    LET f == r.flow
        s == [r EXCEPT !.snap = Visible(f, c)]
        reset == mem[f][c] = Unread /\ ~Readable(c)
    IN  /\ Set(l, IF reset THEN ToFile(s, c, ok, bad) ELSE Go(s, ok))
        /\ mem' = IF reset THEN mem ELSE [mem EXCEPT ![f][c] = Visible(f, c)]

\* setCachedPartial(): memory first, then the file.
SetCachedPartial(f, c, name, n) ==
    mem' = [mem EXCEPT ![f][c] =
              [(IF @ = Unread THEN Empty ELSE @) EXCEPT ![name] = n]]

\* A service issues an MSA token.
Issue == issued < MaxTokens /\ issued' = issued + 1

\* Reactions that touch neither the disk nor the flags.
Quiet == UNCHANGED <<disk, flows, polling, issued>>

-----------------------------------------------------------------------------
(* The file operations of writeCacheFile(), inside the reaction that calls  *)
(* it.  Another flow may read or write the file in between.                 *)

Fault == faults < scenario.faults /\ faults' = faults + 1

Open(l) ==
    LET r == job[l]
    IN  /\ r.pc = "open"
        /\ \/ /\ file' = [file EXCEPT ![r.cache] = Blank]
              /\ Set(l, [r EXCEPT !.pc = "write"])
              /\ UNCHANGED <<faults, diskFailed>>
           \/ /\ Fault /\ diskFailed' = TRUE
              /\ Set(l, Go(r, r.bad))
              /\ UNCHANGED file
        /\ UNCHANGED <<flows, mem, polling, issued>>

\* What is in the file when v is written at its start over w.
Overlay(w, v) ==
    IF w \in {Blank, Empty, v} THEN {v} ELSE IF v = Empty THEN {Mixed} ELSE {v, Mixed}

\* The value is written, or lost, noticed or not (the stream is flushed by
\* its destructor).  A reset inside getCached() sets the memory afterwards,
\* the reset of a new flow does not.
Write(l) ==
    LET r == job[l]
        old == mem[r.flow][r.cache]
        new == IF old = Unread THEN Empty ELSE old
        s == [r EXCEPT !.cache = "live", !.ok = "idle", !.bad = "idle"]
        Resumes(good) ==
            /\ Set(l, Go(s, IF good THEN r.ok ELSE r.bad))
            /\ mem' = IF good /\ alive[r.flow] = "yes"
                      THEN [mem EXCEPT ![r.flow][r.cache] = new] ELSE mem
    IN  /\ r.pc = "write"
        /\ \/ /\ \E v \in Overlay(file[r.cache], new) : file' = [file EXCEPT ![r.cache] = v]
              /\ Resumes(TRUE)
              /\ UNCHANGED <<faults, diskFailed>>
           \/ /\ Fault /\ diskFailed' = TRUE
              /\ \E noticed \in BOOLEAN : Resumes(~noticed)
              /\ UNCHANGED file
        /\ UNCHANGED <<flows, polling, issued>>

-----------------------------------------------------------------------------
(* A login begins.                                                          *)

\* A flow is made, with or without resetting the files (option forceRefresh),
\* or an existing one is used.
Start(l, f, left) ==
    /\ job[l].pc = "idle"
    /\ alive[f] # "creating"
    /\ scenario.inTurn => \A m \in Logins : job[m].pc \in Ended
    /\ LET r == [NewJob EXCEPT !.flow = f, !.left = left]
       IN  IF alive[f] = "yes"
           THEN Set(l, Go(r, "begin")) /\ UNCHANGED <<alive, shared>>
           ELSE /\ \E s \in {Go(r, "created"), ToFile(r, "live", "resetXbl", "resetXbl")} :
                      Set(l, s)
                /\ alive' = [alive EXCEPT ![f] = "creating"]
                /\ LET up == {g \in Flows : alive'[g] # "no"}
                   IN  shared' = IF up = {f} THEN shared ELSE shared \cup up
    /\ UNCHANGED <<disk, mem, forceRefresh, polling, issued>>

ResetXbl(l) ==
    /\ job[l].pc = "resetXbl"
    /\ Set(l, ToFile(job[l], "xbl", "created", "created"))
    /\ UNCHANGED mem /\ Quiet

Created(l) ==
    /\ job[l].pc = "created"
    /\ alive' = [alive EXCEPT ![job[l].flow] = "yes"]
    /\ Set(l, Go(job[l], "begin"))
    /\ UNCHANGED <<disk, shared, forceRefresh, mem, polling, issued>>

\* getXboxTokenState(): getCachedTokens().
Begin(l) ==
    /\ Turn(l, "begin")
    /\ GetCached(l, job[l], "xbl", "cachedTokens", "outerFailed")
    /\ Quiet

\* retry() calls its method: getMsaTokenState(), verifyTokensState().
Attempt(l, r, force) ==
    LET s == [r EXCEPT !.toks = r.held, !.had = Visible(r.flow, "live")["token"] # 0,
                       !.refused = FALSE, !.renewed = FALSE, !.codeExpired = FALSE]
    IN  IF force
        THEN GetCached(l, s, "live", "forced", "proceed")
        ELSE GetCached(l, s, "live", "access", "attemptFailed")

\* The tokens a test of their dates lets through.
ValidOnes(content, names) ==
    {[n \in Names |-> IF n \in ok THEN content[n] ELSE 0] : ok \in SUBSET names}

\* A valid XSTS token is all that is needed; the other valid tokens are kept
\* for both tries.
CachedTokens(l) ==
    LET r == job[l]
    IN  /\ Turn(l, "cachedTokens")
        /\ \/ /\ r.snap[Xsts] # 0
              /\ Set(l, Go(r, "gotXsts")) /\ UNCHANGED mem
           \/ \E held \in ValidOnes(r.snap, ToSet(Keys)) :
                 Attempt(l, [r EXCEPT !.held = held], forceRefresh[r.flow])
        /\ Quiet

-----------------------------------------------------------------------------
(* LiveTokenManager: verifyTokens(), refreshTokens(), getAccessToken().     *)

RefreshedMutant(l, request, ok, bad) ==     \* the cache is updated later
    /\ Turn(l, request) /\ Issue
    /\ Set(l, Go([job[l] EXCEPT !.renewed = TRUE], ok))
    /\ UNCHANGED <<disk, flows, mem, polling>>

\* The answer: updateCacheState() is not waited for, and its failure ignored.
Refreshed(l, request, ok, bad) ==
    LET r == job[l]
    IN  /\ Turn(l, request)
        /\ \/ /\ Issue
              /\ SetCachedPartial(r.flow, "live", "token", issued')
              /\ Set(l, ToFile([r EXCEPT !.renewed = TRUE], "live", ok, ok))
           \/ /\ Set(l, Go([r EXCEPT !.refused = TRUE], bad))
              /\ UNCHANGED <<issued, mem>>
        /\ UNCHANGED <<disk, flows, polling>>

\* With forceRefresh the tokens are renewed first, whatever comes of it.
Forcing(l) == Refreshed(l, "forcing", "proceed", "proceed")

Proceed(l) ==
    /\ Turn(l, "proceed")
    /\ GetCached(l, job[l], "live", "access", "attemptFailed")
    /\ Quiet

Access(l) ==
    LET r == job[l]
    IN  /\ Turn(l, "access")
        /\ \E a \in IF r.snap["token"] = 0 THEN {"none"} ELSE {"valid", "expired"} :
              GetCached(l, [r EXCEPT !.access = a], "live", "refresh", "attemptFailed")
        /\ Quiet

VerifyMutant(l) ==      \* an expired token counts as none
    LET r == job[l]
    IN  /\ Turn(l, "refresh")
        /\ Set(l, Go([r EXCEPT !.access = "none", !.snap = Empty],
                     IF r.access = "valid" THEN "verified" ELSE "device"))
        /\ UNCHANGED mem /\ Quiet

Verify(l) ==
    LET r == job[l]
        s == [r EXCEPT !.access = "none", !.snap = Empty]
    IN  /\ Turn(l, "refresh")
        /\ IF r.access = "expired" /\ r.snap["token"] # 0
           THEN GetCached(l, s, "live", "renew", "device")
           ELSE /\ Set(l, Go(s, IF r.access = "none" \/ r.snap["token"] = 0
                                THEN "device" ELSE "verified"))
                /\ UNCHANGED mem
        /\ Quiet

Renewing(l) == Refreshed(l, "renewing", "verified", "device")

Verified(l) ==
    /\ Turn(l, "verified")
    /\ GetCached(l, job[l], "live", "use", "attemptFailed")
    /\ Quiet

-----------------------------------------------------------------------------
(* authDeviceCodeState(), pollDeviceCode(), pollOnce().                     *)

PollMutant(l, r, on) ==     \* waits for ever
    /\ Set(l, Go(r, "pollWait"))
    /\ polling' = [polling EXCEPT ![r.flow] = on]

\* The test before a poll: on is the flag of the manager.
Poll(l, r, on) ==
    LET more == on /\ ~r.codeExpired
    IN  /\ Set(l, Go(r, IF more THEN "pollWait" ELSE "attemptFailed"))
        /\ polling' = [polling EXCEPT ![r.flow] = more]

\* The user is shown a code, and polling begins unless that took too long.
Device(l) ==
    LET r == job[l]
    IN  /\ Turn(l, "device")
        /\ \/ \E late \in BOOLEAN : Poll(l, [r EXCEPT !.codeExpired = late], TRUE)
           \/ Set(l, Go(r, "attemptFailed")) /\ UNCHANGED polling
        /\ UNCHANGED <<disk, flows, mem, issued>>

\* The interval is over.
PollWait(l) ==
    /\ Turn(l, "pollWait")
    /\ Set(l, Go(job[l], "polling"))
    /\ UNCHANGED mem /\ Quiet

\* The user has signed in; or has not yet, or the request failed.
Polling(l) ==
    LET r == job[l]
    IN  /\ Turn(l, "polling")
        /\ \/ /\ Issue
              /\ SetCachedPartial(r.flow, "live", "token", issued')
              /\ polling' = [polling EXCEPT ![r.flow] = FALSE]
              /\ Set(l, ToFile([r EXCEPT !.toks["token"] = issued', !.codeExpired = FALSE],
                               "live", "tokens", "tokens"))
           \/ /\ Poll(l, r, polling[r.flow])
              /\ UNCHANGED <<issued, mem>>
        /\ UNCHANGED <<disk, flows>>

-----------------------------------------------------------------------------
(* The requests of XboxTokenManager and of the Minecraft token manager.     *)

\* The token to ask for: the first that was not in the cache, or XSTS.
Wanted(r, name) ==
    \/ /\ name = Xsts
       /\ \A i \in DOMAIN Keys : r.toks[Keys[i]] # 0
    \/ \E i \in DOMAIN Keys :
          /\ name = Keys[i] /\ r.toks[name] = 0
          /\ \A j \in 1..(i - 1) : r.toks[Keys[j]] # 0

AskForMutant(l, name) ==    \* the token does not reach the file
    LET r == job[l]
    IN  /\ Turn(l, "asking")
        /\ SetCachedPartial(r.flow, "xbl", name, 1)
        /\ Set(l, Go([r EXCEPT !.toks[name] = 1], "tokens"))
        /\ Quiet

\* The token is stored, and the try fails if that fails.
AskFor(l, name) ==
    LET r == job[l]
    IN  /\ Turn(l, "asking")
        /\ \/ /\ SetCachedPartial(r.flow, "xbl", name, 1)
              /\ Set(l, ToFile([r EXCEPT !.toks[name] = 1], "xbl", "tokens", "attemptFailed"))
           \/ /\ Set(l, Go(r, "attemptFailed"))
              /\ UNCHANGED mem
        /\ Quiet

\* getUserToken(), getDeviceToken(), getTitleToken().
Asking(l) == \E name \in ToSet(Keys) : Wanted(job[l], name) /\ AskFor(l, name)
AskingXsts(l) == Wanted(job[l], Xsts) /\ AskFor(l, Xsts)

Chain(l) ==
    /\ Turn(l, "chain")
    /\ \E where \in {"done", "outerFailed"} : Set(l, Go(job[l], where))
    /\ UNCHANGED mem /\ Quiet

\* 2000 ms later: forceMsaRefresh(), then the method again.
Delay(l) ==
    LET r == job[l]
    IN  /\ Turn(l, "delay")
        /\ forceRefresh' = [forceRefresh EXCEPT ![r.flow] = TRUE]
        /\ Attempt(l, r, TRUE)
        /\ UNCHANGED <<disk, alive, shared, polling, issued>>

-----------------------------------------------------------------------------
(* Time, and the end of a process.                                          *)

CodeExpires(l) ==
    /\ job[l].pc \in {"pollWait", "polling"} /\ ~job[l].codeExpired
    /\ Set(l, [job[l] EXCEPT !.codeExpired = TRUE])
    /\ UNCHANGED mem /\ Quiet

\* Nothing is left of the flow but the files, as they are.
Crash(f) ==
    /\ alive[f] # "no" /\ Fault
    /\ alive' = [alive EXCEPT ![f] = "no"]
    /\ mem' = [mem EXCEPT ![f] = [c \in Caches |-> Unread]]
    /\ forceRefresh' = [forceRefresh EXCEPT ![f] = FALSE]
    /\ polling' = [polling EXCEPT ![f] = FALSE]
    /\ job' = [l \in Logins |-> IF job[l].flow = f THEN Over("gone") ELSE job[l]]
    /\ shared' = shared \ {f}
    /\ UNCHANGED <<scenario, file, diskFailed, issued>>

-----------------------------------------------------------------------------
\* What a flow does by itself, and what waits for a service.
Reaction(l) ==
    \/ Open(l) \/ Write(l) \/ ResetXbl(l) \/ Created(l) \/ Begin(l)
    \/ CachedTokens(l) \/ Proceed(l) \/ Access(l) \/ Verify(l) \/ Verified(l)
    \/ PollWait(l) \/ Delay(l)

Answer(l) ==
    \/ Forcing(l) \/ Renewing(l) \/ Device(l) \/ Polling(l)
    \/ Asking(l) \/ AskingXsts(l) \/ Chain(l)

Next ==
    \/ \E call \in scenario.calls : Start(call[1], call[2], call[3])
    \/ \E l \in Logins : Reaction(l) \/ Answer(l) \/ CodeExpires(l)
    \/ \E f \in Flows : Crash(f)

\* Reactions and timers run, codes expire.  A service may never answer: the
\* requests have no timeout.
Fairness == \A l \in Logins : WF_vars(Reaction(l)) /\ WF_vars(CodeExpires(l))

Spec == Init /\ [][Next]_vars /\ Fairness

-----------------------------------------------------------------------------
\* Without failing file operations and without another flow on the files,
\* memory is what the file holds.
MemoryIsFile ==
    \A f \in Flows, c \in Caches :
        (alive[f] = "yes" /\ f \notin shared /\ ~diskFailed /\ ~Writing(f))
            => mem[f][c] \in {Unread, file[c]}

\* Whenever none of a flow's writes is under way, what it knows is what the
\* next process would find: setCachedPartial() and the reset of getCached()
\* leave memory and file equal, whatever other logins of the flow write in
\* between.  A crash between the truncation and the write is outside of it: it
\* loses the file, and the next flow begins with nothing.
Durable == TypeOK /\ MemoryIsFile

\* The second try does not use the MSA token with which the first one failed,
\* if the service renewed it: the renewed one is in the cache when the token
\* is read again, although nobody waits for updateCache().
RetryRenews ==
    \A l \in Logins :
        (job[l].pc = "asking" /\ job[l].tries = 1 /\ job[l].renewed) =>
            job[l].toks["token"] # job[l].lastMsa

\* The user is asked to sign in only if no token was known when the try
\* began, or a service refused to renew it.
AsksOnlyIfNeeded ==
    \A l \in Logins : job[l].pc = "device" => ~job[l].had \/ job[l].refused

\* Every login ends, unless one of its requests is never answered.
LoginsEnd ==
    \A l \in Logins : []<>(job[l].pc \in Ended) \/ <>[](job[l].pc \in Http)
=============================================================================
