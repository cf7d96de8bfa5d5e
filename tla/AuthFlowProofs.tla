--------------------------- MODULE AuthFlowProofs ---------------------------
(***************************************************************************)
(* Memory and file agree, retries use renewed tokens and users are asked   *)
(* only when needed, for any flows, logins, faults and number of tokens.   *)
(*                                                                         *)
(* The argument: what a login has seen (`had', `renewed') is a fact about  *)
(* the memory of its flow, and the MSA token there only grows, so other    *)
(* logins of the flow and writes under way cannot undo it (Knows).  A flow *)
(* has one writer at a time (OneWriter), and with no other flow alive      *)
(* nobody else touches the file between its truncation and the write, so   *)
(* a write leaves memory and file equal (Alone, Blanked, Kept).            *)
(***************************************************************************)
EXTENDS AuthFlow, TLAPS

\* A login inside a file operation.
Busy == {"open", "write"}

\* The places of a login.
Pcs == Ended \cup Http \cup Busy \cup
       {"begin", "cachedTokens", "proceed", "access", "refresh", "verified",
        "pollWait", "delay", "resetXbl", "created"}

\* Why a cache file is written: its cache, and where the login goes on.
Writes == {<<"live", "resetXbl", "resetXbl">>, <<"xbl", "created", "created">>,
           <<"xbl", "cachedTokens", "outerFailed">>,
           <<"live", "forced", "proceed">>, <<"live", "access", "attemptFailed">>,
           <<"live", "refresh", "attemptFailed">>, <<"live", "renew", "device">>,
           <<"live", "use", "attemptFailed">>, <<"live", "proceed", "proceed">>,
           <<"live", "verified", "verified">>, <<"live", "tokens", "tokens">>,
           <<"xbl", "tokens", "attemptFailed">>}

\* Where writes lead.
Targets == {"resetXbl", "created", "cachedTokens", "forced", "access", "refresh",
            "renew", "use", "proceed", "verified", "tokens", "outerFailed",
            "attemptFailed", "device", "idle"}

\* The type of a login.
Job == [pc : Pcs, flow : Flows \cup {None}, left : 0..2, tries : 1..2,
        held : Content, toks : Content, snap : Content,
        access : {"none", "valid", "expired"}, codeExpired : BOOLEAN,
        cache : Caches, ok : Targets, bad : Targets,
        had : BOOLEAN, refused : BOOLEAN, renewed : BOOLEAN,
        lastMsa : 0..MaxTokens]

\* The type invariant, with the places and the fields of logins.
Typed ==
    /\ scenario \in Scenarios
    /\ file \in [Caches -> Content \cup {Blank, Mixed}]
    /\ faults \in 0..scenario.faults /\ diskFailed \in BOOLEAN
    /\ alive \in [Flows -> {"no", "creating", "yes"}]
    /\ shared \subseteq Flows
    /\ forceRefresh \in [Flows -> BOOLEAN] /\ polling \in [Flows -> BOOLEAN]
    /\ mem \in [Flows -> [Caches -> Content \cup {Unread}]]
    /\ issued \in 0..MaxTokens
    /\ job \in [Logins -> Job]

\* A login whose flow is being made.
Making(r) ==
    \/ r.pc \in {"resetXbl", "created"}
    \/ r.pc \in Busy /\ r.ok \in {"resetXbl", "created"}

\* A login that is under way has a flow, which is there.
Placed(r, a) ==
    r.pc \notin Ended => /\ r.flow \in Flows
                         /\ a[r.flow] = IF Making(r) THEN "creating" ELSE "yes"

\* Where reads of the MSA token lead that had to reset the file first.
Reset == {"forced", "access", "refresh", "renew", "use"}

\* A write has one of the known reasons; a reset finds nothing in memory.
Reasons(r, m) ==
    r.pc \in Busy => /\ <<r.cache, r.ok, r.bad>> \in Writes
                     /\ r.ok \in Reset => m[r.flow]["live"] = Unread

\* No token is newer than the last one issued.
Numbered(r, n) ==
    r.toks["token"] <= n /\ r.snap["token"] <= n /\ r.lastMsa <= n /\ r.held["token"] = 0

\* What a login has seen or renewed is still in memory.
Knows(r, m) ==
    /\ r.had => m[r.flow]["live"] # Unread /\ m[r.flow]["live"]["token"] # 0
    /\ r.renewed /\ r.pc # "delay" =>
          m[r.flow]["live"] # Unread /\ m[r.flow]["live"]["token"] > r.lastMsa

\* A token that was there when the try began is found again, so the user is
\* asked only after a refusal.
Asks(r) ==
    /\ r.pc = "device" => ~r.had \/ r.refused
    /\ r.pc \in {"access", "refresh"} /\ r.had => r.snap["token"] # 0
    /\ r.pc = "refresh" /\ r.had => r.access # "none"

\* A try that goes on after a renewal has a token newer than the one that failed.
Renews(r) ==
    r.renewed /\ (r.pc = "asking" \/ (r.pc \in Busy /\ r.ok = "tokens")) =>
        r.toks["token"] > r.lastMsa

\* A login that is not under way, or is past its tokens, has seen nothing.
Idles(r) == r.pc \in Ended \cup {"chain"} => ~r.had /\ ~r.renewed

\* What holds of a login r, with the flows a, the memory m and n tokens issued.
Sound(r, a, m, n) ==
    /\ Idles(r) /\ Placed(r, a) /\ Reasons(r, m) /\ Numbered(r, n) /\ Knows(r, m)
    /\ Asks(r) /\ Renews(r)

\* A flow that is not there has nothing.
Absent ==
    \A f \in Flows : alive[f] # "yes" =>
        (\A c \in Caches : mem[f][c] = Unread) /\ ~polling[f] /\ ~forceRefresh[f]

\* A flow is inside one file operation at most.
OneWriter ==
    \A l, k \in Logins :
        job[l].pc \in Busy /\ job[k].pc \in Busy /\ job[l].flow = job[k].flow => l = k

\* The login that makes a flow is the only one in it.
OneMaker ==
    \A l, k \in Logins :
        (job[l].pc \notin Ended /\ job[k].pc \notin Ended /\ job[l].flow = job[k].flow
          /\ alive[job[l].flow] = "creating") => l = k

\* No token in a file or in memory is newer than the last one issued.
Issued ==
    /\ \A c \in Caches : file[c] \in Content => file[c]["token"] <= issued
    /\ \A f \in Flows, c \in Caches : mem[f][c] # Unread => mem[f][c]["token"] <= issued

\* Flows that are there together are shared.
Alone ==
    \A f, g \in Flows : alive[f] # "no" /\ alive[g] # "no" /\ f \notin shared => f = g

\* Memory and file of a flow on its own differ only while the file is written.
Kept ==
    \A f \in Flows, c \in Caches :
        alive[f] = "yes" /\ f \notin shared /\ ~diskFailed =>
            \/ mem[f][c] \in {Unread, file[c]}
            \/ \E l \in Logins : job[l].flow = f /\ job[l].pc \in Busy /\ job[l].cache = c

\* Nobody else fills the file between its truncation and the write.
Blanked ==
    \A l \in Logins :
        job[l].pc = "write" /\ job[l].flow \notin shared => file[job[l].cache] = Blank

\* What holds of every login.
Logs == \A l \in Logins : Sound(job[l], alive, mem, issued)

\* The inductive invariant.
Inv == /\ Typed /\ Logs /\ Absent /\ OneWriter /\ OneMaker /\ Issued /\ Alone
       /\ Kept /\ Blanked

-----------------------------------------------------------------------------
(* Where a login goes on.                                                  *)

\* The names, the contents and the marks for files and memory.
LEMMA NameFacts ==
    /\ "token" \in Names /\ Xsts \in Names /\ ToSet(Keys) \subseteq Names
    /\ Empty \in Content /\ Empty["token"] = 0
    /\ Unread \notin Content /\ Blank \notin Content /\ Mixed \notin Content
    /\ MaxTokens \in Nat /\ 1 \in 0..MaxTokens /\ 0 \in 0..MaxTokens
    /\ \A v \in Content : v["token"] \in Nat
<1>1. MaxTokens \in Nat /\ MaxTokens # 0
  BY TokenAssumption
<1>2. "token" \in Names /\ Xsts \in Names /\ ToSet(Keys) \subseteq Names
  BY DEF Names
<1>3. Empty \in Content /\ Empty["token"] = 0
  BY <1>1, <1>2 DEF Empty, Content
<1>4. Unread \notin Content /\ Blank \notin Content /\ Mixed \notin Content
  BY TokenAssumption
<1>5. \A v \in Content : v["token"] \in Nat
  BY <1>1, <1>2 DEF Content
<1>6. 1 \in 0..MaxTokens /\ 0 \in 0..MaxTokens
  BY <1>1
<1> QED BY <1>1, <1>2, <1>3, <1>4, <1>5, <1>6

\* A login that is under way in a flow that is there.
Core(r, a, m, n) ==
    /\ r \in Job /\ r.flow \in Flows /\ a[r.flow] = "yes" /\ Numbered(r, n)
    /\ r.had => m[r.flow]["live"] # Unread /\ m[r.flow]["live"]["token"] # 0
    /\ r.renewed =>
          m[r.flow]["live"] # Unread /\ m[r.flow]["live"]["token"] > r.lastMsa

\* s is a place where r may go on without a write.
Fine(s, r, a, m, n) ==
    /\ s \in Job /\ Sound(s, a, m, n)
    /\ s.pc \in Ended \/ s.flow = r.flow
    /\ s.pc \notin Busy

\* Logins made from a new one are well-formed.
LEMMA NewFields ==
    /\ NewJob \in Job
    /\ \A w \in Pcs : /\ [NewJob EXCEPT !.pc = w] \in Job
                      /\ \A f \in Flows, n \in 0..2 :
                           [NewJob EXCEPT !.pc = w, !.flow = f, !.left = n] \in Job
<1>1. /\ "idle" \in Pcs /\ "live" \in Caches /\ "idle" \in Targets
      /\ "none" \in {"none", "valid", "expired"} /\ 0 \in 0..2 /\ 2 \in 1..2
  BY DEF Pcs, Ended, Caches, Targets
<1>2. NewJob \in Job
  BY <1>1, NameFacts DEF NewJob, Job
<1>3. \A w \in Pcs : [NewJob EXCEPT !.pc = w] \in Job
  BY <1>2 DEF Job
<1>4. \A w \in Pcs, f \in Flows, n \in 0..2 :
         [NewJob EXCEPT !.pc = w, !.flow = f, !.left = n] \in Job
  BY <1>2 DEF Job
<1> QED BY <1>2, <1>3, <1>4

\* A login may always end.
LEMMA FineOver ==
    ASSUME NEW r, NEW a, NEW m, NEW n \in Nat, NEW w \in Ended
    PROVE  Fine(Over(w), r, a, m, n)
<1>1. Over(w) \in Job /\ Over(w).pc = w
  BY NewFields DEF Over, NewJob, Pcs
<1> QED BY <1>1, NameFacts
   DEF Fine, Over, NewJob, Sound, Idles, Placed, Reasons, Numbered, Knows, Asks, Renews, Ended, Busy

\* The outer retry begins anew, or the login fails.
LEMMA FineOuter ==
    ASSUME NEW r, NEW a, NEW m, NEW n \in Nat, Core(r, a, m, n)
    PROVE  Fine(OuterFailed(r), r, a, m, n)
<1>1. CASE r.left # 2
  BY <1>1, FineOver DEF OuterFailed, Ended
<1>2. CASE r.left = 2
  <2> DEFINE s == [NewJob EXCEPT !.pc = "begin", !.flow = r.flow, !.left = 1]
  <2>1. s \in Job
    <3>1. "begin" \in Pcs /\ 1 \in 0..2 /\ r.flow \in Flows
      BY DEF Core, Pcs
    <3> QED BY <3>1, NewFields
  <2> QED BY <1>2, <2>1, NameFacts
     DEF Fine, OuterFailed, NewJob, Sound, Idles, Placed, Reasons, Numbered, Knows, Asks, Renews,
         Ended, Busy, Making, Core
<1> QED BY <1>1, <1>2

\* A try that fails is followed by the delay, or by the outer retry.
LEMMA FineAttempt ==
    ASSUME NEW r, NEW a, NEW m, NEW n \in Nat, Core(r, a, m, n)
    PROVE  Fine(AttemptFailed(r), r, a, m, n)
<1>1. CASE r.tries # 2
  BY <1>1, FineOuter DEF AttemptFailed
<1>2. CASE r.tries = 2
  <2> DEFINE s == [r EXCEPT !.pc = "delay", !.tries = 1, !.lastMsa = r.toks["token"],
                            !.snap = Empty, !.toks = Empty, !.codeExpired = FALSE]
  <2>1. r.toks["token"] \in 0..MaxTokens
    BY NameFacts DEF Core, Job, Content
  <2>2. s \in Job
    <3>1. "delay" \in Pcs /\ 1 \in 1..2 /\ FALSE \in BOOLEAN /\ Empty \in Content
      BY NameFacts DEF Pcs
    <3>2. r \in Job
      BY DEF Core
    <3> QED BY <2>1, <3>1, <3>2 DEF Job
  <2> QED BY <1>2, <2>1, <2>2, NameFacts
     DEF Fine, AttemptFailed, Sound, Idles, Placed, Reasons, Numbered, Knows, Asks, Renews,
         Ended, Busy, Making, Core, Job
<1> QED BY <1>1, <1>2

\* The XSTS token is there: the login is done, or asks for the chain.
LEMMA FineGot ==
    ASSUME NEW r, NEW a, NEW m, NEW n \in Nat, Core(r, a, m, n)
    PROVE  Fine(GotXsts(r), r, a, m, n)
<1>1. CASE r.left = 0
  BY <1>1, FineOver DEF GotXsts, Ended
<1>2. CASE r.left # 0
  <2> DEFINE s == [NewJob EXCEPT !.pc = "chain", !.flow = r.flow, !.left = r.left]
  <2>1. s \in Job
    <3>1. "chain" \in Pcs /\ r.left \in 0..2 /\ r.flow \in Flows
      BY DEF Core, Pcs, Http, Job
    <3> QED BY <3>1, NewFields
  <2> QED BY <1>2, <2>1, NameFacts
     DEF Fine, GotXsts, NewJob, Sound, Idles, Placed, Reasons, Numbered, Knows, Asks, Renews,
         Ended, Busy, Making, Core
<1> QED BY <1>1, <1>2

\* Places that ask nothing but what Asks says.
Plain == Pcs \ (Ended \cup Busy \cup {"resetXbl", "created", "asking", "chain"})

\* A login may go on at such a place, if it may ask there.
LEMMA FinePlain ==
    ASSUME NEW r, NEW a, NEW m, NEW n \in Nat, Core(r, a, m, n), NEW w \in Plain,
           Asks([r EXCEPT !.pc = w])
    PROVE  Fine([r EXCEPT !.pc = w], r, a, m, n)
<1> DEFINE s == [r EXCEPT !.pc = w]
<1>1. r \in Job /\ w \in Pcs
  BY DEF Core, Plain
<1>2. s \in Job
  BY <1>1 DEF Job
<1>3. /\ s.pc = w /\ s.flow = r.flow /\ s.toks = r.toks /\ s.snap = r.snap
      /\ s.held = r.held /\ s.lastMsa = r.lastMsa /\ s.had = r.had
      /\ s.renewed = r.renewed /\ s.ok = r.ok
  BY <1>1 DEF Job
<1>4. w \notin Ended /\ w \notin Busy /\ w \notin {"resetXbl", "created", "asking", "chain"}
  BY DEF Plain
<1>5. Asks(s)
  OBVIOUS
<1> HIDE DEF s
<1>6. Sound(s, a, m, n)
  BY <1>3, <1>4, <1>5 DEF Sound, Idles, Placed, Reasons, Numbered, Knows, Renews, Making, Core
<1> QED BY <1>2, <1>3, <1>4, <1>6 DEF Fine, s

\* A login goes on with a new enough MSA token.
LEMMA FineTokens ==
    ASSUME NEW r, NEW a, NEW m, NEW n \in Nat, Core(r, a, m, n),
           r.renewed => r.toks["token"] > r.lastMsa
    PROVE  Fine(Tokens(r), r, a, m, n)
<1>1. CASE r.toks[Xsts] # 0
  BY <1>1, FineGot DEF Tokens
<1>2. CASE r.toks[Xsts] = 0
  <2> DEFINE s == [r EXCEPT !.pc = "asking"]
  <2>1. r \in Job /\ "asking" \in Pcs
    BY DEF Core, Pcs, Http
  <2>2. s \in Job
    BY <2>1 DEF Job
  <2>3. /\ s.pc = "asking" /\ s.flow = r.flow /\ s.toks = r.toks /\ s.snap = r.snap
        /\ s.held = r.held /\ s.lastMsa = r.lastMsa /\ s.had = r.had
        /\ s.renewed = r.renewed /\ s.ok = r.ok
    BY <2>1 DEF Job
  <2>4. Tokens(r) = s
    BY <1>2 DEF Tokens
  <2> HIDE DEF s
  <2>5. Sound(s, a, m, n)
    BY <2>3 DEF Sound, Idles, Placed, Reasons, Numbered, Knows, Renews, Making, Core, Asks, Ended, Busy
  <2> QED BY <2>2, <2>3, <2>4, <2>5 DEF Fine, Busy
<1> QED BY <1>1, <1>2

\* A login uses a new enough token from the cache.
LEMMA FineUse ==
    ASSUME NEW r, NEW a, NEW m, NEW n \in Nat, Core(r, a, m, n),
           r.renewed => r.snap["token"] > r.lastMsa
    PROVE  Fine(Use(r), r, a, m, n)
<1>1. CASE r.snap["token"] = 0
  BY <1>1, FineAttempt DEF Use
<1>2. CASE r.snap["token"] # 0
  <2> DEFINE k == r.snap["token"]
             u == [r.toks EXCEPT !["token"] = k]
             s == [r EXCEPT !.toks = u, !.snap = Empty]
  <2>1. r \in Job
    BY DEF Core
  <2>2. k \in 0..MaxTokens /\ r.toks \in Content
    BY <2>1, NameFacts DEF Job, Content
  <2>3. u \in Content /\ u["token"] = k
    BY <2>2, NameFacts DEF Content
  <2>4. Use(r) = Tokens(s)
    BY <1>2, <2>1 DEF Use, Job
  <2> HIDE DEF u
  <2>5. s \in Job
    BY <2>1, <2>3, NameFacts DEF Job
  <2>6. /\ s.flow = r.flow /\ s.toks = u /\ s.snap = Empty
        /\ s.held = r.held /\ s.lastMsa = r.lastMsa /\ s.had = r.had
        /\ s.renewed = r.renewed
    BY <2>1 DEF Job
  <2> HIDE DEF s
  <2>7. Core(s, a, m, n)
    BY <2>1, <2>3, <2>5, <2>6, NameFacts DEF Core, Numbered
  <2>8. s.renewed => s.toks["token"] > s.lastMsa
    BY <2>3, <2>6
  <2>9. Fine(Tokens(s), s, a, m, n)
    BY <2>7, <2>8, FineTokens
  <2> HIDE DEF k
  <2> QED BY <2>4, <2>6, <2>9 DEF Fine
<1> QED BY <1>1, <1>2

\* A login asks for a renewal, or goes on without a token to renew.
LEMMA FineRefresh ==
    ASSUME NEW r, NEW a, NEW m, NEW n \in Nat, Core(r, a, m, n),
           NEW w \in Plain, NEW v \in Plain, {w, v} \cap {"access", "refresh"} = {},
           w # "device", v = "device" /\ r.snap["token"] = 0 => ~r.had \/ r.refused
    PROVE  Fine(RefreshTokens(r, w, v), r, a, m, n)
<1> DEFINE q == [r EXCEPT !.snap = Empty]
           x == IF r.snap["token"] # 0 THEN w ELSE v
<1>1. r \in Job
  BY DEF Core
<1>2. q \in Job
  BY <1>1, NameFacts DEF Job
<1>3. /\ q.flow = r.flow /\ q.toks = r.toks /\ q.snap = Empty
      /\ q.held = r.held /\ q.lastMsa = r.lastMsa /\ q.had = r.had
      /\ q.renewed = r.renewed /\ q.refused = r.refused
  BY <1>1 DEF Job
<1>4. RefreshTokens(r, w, v) = [q EXCEPT !.pc = x]
  BY <1>1 DEF RefreshTokens, Job
<1> HIDE DEF q
<1>5. Core(q, a, m, n)
  BY <1>2, <1>3, NameFacts DEF Core, Numbered
<1>6. x \in Plain /\ x \notin {"access", "refresh"}
  OBVIOUS
<1>7. x = "device" => ~q.had \/ q.refused
  BY <1>3
<1> HIDE DEF x
<1>8. Asks([q EXCEPT !.pc = x])
  BY <1>2, <1>6, <1>7 DEF Asks, Job
<1>9. Fine([q EXCEPT !.pc = x], q, a, m, n)
  BY <1>5, <1>6, <1>8, FinePlain
<1> QED BY <1>3, <1>4, <1>9 DEF Fine

-----------------------------------------------------------------------------
(* Reactions of a login.                                                   *)

\* What a reaction does to the memory of its flow f, when the login is s
\* afterwards: caches are read, or updated and then written.
Touches(f, s) ==
    /\ mem' \in [Flows -> [Caches -> Content \cup {Unread}]]
    /\ \A g \in Flows : g # f => mem'[g] = mem[g]
    /\ \A c \in Caches : \/ mem'[f][c] = mem[f][c]
                         \/ mem'[f][c] = file[c]
                         \/ s.pc \in Busy /\ s.cache = c
    /\ \A c \in Caches : mem'[f][c] # Unread => mem'[f][c]["token"] <= issued'
    /\ mem[f]["live"] # Unread =>
          mem'[f]["live"] # Unread /\ mem[f]["live"]["token"] <= mem'[f]["live"]["token"]

\* The other logins of the flow stay sound.
LEMMA SoundKept ==
    ASSUME Inv, NEW k \in Logins, NEW f, NEW s, Touches(f, s),
           issued' \in Nat, issued <= issued', alive' = alive, job'[k] = job[k],
           job[k].flow = f => job[k].pc \notin Busy \/ mem' = mem
    PROVE  Sound(job'[k], alive', mem', issued')
<1> DEFINE r == job[k]
<1>1. r \in Job /\ Sound(r, alive, mem, issued)
  BY DEF Inv, Typed, Logs
<1>2. issued \in Nat
  BY NameFacts DEF Inv, Typed
<1>3. r.toks["token"] \in Nat /\ r.snap["token"] \in Nat /\ r.lastMsa \in Nat
  BY <1>1, NameFacts DEF Job
<1>4. Numbered(r, issued')
  BY <1>1, <1>2, <1>3 DEF Sound, Numbered
<1>5. r.pc \in Ended \/ r.flow \in Flows
  BY <1>1 DEF Sound, Placed
<1>6. mem \in [Flows -> [Caches -> Content \cup {Unread}]]
  BY DEF Inv, Typed
<1>7. Knows(r, mem')
  <2>1. CASE r.flow \notin Flows
    <3>1. ~r.had /\ ~r.renewed
      BY <1>1, <1>5, <2>1 DEF Sound, Idles
    <3> QED BY <3>1 DEF Knows
  <2>2. CASE r.flow \in Flows /\ r.flow # f
    BY <1>1, <2>2 DEF Sound, Knows, Touches
  <2>3. CASE r.flow \in Flows /\ r.flow = f
    <3> DEFINE x == mem[f]["live"]
               y == mem'[f]["live"]
    <3>1. x # Unread => y # Unread /\ x["token"] <= y["token"]
      BY DEF Touches
    <3>2. x # Unread => x["token"] \in Nat
      BY <1>6, <2>3, NameFacts DEF Caches
    <3>3. y # Unread => y["token"] \in Nat
      BY <2>3, NameFacts DEF Touches, Caches
    <3>4. /\ r.had => x # Unread /\ x["token"] # 0
          /\ r.renewed /\ r.pc # "delay" => x # Unread /\ x["token"] > r.lastMsa
      BY <1>1, <2>3 DEF Sound, Knows
    <3> HIDE DEF x, y, r
    <3>5. /\ r.had => y # Unread /\ y["token"] # 0
          /\ r.renewed /\ r.pc # "delay" => y # Unread /\ y["token"] > r.lastMsa
      BY <1>3, <3>1, <3>2, <3>3, <3>4
    <3> QED BY <2>3, <3>5 DEF Knows, y
  <2> QED BY <2>1, <2>2, <2>3
<1>8. Reasons(r, mem')
  <2>1. CASE r.pc \in Busy
    <3>1. r.flow \in Flows
      BY <1>5, <2>1 DEF Ended, Busy
    <3>2. mem'[r.flow] = mem[r.flow]
      BY <2>1, <3>1 DEF Touches
    <3> QED BY <1>1, <3>2 DEF Sound, Reasons
  <2>2. CASE r.pc \notin Busy
    BY <2>2 DEF Reasons
  <2> QED BY <2>1, <2>2
<1> QED BY <1>1, <1>4, <1>7, <1>8 DEF Sound

\* What a reaction of l, in its flow f, leaves alone.
Around(l, f) ==
    /\ f = job[l].flow /\ job[l].pc \notin Ended \cup Busy
    /\ UNCHANGED <<scenario, file, faults, diskFailed, alive, shared>>
    /\ polling' \in [Flows -> BOOLEAN] /\ forceRefresh' \in [Flows -> BOOLEAN]
    /\ \A g \in Flows : g # f => /\ polling'[g] = polling[g]
                                 /\ forceRefresh'[g] = forceRefresh[g]
    /\ alive[f] = "yes" \/ UNCHANGED <<mem, polling, forceRefresh>>
    /\ issued' \in 0..MaxTokens /\ issued <= issued'

\* A reaction of l that leaves it sound preserves the invariant.
LEMMA Reacts ==
    ASSUME Inv, NEW l \in Logins, NEW f, Around(l, f),
           NEW s, job' = [job EXCEPT ![l] = s], s \in Job, s.pc # "write",
           s.pc \in Ended \/ s.flow = f, Sound(s, alive, mem', issued'),
           Touches(f, s), (mem' = mem /\ s.pc \notin Busy) \/ ~Writing(f)
    PROVE  Inv'
<1>0. /\ f = job[l].flow /\ job[l].pc \notin Ended \cup Busy
      /\ UNCHANGED <<scenario, file, faults, diskFailed, alive, shared>>
      /\ polling' \in [Flows -> BOOLEAN] /\ forceRefresh' \in [Flows -> BOOLEAN]
      /\ \A g \in Flows : g # f => /\ polling'[g] = polling[g]
                                   /\ forceRefresh'[g] = forceRefresh[g]
      /\ alive[f] = "yes" \/ UNCHANGED <<mem, polling, forceRefresh>>
      /\ issued' \in 0..MaxTokens /\ issued <= issued'
  BY DEF Around
<1> USE <1>0
<1>1. f \in Flows /\ job \in [Logins -> Job]
  BY DEF Inv, Typed, Logs, Sound, Placed
<1>2. job'[l] = s /\ \A k \in Logins : k # l => job'[k] = job[k]
  BY <1>1
<1>3. Typed'
  <2>1. job' \in [Logins -> Job]
    BY <1>1
  <2> QED BY <2>1 DEF Inv, Typed, Touches
<1>4. \A k \in Logins : ~Writing(f) /\ job[k].flow = f => job[k].pc \notin Busy
  BY DEF Writing, Busy
<1>5. Logs'
  <2>1. ASSUME NEW k \in Logins, k # l PROVE Sound(job'[k], alive', mem', issued')
    <3>1. job[k].flow = f => job[k].pc \notin Busy \/ mem' = mem
      BY <1>4
    <3>2. issued' \in Nat
      BY NameFacts
    <3> QED BY <1>2, <2>1, <3>1, <3>2, SoundKept
  <2> QED BY <1>2, <2>1 DEF Logs
<1>6. Absent'
  BY <1>1 DEF Inv, Absent, Touches, Typed
<1>7. OneWriter'
  <2>1. s.pc \in Busy => s.flow = f /\ \A k \in Logins : job[k].flow = f => job[k].pc \notin Busy
    BY <1>4 DEF Busy, Ended
  <2> QED BY <1>2, <2>1 DEF Inv, OneWriter
<1>8. OneMaker'
  BY <1>2 DEF Inv, OneMaker
<1>9. Issued'
  <2>1. issued \in Nat /\ issued' \in Nat
    BY NameFacts DEF Inv, Typed
  <2>2. \A c \in Caches : file[c] \in Content => file[c]["token"] <= issued'
    BY <2>1, NameFacts DEF Inv, Issued
  <2>3. \A g \in Flows, c \in Caches : mem'[g][c] # Unread => mem'[g][c]["token"] <= issued'
    <3> SUFFICES ASSUME NEW g \in Flows, NEW c \in Caches, mem'[g][c] # Unread
                 PROVE  mem'[g][c]["token"] <= issued'
      OBVIOUS
    <3>1. CASE g = f
      BY <3>1 DEF Touches
    <3>2. CASE g # f
      <4>1. mem'[g][c] = mem[g][c] /\ mem[g][c] \in Content
        BY <3>2 DEF Touches, Inv, Typed
      <4> QED BY <2>1, <4>1, NameFacts DEF Inv, Issued
    <3> QED BY <3>1, <3>2
  <2> QED BY <2>2, <2>3 DEF Issued
<1>10. Alone'
  BY DEF Inv, Alone
<1>11. Kept'
  <2> SUFFICES ASSUME NEW g \in Flows, NEW c \in Caches,
                      alive[g] = "yes", g \notin shared, ~diskFailed
               PROVE  \/ mem'[g][c] \in {Unread, file[c]}
                      \/ \E k \in Logins : job'[k].flow = g /\ job'[k].pc \in Busy /\ job'[k].cache = c
    BY DEF Kept
  <2>1. \/ mem[g][c] \in {Unread, file[c]}
        \/ \E k \in Logins : job[k].flow = g /\ job[k].pc \in Busy /\ job[k].cache = c
    BY DEF Inv, Kept
  <2>2. ASSUME NEW k \in Logins, job[k].flow = g, job[k].pc \in Busy, job[k].cache = c
        PROVE  job'[k] = job[k]
    BY <1>2, <2>2
  <2>3. CASE \E k \in Logins : job[k].flow = g /\ job[k].pc \in Busy /\ job[k].cache = c
    BY <2>2, <2>3
  <2>4. CASE mem[g][c] \in {Unread, file[c]}
    <3>1. CASE g # f
      BY <2>4, <3>1 DEF Touches
    <3>2. CASE g = f
      <4>1. \/ mem'[f][c] = mem[f][c] \/ mem'[f][c] = file[c]
            \/ s.pc \in Busy /\ s.cache = c
        BY DEF Touches
      <4>2. s.pc \in Busy => s.flow = f
        BY DEF Busy, Ended
      <4> QED BY <1>2, <2>4, <3>2, <4>1, <4>2
    <3> QED BY <3>1, <3>2
  <2> QED BY <2>1, <2>3, <2>4
<1>12. Blanked'
  BY <1>2 DEF Inv, Blanked
<1> QED BY <1>3, <1>5, <1>6, <1>7, <1>8, <1>9, <1>10, <1>11, <1>12 DEF Inv

\* What getCached() of c returns and does, when a reset of the file is not due.
LEMMA VisibleIs ==
    ASSUME Inv, NEW f \in Flows, NEW c \in Caches
    PROVE  /\ Visible(f, c) \in Content /\ Visible(f, c)["token"] <= issued
           /\ mem[f][c] # Unread => Visible(f, c) = mem[f][c]
           /\ mem[f][c] = Unread /\ Readable(c) => Visible(f, c) = file[c]
           /\ mem[f][c] = Unread /\ ~Readable(c) => Visible(f, c) = Empty
<1>1. mem[f][c] \in Content \cup {Unread} /\ file[c] \in Content \cup {Blank, Mixed}
  BY DEF Inv, Typed
<1>2. issued \in Nat
  BY NameFacts DEF Inv, Typed
<1> QED BY <1>1, <1>2, NameFacts DEF Visible, Readable, Inv, Issued

\* The cache of f is read: v is what it holds.
LEMMA ReadTouches ==
    ASSUME Inv, NEW f \in Flows, NEW c \in Caches, NEW s,
           mem' = [mem EXCEPT ![f][c] = Visible(f, c)], issued' = issued,
           mem[f][c] # Unread \/ Readable(c)
    PROVE  Touches(f, s) /\ mem'[f][c] = Visible(f, c)
<1> DEFINE v == Visible(f, c)
           row == [mem[f] EXCEPT ![c] = v]
<1>1. /\ mem \in [Flows -> [Caches -> Content \cup {Unread}]]
      /\ v \in Content /\ v["token"] <= issued
      /\ mem[f][c] = v \/ (mem[f][c] = Unread /\ v = file[c])
  BY VisibleIs DEF Inv, Typed
<1>2. row \in [Caches -> Content \cup {Unread}] /\ row[c] = v
      /\ \A d \in Caches : d # c => row[d] = mem[f][d]
  BY <1>1
<1>3. mem' = [mem EXCEPT ![f] = row]
  BY <1>1
<1> HIDE DEF row, v
<1>4. /\ mem' \in [Flows -> [Caches -> Content \cup {Unread}]]
      /\ mem'[f] = row /\ \A g \in Flows : g # f => mem'[g] = mem[g]
  BY <1>1, <1>2, <1>3
<1>5. \A d \in Caches : mem'[f][d] # Unread => mem'[f][d]["token"] <= issued'
  BY <1>1, <1>2, <1>4 DEF Inv, Issued
<1>6. mem[f]["live"] # Unread =>
          mem'[f]["live"] # Unread /\ mem[f]["live"]["token"] <= mem'[f]["live"]["token"]
  <2>1. "live" \in Caches
    BY DEF Caches
  <2>2. mem[f]["live"] # Unread => mem'[f]["live"] = mem[f]["live"] /\ mem[f]["live"] \in Content
    BY <1>1, <1>2, <1>4, <2>1
  <2> QED BY <2>2, NameFacts
<1>7. \A d \in Caches : mem'[f][d] = mem[f][d] \/ mem'[f][d] = file[d]
  BY <1>1, <1>2, <1>4
<1> QED BY <1>2, <1>4, <1>5, <1>6, <1>7 DEF Touches, v

\* The reasons for a write are well-formed.
LEMMA WritesTyped ==
    ASSUME NEW c, NEW ok, NEW bad, <<c, ok, bad>> \in Writes
    PROVE  c \in Caches /\ ok \in Targets /\ bad \in Targets
BY DEF Writes, Caches, Targets

\* A login s of flow f is about to write the file of c.
Opens(s, f, c, a, m, n) ==
    s \in Job /\ s.pc = "open" /\ s.flow = f /\ s.cache = c /\ Sound(s, a, m, n)

\* A write begins.
LEMMA FileFine ==
    ASSUME NEW r, NEW a, NEW m, NEW n \in Nat, Core(r, a, m, n),
           NEW c, NEW ok, NEW bad, <<c, ok, bad>> \in Writes,
           ok \notin {"resetXbl", "created"},
           ok \in Reset => m[r.flow]["live"] = Unread,
           ok = "tokens" /\ r.renewed => r.toks["token"] > r.lastMsa
    PROVE  Opens(ToFile(r, c, ok, bad), r.flow, c, a, m, n)
<1> DEFINE s == ToFile(r, c, ok, bad)
<1>1. r \in Job /\ c \in Caches /\ ok \in Targets /\ bad \in Targets /\ "open" \in Pcs
  BY WritesTyped DEF Core, Pcs, Busy
<1>2. s \in Job
  BY <1>1 DEF ToFile, Job
<1>3. /\ s.pc = "open" /\ s.flow = r.flow /\ s.cache = c /\ s.ok = ok /\ s.bad = bad
      /\ s.toks = r.toks /\ s.snap = r.snap /\ s.held = r.held
      /\ s.lastMsa = r.lastMsa /\ s.had = r.had /\ s.renewed = r.renewed
  BY <1>1 DEF ToFile, Job
<1> HIDE DEF s
<1>4. Placed(s, a) /\ Idles(s)
  BY <1>3 DEF Placed, Idles, Making, Core, Ended
<1>5. Reasons(s, m)
  BY <1>3 DEF Reasons
<1>6. Numbered(s, n) /\ Knows(s, m)
  BY <1>3 DEF Core, Numbered, Knows
<1>7. Asks(s) /\ Renews(s)
  BY <1>3 DEF Asks, Renews
<1> QED BY <1>2, <1>3, <1>4, <1>5, <1>6, <1>7 DEF s, Sound, Opens

\* A reaction that leaves the memory alone.
LEMMA Moves ==
    ASSUME Inv, NEW l \in Logins, NEW f, Around(l, f), NEW s, NEW r,
           job' = [job EXCEPT ![l] = s], mem' = mem, issued' = issued,
           r.flow = f, Fine(s, r, alive, mem, issued)
    PROVE  Inv'
<1>1. f \in Flows
  BY DEF Inv, Logs, Sound, Placed, Around
<1>2. Touches(f, s)
  <2>1. mem \in [Flows -> [Caches -> Content \cup {Unread}]] /\ "live" \in Caches
    BY DEF Inv, Typed, Caches
  <2>2. mem[f]["live"] # Unread => mem[f]["live"]["token"] \in Nat
    BY <1>1, <2>1, NameFacts
  <2>3. \A c \in Caches : mem[f][c] # Unread => mem[f][c]["token"] <= issued
    BY <1>1 DEF Inv, Issued
  <2> QED BY <2>1, <2>2, <2>3 DEF Touches
<1>3. s \in Job /\ s.pc # "write" /\ (s.pc \in Ended \/ s.flow = f) /\ s.pc \notin Busy
  BY DEF Fine, Busy
<1>4. Sound(s, alive, mem', issued')
  BY DEF Fine
<1> QED BY <1>2, <1>3, <1>4, Reacts

\* A login reads the tokens of the live cache, and goes on where it may.
LEMMA ReadsLive ==
    ASSUME Inv, NEW l \in Logins, NEW r, NEW f, NEW ok, NEW bad,
           GetCached(l, r, "live", ok, bad),
           Around(l, f), ~Writing(f), issued' = issued,
           r \in Job, r.flow = f, alive[f] = "yes", Numbered(r, issued),
           r.had => Visible(f, "live")["token"] # 0,
           r.renewed => Visible(f, "live")["token"] > r.lastMsa,
           <<"live", ok, bad>> \in Writes, ok \in Reset,
           NEW s, s = [r EXCEPT !.snap = Visible(f, "live")],
           \A m : Core(s, alive, m, issued) => Fine(Go(s, ok), s, alive, m, issued)
    PROVE  Inv'
<1> DEFINE v == Visible(f, "live")
<1>1. f \in Flows /\ "live" \in Caches /\ issued \in Nat /\ issued \in 0..MaxTokens
  BY NameFacts DEF Inv, Typed, Logs, Sound, Placed, Caches, Around
<1>2. /\ v \in Content /\ v["token"] <= issued
      /\ mem[f]["live"] # Unread => v = mem[f]["live"]
      /\ mem[f]["live"] = Unread /\ ~Readable("live") => v = Empty
  BY <1>1, VisibleIs
<1>3. s \in Job
  BY <1>2 DEF Job
<1>4. /\ s.flow = f /\ s.snap = v /\ s.toks = r.toks /\ s.held = r.held
      /\ s.lastMsa = r.lastMsa /\ s.had = r.had /\ s.renewed = r.renewed
  BY DEF Job
<1>5. Numbered(s, issued)
  BY <1>2, <1>4 DEF Numbered
<1>6. r.lastMsa \in Nat
  BY NameFacts DEF Job
<1> HIDE DEF v
<1>8. CASE mem[f]["live"] = Unread /\ ~Readable("live")
  <2> DEFINE u == ToFile(s, "live", ok, bad)
  <2>1. job' = [job EXCEPT ![l] = u] /\ mem' = mem
    BY <1>8 DEF GetCached, Set
  <2>2. ~s.had /\ ~s.renewed
    BY <1>2, <1>4, <1>6, <1>8, NameFacts DEF v
  <2>3. Core(s, alive, mem, issued)
    BY <1>1, <1>3, <1>4, <1>5, <2>2 DEF Core
  <2>4. Opens(u, f, "live", alive, mem, issued)
    <3>1. ok \notin {"resetXbl", "created"}
      BY DEF Reset
    <3>2. ok \in Reset => mem[s.flow]["live"] = Unread
      BY <1>4, <1>8
    <3>3. Opens(u, s.flow, "live", alive, mem, issued)
      BY <1>1, <2>2, <2>3, <3>1, <3>2, FileFine
    <3> QED BY <1>4, <3>3
  <2> HIDE DEF u
  <2>5. Touches(f, u)
    BY <1>1, <2>1, NameFacts DEF Touches, Inv, Typed, Issued
  <2>6. /\ u \in Job /\ u.pc # "write" /\ (u.pc \in Ended \/ u.flow = f)
        /\ Sound(u, alive, mem', issued')
    BY <2>1, <2>4 DEF Opens
  <2> QED BY <2>1, <2>5, <2>6, Reacts
<1>9. CASE mem[f]["live"] # Unread \/ Readable("live")
  <2> DEFINE u == Go(s, ok)
  <2>1. job' = [job EXCEPT ![l] = u] /\ mem' = [mem EXCEPT ![f]["live"] = v]
    BY <1>9 DEF GetCached, Set, v
  <2>2. \A x : Touches(f, x) /\ mem'[f]["live"] = v
    BY <1>1, <1>9, <2>1, ReadTouches DEF v
  <2>3. Core(s, alive, mem', issued)
    BY <1>1, <1>2, <1>3, <1>4, <1>5, <2>2, NameFacts DEF Core, v
  <2>4. Fine(u, s, alive, mem', issued)
    BY <2>3
  <2> HIDE DEF u
  <2>5. /\ u \in Job /\ u.pc # "write" /\ (u.pc \in Ended \/ u.flow = f)
        /\ Sound(u, alive, mem', issued')
    BY <1>4, <2>4 DEF Fine, Busy
  <2> QED BY <2>1, <2>2, <2>5, Reacts
<1> QED BY <1>8, <1>9

\* What is known of a login in a flow that is there.
LEMMA CoreOf ==
    ASSUME Inv, NEW l \in Logins, NEW r, r = job[l], NEW f, f = r.flow,
           r.pc \notin Ended \cup Busy \cup {"resetXbl", "created"}
    PROVE  /\ r \in Job /\ f \in Flows /\ alive[f] = "yes" /\ Numbered(r, issued)
           /\ issued \in Nat /\ issued \in 0..MaxTokens
           /\ r.pc # "delay" => Core(r, alive, mem, issued)
           /\ r.pc # "delay" /\ r.had => Visible(f, "live")["token"] # 0
           /\ r.pc # "delay" /\ r.renewed => Visible(f, "live")["token"] > r.lastMsa
<1>1. r \in Job /\ Sound(r, alive, mem, issued)
  BY DEF Inv, Typed, Logs
<1>2. f \in Flows /\ alive[f] = "yes"
  BY <1>1 DEF Sound, Placed, Making
<1>3. issued \in Nat /\ issued \in 0..MaxTokens
  BY NameFacts DEF Inv, Typed
<1>4. Numbered(r, issued) /\ Knows(r, mem)
  BY <1>1 DEF Sound
<1>5. r.pc # "delay" => Core(r, alive, mem, issued)
  BY <1>1, <1>2, <1>4 DEF Core, Knows
<1>6. mem[f]["live"] # Unread => Visible(f, "live") = mem[f]["live"]
  BY <1>2, VisibleIs DEF Caches
<1>7. /\ r.pc # "delay" /\ r.had => Visible(f, "live")["token"] # 0
      /\ r.pc # "delay" /\ r.renewed => Visible(f, "live")["token"] > r.lastMsa
  BY <1>4, <1>6 DEF Knows
<1> QED BY <1>1, <1>2, <1>3, <1>4, <1>5, <1>7

\* The reactions that change no flag and issue no token.
LEMMA QuietAround ==
    ASSUME Inv, NEW l \in Logins, NEW f, f = job[l].flow, alive[f] = "yes",
           job[l].pc \notin Ended \cup Busy, UNCHANGED scenario, Quiet
    PROVE  Around(l, f) /\ issued' = issued
<1>1. issued \in Nat /\ issued \in 0..MaxTokens
  BY NameFacts DEF Inv, Typed
<1> QED BY <1>1 DEF Inv, Typed, Around, Quiet, disk, flows

\* Where Go leads, by its name.
LEMMA GoIs ==
    ASSUME NEW r
    PROVE  /\ Go(r, "forced") = RefreshTokens(r, "forcing", "proceed")
           /\ Go(r, "renew") = RefreshTokens(r, "renewing", "device")
           /\ Go(r, "use") = Use(r)
           /\ Go(r, "tokens") = Tokens(r)
           /\ Go(r, "gotXsts") = GotXsts(r)
           /\ Go(r, "attemptFailed") = AttemptFailed(r)
           /\ Go(r, "outerFailed") = OuterFailed(r)
           /\ \A w \in {"access", "refresh", "cachedTokens", "proceed", "device",
                        "verified", "pollWait", "polling", "resetXbl", "created",
                        "begin", "done"} : Go(r, w) = [r EXCEPT !.pc = w]
BY DEF Go

\* A reaction of a login in its turn.
LEMMA TurnFacts ==
    ASSUME Inv, NEW l \in Logins, NEW w, Turn(l, w),
           w \notin Ended \cup Busy \cup {"resetXbl", "created"}
    PROVE  /\ job[l].pc = w /\ ~Writing(job[l].flow)
           /\ job[l].pc \notin Ended \cup Busy \cup {"resetXbl", "created"}
           /\ alive[job[l].flow] = "yes"
BY CoreOf DEF Turn

\* The places between two reactions.
LEMMA PlainOnes ==
    /\ {"forcing", "renewing", "device", "polling", "begin", "cachedTokens",
        "proceed", "access", "refresh", "verified", "pollWait", "delay"} \subseteq Plain
    /\ \A w \in Plain \cup {"asking", "chain"} : w \notin Ended \cup Busy \cup {"resetXbl", "created"}
BY DEF Plain, Pcs, Http, Ended, Busy

\* The cache has the token, if the login has seen one.
LEMMA AsksHad ==
    ASSUME NEW s, s \in Job, s.had => s.snap["token"] # 0,
           NEW w \in {"access", "refresh"},
           w = "refresh" /\ s.had => s.access # "none"
    PROVE  Asks([s EXCEPT !.pc = w])
<1>1. /\ [s EXCEPT !.pc = w].pc = w /\ [s EXCEPT !.pc = w].had = s.had
      /\ [s EXCEPT !.pc = w].snap = s.snap /\ [s EXCEPT !.pc = w].access = s.access
  BY DEF Job
<1> QED BY <1>1 DEF Asks

\* A promise leads to such a place.
LEMMA GoPlain ==
    ASSUME NEW s, NEW a, NEW m, NEW n \in Nat, Core(s, a, m, n),
           NEW w \in {"access", "refresh", "cachedTokens", "proceed", "device",
                      "verified", "pollWait", "polling"},
           Asks([s EXCEPT !.pc = w])
    PROVE  Fine(Go(s, w), s, a, m, n)
<1>1. Go(s, w) = [s EXCEPT !.pc = w]
  BY GoIs
<1>2. w \in Plain
  BY PlainOnes
<1> QED BY <1>1, <1>2, FinePlain

\* The cache is read after the forced renewal.
LEMMA ProceedKeeps ==
    ASSUME Inv, NEW l \in Logins, Proceed(l)
    PROVE  Inv'
<1> DEFINE r == job[l]
           f == r.flow
           s == [r EXCEPT !.snap = Visible(f, "live")]
<1>1. r.pc = "proceed" /\ ~Writing(f) /\ alive[f] = "yes"
      /\ r.pc \notin Ended \cup Busy \cup {"resetXbl", "created"}
  BY PlainOnes, TurnFacts DEF Proceed
<1>2. /\ r \in Job /\ f \in Flows /\ Numbered(r, issued)
      /\ r.had => Visible(f, "live")["token"] # 0
      /\ r.renewed => Visible(f, "live")["token"] > r.lastMsa
  BY <1>1, CoreOf
<1>3. GetCached(l, r, "live", "access", "attemptFailed") /\ UNCHANGED scenario /\ Quiet
  BY DEF Proceed, GetCached, Set
<1>4. Around(l, f) /\ issued' = issued
  BY <1>1, <1>3, QuietAround
<1>5. <<"live", "access", "attemptFailed">> \in Writes /\ "access" \in Reset
  BY DEF Writes, Reset
<1>6. s.had => s.snap["token"] # 0
  BY <1>2 DEF Job
<1>7. ASSUME NEW m, Core(s, alive, m, issued)
      PROVE  Fine(Go(s, "access"), s, alive, m, issued)
  <2>1. Asks([s EXCEPT !.pc = "access"])
    BY <1>6, <1>7, AsksHad DEF Core
  <2>2. issued \in Nat
    BY <1>1, CoreOf
  <2> QED BY <1>7, <2>1, <2>2, GoPlain
<1> QED BY <1>1, <1>2, <1>3, <1>4, <1>5, <1>7, ReadsLive

\* getAccessToken(), then the cache is read for the refresh token.
LEMMA AccessKeeps ==
    ASSUME Inv, NEW l \in Logins, Access(l)
    PROVE  Inv'
<1> DEFINE r == job[l]
           f == r.flow
<1>1. r.pc = "access" /\ ~Writing(f) /\ alive[f] = "yes"
      /\ r.pc \notin Ended \cup Busy \cup {"resetXbl", "created"}
  BY PlainOnes, TurnFacts DEF Access
<1>2. /\ r \in Job /\ f \in Flows /\ Numbered(r, issued)
      /\ r.had => Visible(f, "live")["token"] # 0
      /\ r.renewed => Visible(f, "live")["token"] > r.lastMsa
  BY <1>1, CoreOf
<1>3. PICK a \in IF r.snap["token"] = 0 THEN {"none"} ELSE {"valid", "expired"} :
         GetCached(l, [r EXCEPT !.access = a], "live", "refresh", "attemptFailed")
  BY DEF Access
<1>4. UNCHANGED scenario /\ Quiet
  BY <1>3 DEF Access, GetCached, Set
<1>5. Around(l, f) /\ issued' = issued
  BY <1>1, <1>4, QuietAround
<1>6. r.had => a # "none"
  BY <1>1 DEF Inv, Logs, Sound, Asks
<1> DEFINE q == [r EXCEPT !.access = a]
           s == [q EXCEPT !.snap = Visible(f, "live")]
<1>7. q \in Job
  BY <1>2 DEF Job
<1>8. /\ q.flow = f /\ q.had = r.had /\ q.renewed = r.renewed /\ q.lastMsa = r.lastMsa
      /\ q.access = a /\ q.toks = r.toks /\ q.snap = r.snap /\ q.held = r.held
  BY <1>2 DEF Job
<1>9. GetCached(l, q, "live", "refresh", "attemptFailed")
  BY <1>3
<1>10. Numbered(q, issued)
  BY <1>2, <1>8 DEF Numbered
<1> HIDE DEF q
<1>11. (s.had => s.snap["token"] # 0) /\ (s.had => s.access # "none")
  BY <1>2, <1>6, <1>7, <1>8 DEF Job
<1>12. <<"live", "refresh", "attemptFailed">> \in Writes /\ "refresh" \in Reset
  BY DEF Writes, Reset
<1>13. ASSUME NEW m, Core(s, alive, m, issued)
       PROVE  Fine(Go(s, "refresh"), s, alive, m, issued)
  <2>1. Asks([s EXCEPT !.pc = "refresh"])
    BY <1>11, <1>13, AsksHad DEF Core
  <2>2. issued \in Nat
    BY <1>1, CoreOf
  <2> QED BY <1>13, <2>1, <2>2, GoPlain
<1> HIDE DEF s
<1>14. s = [q EXCEPT !.snap = Visible(f, "live")]
  BY DEF s
<1> QED BY <1>1, <1>2, <1>5, <1>7, <1>8, <1>9, <1>10, <1>12, <1>13, <1>14, ReadsLive

\* The token that was verified is read again and used.
LEMMA VerifiedKeeps ==
    ASSUME Inv, NEW l \in Logins, Verified(l)
    PROVE  Inv'
<1> DEFINE r == job[l]
           f == r.flow
           s == [r EXCEPT !.snap = Visible(f, "live")]
<1>1. r.pc = "verified" /\ ~Writing(f) /\ alive[f] = "yes"
      /\ r.pc \notin Ended \cup Busy \cup {"resetXbl", "created"}
  BY PlainOnes, TurnFacts DEF Verified
<1>2. /\ r \in Job /\ f \in Flows /\ Numbered(r, issued) /\ issued \in Nat
      /\ r.had => Visible(f, "live")["token"] # 0
      /\ r.renewed => Visible(f, "live")["token"] > r.lastMsa
  BY <1>1, CoreOf
<1>3. GetCached(l, r, "live", "use", "attemptFailed") /\ UNCHANGED scenario /\ Quiet
  BY DEF Verified, GetCached, Set
<1>4. Around(l, f) /\ issued' = issued
  BY <1>1, <1>3, QuietAround
<1>5. <<"live", "use", "attemptFailed">> \in Writes /\ "use" \in Reset
  BY DEF Writes, Reset
<1>6. s.renewed => s.snap["token"] > s.lastMsa
  BY <1>2 DEF Job
<1>7. ASSUME NEW m, Core(s, alive, m, issued)
      PROVE  Fine(Go(s, "use"), s, alive, m, issued)
  <2>1. Go(s, "use") = Use(s)
    BY GoIs
  <2> QED BY <1>2, <1>6, <1>7, <2>1, FineUse
<1> QED BY <1>1, <1>2, <1>3, <1>4, <1>5, <1>7, ReadsLive

\* verifyTokens(): the token is valid, is to be renewed, or the user is asked.
LEMMA VerifyKeeps ==
    ASSUME Inv, NEW l \in Logins, Verify(l)
    PROVE  Inv'
<1> DEFINE r == job[l]
           f == r.flow
           q == [r EXCEPT !.access = "none", !.snap = Empty]
           s == [q EXCEPT !.snap = Visible(f, "live")]
<1>1. r.pc = "refresh" /\ ~Writing(f) /\ alive[f] = "yes"
      /\ r.pc \notin Ended \cup Busy \cup {"resetXbl", "created"}
  BY PlainOnes, TurnFacts DEF Verify
<1>2. /\ r \in Job /\ f \in Flows /\ Numbered(r, issued) /\ issued \in Nat
      /\ r.had => Visible(f, "live")["token"] # 0
      /\ r.renewed => Visible(f, "live")["token"] > r.lastMsa
      /\ Core(r, alive, mem, issued)
  BY <1>1, CoreOf
<1>3. UNCHANGED scenario /\ Quiet
  BY DEF Verify, GetCached, Set
<1>4. Around(l, f) /\ issued' = issued
  BY <1>1, <1>3, QuietAround
<1>5. r.had => r.snap["token"] # 0 /\ r.access # "none"
  BY <1>1 DEF Inv, Logs, Sound, Asks
<1>6. q \in Job
  BY <1>2, NameFacts DEF Job
<1>7. /\ q.flow = f /\ q.had = r.had /\ q.renewed = r.renewed /\ q.lastMsa = r.lastMsa
      /\ q.toks = r.toks /\ q.snap = Empty /\ q.held = r.held
  BY <1>2 DEF Job
<1>8. \/ GetCached(l, q, "live", "renew", "device")
      \/ \E w \in {"device", "verified"} :
            /\ Set(l, Go(q, w)) /\ mem' = mem
            /\ w = "device" => r.access = "none" \/ r.snap["token"] = 0
  BY DEF Verify
<1> HIDE DEF q
<1>9. Numbered(q, issued) /\ Core(q, alive, mem, issued)
  BY <1>2, <1>6, <1>7, NameFacts DEF Numbered, Core
<1>10. CASE GetCached(l, q, "live", "renew", "device")
  <2>1. <<"live", "renew", "device">> \in Writes /\ "renew" \in Reset
    BY DEF Writes, Reset
  <2>2. s.had => s.snap["token"] # 0
    BY <1>2, <1>6, <1>7 DEF Job
  <2>3. ASSUME NEW m, Core(s, alive, m, issued)
        PROVE  Fine(Go(s, "renew"), s, alive, m, issued)
    <3>1. Go(s, "renew") = RefreshTokens(s, "renewing", "device")
      BY GoIs
    <3>2. "renewing" \in Plain /\ "device" \in Plain
      BY PlainOnes
    <3> HIDE DEF s
    <3>3. Fine(RefreshTokens(s, "renewing", "device"), s, alive, m, issued)
      BY <1>2, <2>2, <2>3, <3>2, FineRefresh
    <3> QED BY <3>1, <3>3
  <2> HIDE DEF s
  <2>4. s = [q EXCEPT !.snap = Visible(f, "live")]
    BY DEF s
  <2> QED BY <1>1, <1>2, <1>4, <1>6, <1>7, <1>9, <1>10, <2>1, <2>3, <2>4, ReadsLive
<1>11. ASSUME NEW w \in {"device", "verified"}, Set(l, Go(q, w)), mem' = mem,
              w = "device" => r.access = "none" \/ r.snap["token"] = 0
       PROVE  Inv'
  <2>1. Asks([q EXCEPT !.pc = w])
    <3>1. [q EXCEPT !.pc = w].pc = w /\ [q EXCEPT !.pc = w].had = r.had
      BY <1>6, <1>7 DEF Job
    <3> QED BY <1>5, <1>11, <3>1 DEF Asks
  <2>2. Fine(Go(q, w), q, alive, mem, issued)
    BY <1>2, <1>9, <2>1, GoPlain
  <2>3. job' = [job EXCEPT ![l] = Go(q, w)]
    BY <1>11 DEF Set
  <2> QED BY <1>4, <1>7, <1>11, <2>2, <2>3, Moves
<1> QED BY <1>8, <1>10, <1>11

\* A try begins.
LEMMA AttemptKeeps ==
    ASSUME Inv, NEW l \in Logins, NEW r, NEW f, NEW force \in BOOLEAN,
           Attempt(l, r, force), Around(l, f), ~Writing(f), issued' = issued,
           r \in Job, r.flow = f, f \in Flows, alive[f] = "yes", issued \in Nat,
           Numbered(r, issued)
    PROVE  Inv'
<1> DEFINE v == Visible(f, "live")
           q == [r EXCEPT !.toks = r.held, !.had = v["token"] # 0,
                          !.refused = FALSE, !.renewed = FALSE, !.codeExpired = FALSE]
           s == [q EXCEPT !.snap = v]
<1>1. q \in Job
  <2>1. (v["token"] # 0) \in BOOLEAN /\ FALSE \in BOOLEAN /\ r.held \in Content
    BY DEF Job
  <2> HIDE DEF v
  <2> QED BY <2>1 DEF Job
<1>2. /\ q.flow = f /\ q.had = (v["token"] # 0) /\ q.renewed = FALSE
      /\ q.lastMsa = r.lastMsa /\ q.toks = r.held /\ q.snap = r.snap /\ q.held = r.held
  BY DEF Job
<1>3. Numbered(q, issued)
  BY <1>2, NameFacts DEF Numbered, Job
<1>4. IF force THEN GetCached(l, q, "live", "forced", "proceed")
               ELSE GetCached(l, q, "live", "access", "attemptFailed")
  BY DEF Attempt
<1> HIDE DEF q
<1>5. s.had => s.snap["token"] # 0
  BY <1>1, <1>2 DEF Job
<1>6. s = [q EXCEPT !.snap = Visible(f, "live")]
  OBVIOUS
<1>7. (q.had => Visible(f, "live")["token"] # 0) /\ (q.renewed => Visible(f, "live")["token"] > q.lastMsa)
  BY <1>2
<1> HIDE DEF s, v
<1>8. CASE force
  <2>1. <<"live", "forced", "proceed">> \in Writes /\ "forced" \in Reset
    BY DEF Writes, Reset
  <2>2. ASSUME NEW m, Core(s, alive, m, issued)
        PROVE  Fine(Go(s, "forced"), s, alive, m, issued)
    <3>1. Go(s, "forced") = RefreshTokens(s, "forcing", "proceed")
      BY GoIs
    <3>2. "forcing" \in Plain /\ "proceed" \in Plain
      BY PlainOnes
    <3>3. Fine(RefreshTokens(s, "forcing", "proceed"), s, alive, m, issued)
      BY <1>5, <2>2, <3>2, FineRefresh
    <3> QED BY <3>1, <3>3
  <2> QED BY <1>1, <1>2, <1>3, <1>4, <1>6, <1>7, <1>8, <2>1, <2>2, ReadsLive
<1>9. CASE ~force
  <2>1. <<"live", "access", "attemptFailed">> \in Writes /\ "access" \in Reset
    BY DEF Writes, Reset
  <2>2. ASSUME NEW m, Core(s, alive, m, issued)
        PROVE  Fine(Go(s, "access"), s, alive, m, issued)
    <3>1. Asks([s EXCEPT !.pc = "access"])
      BY <1>5, <2>2, AsksHad DEF Core
    <3> QED BY <2>2, <3>1, GoPlain
  <2> QED BY <1>1, <1>2, <1>3, <1>4, <1>6, <1>7, <1>9, <2>1, <2>2, ReadsLive
<1> QED BY <1>8, <1>9

\* The second try, with forceRefresh set.
LEMMA DelayKeeps ==
    ASSUME Inv, NEW l \in Logins, Delay(l)
    PROVE  Inv'
<1> DEFINE r == job[l]
           f == r.flow
<1>1. r.pc = "delay" /\ ~Writing(f) /\ alive[f] = "yes"
      /\ r.pc \notin Ended \cup Busy \cup {"resetXbl", "created"}
  BY PlainOnes, TurnFacts DEF Delay
<1>2. /\ r \in Job /\ f \in Flows /\ Numbered(r, issued)
      /\ issued \in Nat /\ issued \in 0..MaxTokens
  BY <1>1, CoreOf
<1>3. Attempt(l, r, TRUE) /\ issued' = issued
  BY DEF Delay
<1>4. UNCHANGED scenario
  BY <1>3 DEF Attempt, GetCached, Set
<1>5. Around(l, f)
  BY <1>1, <1>2, <1>4 DEF Delay, Around, disk, Inv, Typed
<1> QED BY <1>1, <1>2, <1>3, <1>5, AttemptKeeps

\* What a login knows survives what a reaction of its flow does to memory.
LEMMA CoreTouched ==
    ASSUME Inv, NEW r, Core(r, alive, mem, issued), NEW s, Touches(r.flow, s),
           issued' \in Nat, issued <= issued'
    PROVE  Core(r, alive, mem', issued')
<1> DEFINE f == r.flow
           x == mem[f]["live"]
           y == mem'[f]["live"]
<1>1. r \in Job /\ f \in Flows /\ issued \in Nat
  BY NameFacts DEF Core, Inv, Typed
<1>2. r.toks["token"] \in Nat /\ r.snap["token"] \in Nat /\ r.lastMsa \in Nat
  BY <1>1, NameFacts DEF Job
<1>3. Numbered(r, issued')
  BY <1>1, <1>2 DEF Core, Numbered
<1>4. x # Unread => y # Unread /\ x["token"] <= y["token"]
  BY DEF Touches
<1>5. x # Unread => x["token"] \in Nat
  BY <1>1, NameFacts DEF Caches, Inv, Typed
<1>6. y # Unread => y["token"] \in Nat
  BY <1>1, NameFacts DEF Touches, Caches
<1>7. (r.had => x # Unread /\ x["token"] # 0) /\ (r.renewed => x # Unread /\ x["token"] > r.lastMsa)
  BY DEF Core
<1> HIDE DEF x, y
<1>8. (r.had => y # Unread /\ y["token"] # 0) /\ (r.renewed => y # Unread /\ y["token"] > r.lastMsa)
  BY <1>2, <1>4, <1>5, <1>6, <1>7
<1> QED BY <1>1, <1>3, <1>8 DEF Core, y

\* setCachedPartial(): memory gets the token, the file of the same cache will.
LEMMA PartialTouches ==
    ASSUME Inv, NEW f \in Flows, NEW c \in Caches, NEW name \in Names, NEW k \in 0..MaxTokens,
           SetCachedPartial(f, c, name, k), issued' \in Nat, issued <= issued',
           \/ c = "live" /\ name = "token" /\ k = issued'
           \/ c = "xbl" /\ name # "token"
    PROVE  /\ \A s : s.pc \in Busy /\ s.cache = c => Touches(f, s)
           /\ c = "live" => mem'[f]["live"] # Unread /\ mem'[f]["live"]["token"] = k
<1> DEFINE old == IF mem[f][c] = Unread THEN Empty ELSE mem[f][c]
           new == [old EXCEPT ![name] = k]
           row == [mem[f] EXCEPT ![c] = new]
<1>1. /\ mem \in [Flows -> [Caches -> Content \cup {Unread}]] /\ issued \in Nat
      /\ "live" \in Caches
  BY NameFacts DEF Inv, Typed, Caches
<1>2. old \in Content /\ old["token"] <= issued
  BY <1>1, NameFacts DEF Inv, Issued
<1>3. mem' = [mem EXCEPT ![f] = row]
  BY <1>1 DEF SetCachedPartial
<1> HIDE DEF old
<1>4. new \in Content /\ new[name] = k /\ (name # "token" => new["token"] = old["token"])
  BY <1>2, NameFacts DEF Content
<1> HIDE DEF new
<1>5. row \in [Caches -> Content \cup {Unread}] /\ row[c] = new
      /\ \A d \in Caches : d # c => row[d] = mem[f][d]
  BY <1>1, <1>4
<1> HIDE DEF row
<1>6. /\ mem' \in [Flows -> [Caches -> Content \cup {Unread}]]
      /\ mem'[f] = row /\ \A g \in Flows : g # f => mem'[g] = mem[g]
  BY <1>1, <1>3, <1>5
<1>7. new["token"] <= issued'
  BY <1>1, <1>2, <1>4, NameFacts
<1>8. \A d \in Caches : mem'[f][d] # Unread => mem'[f][d]["token"] <= issued'
  <2> SUFFICES ASSUME NEW d \in Caches, mem'[f][d] # Unread
               PROVE  mem'[f][d]["token"] <= issued'
    OBVIOUS
  <2>1. CASE d = c
    BY <1>5, <1>6, <1>7, <2>1
  <2>2. CASE d # c
    <3>1. mem'[f][d] = mem[f][d] /\ mem[f][d] \in Content
      BY <1>1, <1>5, <1>6, <2>2
    <3>2. mem[f][d]["token"] <= issued /\ mem[f][d]["token"] \in Nat
      BY <3>1, NameFacts DEF Inv, Issued
    <3> QED BY <1>1, <3>1, <3>2
  <2> QED BY <2>1, <2>2
<1>9. mem[f]["live"] # Unread =>
         mem'[f]["live"] # Unread /\ mem[f]["live"]["token"] <= mem'[f]["live"]["token"]
  <2> SUFFICES ASSUME mem[f]["live"] # Unread
               PROVE  mem'[f]["live"] # Unread /\ mem[f]["live"]["token"] <= mem'[f]["live"]["token"]
    OBVIOUS
  <2>1. mem[f]["live"] \in Content /\ mem[f]["live"]["token"] \in Nat
        /\ mem[f]["live"]["token"] <= issued
    BY <1>1, NameFacts DEF Inv, Issued
  <2>2. CASE c = "live"
    BY <1>1, <1>4, <1>5, <1>6, <2>1, <2>2, NameFacts
  <2>3. CASE c # "live"
    BY <1>1, <1>5, <1>6, <2>1, <2>3
  <2> QED BY <2>2, <2>3
<1>10. c = "live" => mem'[f]["live"] # Unread /\ mem'[f]["live"]["token"] = k
  BY <1>4, <1>5, <1>6, NameFacts
<1>11. ASSUME NEW s, s.pc \in Busy, s.cache = c PROVE Touches(f, s)
  BY <1>5, <1>6, <1>8, <1>9, <1>11 DEF Touches
<1> QED BY <1>10, <1>11

\* A reaction ends with the write of a file.
LEMMA WriteBegins ==
    ASSUME Inv, NEW l \in Logins, NEW f, Around(l, f), ~Writing(f), NEW r, r.flow = f,
           Core(r, alive, mem', issued'),
           NEW c, NEW ok, NEW bad, <<c, ok, bad>> \in Writes,
           ok \notin {"resetXbl", "created"} \cup Reset,
           ok = "tokens" /\ r.renewed => r.toks["token"] > r.lastMsa,
           job' = [job EXCEPT ![l] = ToFile(r, c, ok, bad)],
           \A s : s.pc \in Busy /\ s.cache = c => Touches(f, s)
    PROVE  Inv'
<1> DEFINE u == ToFile(r, c, ok, bad)
<1>1. issued' \in Nat
  BY NameFacts DEF Around
<1>2. Opens(u, r.flow, c, alive, mem', issued')
  <2>1. ok \notin {"resetXbl", "created"} /\ ok \notin Reset
    OBVIOUS
  <2> QED BY <1>1, <2>1, FileFine
<1> HIDE DEF u
<1>3. /\ u \in Job /\ u.pc # "write" /\ (u.pc \in Ended \/ u.flow = f)
      /\ Sound(u, alive, mem', issued')
  BY <1>2 DEF Opens
<1>4. Touches(f, u)
  BY <1>2 DEF Opens, Busy
<1>5. job' = [job EXCEPT ![l] = u]
  BY DEF u
<1> QED BY <1>3, <1>4, <1>5, Reacts

\* The answer to a renewal.
LEMMA RefreshedKeeps ==
    ASSUME Inv, NEW l \in Logins, NEW w \in {"forcing", "renewing"},
           NEW ok \in {"proceed", "verified"}, NEW bad \in {"proceed", "device"},
           Refreshed(l, w, ok, bad)
    PROVE  Inv'
<1> DEFINE r == job[l]
           f == r.flow
<1>1. r.pc = w /\ ~Writing(f) /\ alive[f] = "yes"
      /\ r.pc \notin Ended \cup Busy \cup {"resetXbl", "created"}
  BY PlainOnes, TurnFacts DEF Refreshed
<1>2. /\ r \in Job /\ f \in Flows /\ issued \in Nat /\ issued \in 0..MaxTokens
      /\ Core(r, alive, mem, issued)
  BY <1>1, CoreOf
<1>3. CASE Issue /\ SetCachedPartial(f, "live", "token", issued')
           /\ Set(l, ToFile([r EXCEPT !.renewed = TRUE], "live", ok, ok))
  <2> DEFINE q == [r EXCEPT !.renewed = TRUE]
  <2>1. issued' = issued + 1 /\ issued' \in 0..MaxTokens /\ issued' \in Nat /\ issued <= issued'
    BY <1>2, <1>3, NameFacts DEF Issue
  <2>2. Around(l, f)
    BY <1>1, <1>3, <2>1 DEF Refreshed, Around, disk, flows, Inv, Typed, Set
  <2>3. /\ \A s : s.pc \in Busy /\ s.cache = "live" => Touches(f, s)
        /\ mem'[f]["live"] # Unread /\ mem'[f]["live"]["token"] = issued'
    <3>1. "live" \in Caches /\ "token" \in Names
      BY NameFacts DEF Caches
    <3> QED BY <1>2, <1>3, <2>1, <3>1, PartialTouches
  <2>4. Core(r, alive, mem', issued')
    <3>1. Touches(f, [pc |-> "open", cache |-> "live"])
      BY <2>3 DEF Busy
    <3> QED BY <1>2, <2>1, <3>1, CoreTouched
  <2>5. q \in Job
    BY <1>2 DEF Job
  <2>6. /\ q.flow = f /\ q.toks = r.toks /\ q.snap = r.snap /\ q.held = r.held
        /\ q.lastMsa = r.lastMsa /\ q.had = r.had /\ q.renewed = TRUE
    BY <1>2 DEF Job
  <2>7. <<"live", ok, ok>> \in Writes /\ ok \notin {"resetXbl", "created"} \cup Reset /\ ok # "tokens"
    BY DEF Writes, Reset
  <2>8. job' = [job EXCEPT ![l] = ToFile(q, "live", ok, ok)]
    BY <1>3 DEF Set
  <2> HIDE DEF q
  <2>9. r.lastMsa <= issued /\ r.lastMsa \in Nat
    BY <1>2, NameFacts DEF Core, Numbered, Job
  <2>10. Core(q, alive, mem', issued')
    BY <1>2, <2>1, <2>3, <2>4, <2>5, <2>6, <2>9 DEF Core, Numbered
  <2> QED BY <1>1, <2>2, <2>3, <2>6, <2>7, <2>8, <2>10, WriteBegins
<1>4. CASE Set(l, Go([r EXCEPT !.refused = TRUE], bad)) /\ issued' = issued /\ mem' = mem
  <2> DEFINE q == [r EXCEPT !.refused = TRUE]
  <2>1. Around(l, f)
    BY <1>1, <1>2, <1>4 DEF Refreshed, Around, disk, flows, Inv, Typed, Set
  <2>2. q \in Job
    BY <1>2 DEF Job
  <2>3. /\ q.flow = f /\ q.toks = r.toks /\ q.snap = r.snap /\ q.held = r.held
        /\ q.lastMsa = r.lastMsa /\ q.had = r.had /\ q.renewed = r.renewed /\ q.refused = TRUE
    BY <1>2 DEF Job
  <2>4. job' = [job EXCEPT ![l] = Go(q, bad)]
    BY <1>4 DEF Set
  <2>5. Asks([q EXCEPT !.pc = bad])
    <3>1. [q EXCEPT !.pc = bad].pc = bad /\ [q EXCEPT !.pc = bad].refused = TRUE
      BY <2>2, <2>3 DEF Job
    <3> QED BY <3>1 DEF Asks
  <2> HIDE DEF q
  <2>6. Core(q, alive, mem, issued)
    BY <1>2, <2>2, <2>3 DEF Core, Numbered
  <2>7. Fine(Go(q, bad), q, alive, mem, issued)
    BY <1>2, <2>5, <2>6, GoPlain
  <2> QED BY <1>4, <2>1, <2>3, <2>4, <2>7, Moves
<1> QED BY <1>3, <1>4 DEF Refreshed

\* A login reads the Xbox tokens.
LEMMA BeginKeeps ==
    ASSUME Inv, NEW l \in Logins, Begin(l)
    PROVE  Inv'
<1> DEFINE r == job[l]
           f == r.flow
           v == Visible(f, "xbl")
           q == [r EXCEPT !.snap = v]
<1>1. r.pc = "begin" /\ ~Writing(f) /\ alive[f] = "yes"
      /\ r.pc \notin Ended \cup Busy \cup {"resetXbl", "created"}
  BY PlainOnes, TurnFacts DEF Begin
<1>2. /\ r \in Job /\ f \in Flows /\ issued \in Nat /\ Core(r, alive, mem, issued)
      /\ "xbl" \in Caches
  BY <1>1, CoreOf DEF Caches
<1>3. GetCached(l, r, "xbl", "cachedTokens", "outerFailed") /\ UNCHANGED scenario /\ Quiet
  BY DEF Begin, GetCached, Set
<1>4. Around(l, f) /\ issued' = issued
  BY <1>1, <1>3, QuietAround
<1>5. v \in Content /\ v["token"] <= issued
  BY <1>2, VisibleIs
<1>6. q \in Job
  BY <1>2, <1>5 DEF Job
<1>7. /\ q.flow = f /\ q.toks = r.toks /\ q.snap = v /\ q.held = r.held
      /\ q.lastMsa = r.lastMsa /\ q.had = r.had /\ q.renewed = r.renewed
  BY <1>2 DEF Job
<1>8. \/ /\ mem[f]["xbl"] = Unread /\ ~Readable("xbl") /\ mem' = mem
         /\ job' = [job EXCEPT ![l] = ToFile(q, "xbl", "cachedTokens", "outerFailed")]
      \/ /\ mem[f]["xbl"] # Unread \/ Readable("xbl")
         /\ mem' = [mem EXCEPT ![f]["xbl"] = v]
         /\ job' = [job EXCEPT ![l] = Go(q, "cachedTokens")]
  BY <1>3 DEF GetCached, Set
<1> HIDE DEF v, q
<1>9. Core(q, alive, mem, issued)
  BY <1>2, <1>5, <1>6, <1>7 DEF Core, Numbered
<1>10. CASE /\ mem[f]["xbl"] = Unread /\ ~Readable("xbl") /\ mem' = mem
            /\ job' = [job EXCEPT ![l] = ToFile(q, "xbl", "cachedTokens", "outerFailed")]
  <2>1. Core(q, alive, mem', issued')
    BY <1>4, <1>9, <1>10
  <2>2. /\ <<"xbl", "cachedTokens", "outerFailed">> \in Writes
        /\ "cachedTokens" \notin {"resetXbl", "created"} \cup Reset
        /\ "cachedTokens" # "tokens"
    BY DEF Writes, Reset
  <2>3. \A s : Touches(f, s)
    BY <1>2, <1>4, <1>10, NameFacts DEF Touches, Inv, Typed, Issued, Caches
  <2> QED BY <1>1, <1>4, <1>7, <1>10, <2>1, <2>2, <2>3, WriteBegins
<1>11. CASE /\ mem[f]["xbl"] # Unread \/ Readable("xbl")
            /\ mem' = [mem EXCEPT ![f]["xbl"] = v]
            /\ job' = [job EXCEPT ![l] = Go(q, "cachedTokens")]
  <2> DEFINE u == Go(q, "cachedTokens")
  <2>1. \A s : Touches(f, s)
    BY <1>2, <1>4, <1>11, ReadTouches DEF v
  <2>2. Core(q, alive, mem', issued')
    BY <1>2, <1>4, <1>7, <1>9, <2>1, CoreTouched
  <2>3. Asks([q EXCEPT !.pc = "cachedTokens"])
    BY <1>6 DEF Asks, Job
  <2>4. Fine(u, q, alive, mem', issued')
    BY <1>2, <1>4, <2>2, <2>3, GoPlain
  <2> HIDE DEF u
  <2>5. /\ u \in Job /\ u.pc # "write" /\ (u.pc \in Ended \/ u.flow = f)
        /\ Sound(u, alive, mem', issued')
    BY <1>7, <2>4 DEF Fine, Busy
  <2>6. job' = [job EXCEPT ![l] = u]
    BY <1>11 DEF u
  <2> QED BY <1>1, <1>4, <2>1, <2>5, <2>6, Reacts
<1> QED BY <1>8, <1>10, <1>11

\* A login has its XSTS token, or begins its first try.
LEMMA CachedTokensKeeps ==
    ASSUME Inv, NEW l \in Logins, CachedTokens(l)
    PROVE  Inv'
<1> DEFINE r == job[l]
           f == r.flow
<1>1. r.pc = "cachedTokens" /\ ~Writing(f) /\ alive[f] = "yes"
      /\ r.pc \notin Ended \cup Busy \cup {"resetXbl", "created"}
  BY PlainOnes, TurnFacts DEF CachedTokens
<1>2. /\ r \in Job /\ f \in Flows /\ issued \in Nat /\ Numbered(r, issued)
      /\ Core(r, alive, mem, issued)
  BY <1>1, CoreOf
<1>3. UNCHANGED scenario /\ Quiet
  BY DEF CachedTokens, Attempt, GetCached, Set
<1>4. Around(l, f) /\ issued' = issued
  BY <1>1, <1>3, QuietAround
<1>5. CASE Set(l, Go(r, "gotXsts")) /\ mem' = mem
  <2>1. Fine(Go(r, "gotXsts"), r, alive, mem, issued)
    BY <1>2, FineGot, GoIs
  <2>2. job' = [job EXCEPT ![l] = Go(r, "gotXsts")]
    BY <1>5 DEF Set
  <2> QED BY <1>4, <1>5, <2>1, <2>2, Moves
<1>6. ASSUME NEW held \in ValidOnes(r.snap, ToSet(Keys)),
             Attempt(l, [r EXCEPT !.held = held], forceRefresh[f])
      PROVE  Inv'
  <2> DEFINE q == [r EXCEPT !.held = held]
  <2>1. held \in Content /\ held["token"] = 0
    <3>1. PICK ok \in SUBSET ToSet(Keys) : held = [n \in Names |-> IF n \in ok THEN r.snap[n] ELSE 0]
      BY DEF ValidOnes
    <3>2. "token" \notin ok
      BY NameAssumption
    <3>3. r.snap \in Content
      BY <1>2 DEF Job
    <3> QED BY <3>1, <3>2, <3>3, NameFacts DEF Content
  <2>2. q \in Job
    BY <1>2, <2>1 DEF Job
  <2>3. /\ q.flow = f /\ q.toks = r.toks /\ q.snap = r.snap /\ q.held = held
        /\ q.lastMsa = r.lastMsa
    BY <1>2 DEF Job
  <2>4. Attempt(l, q, forceRefresh[f]) /\ forceRefresh[f] \in BOOLEAN
    BY <1>2, <1>6 DEF Inv, Typed
  <2> HIDE DEF q
  <2>5. Numbered(q, issued)
    BY <1>2, <2>1, <2>3 DEF Numbered
  <2> QED BY <1>1, <1>2, <1>4, <2>2, <2>3, <2>4, <2>5, AttemptKeeps
<1> QED BY <1>5, <1>6 DEF CachedTokens

\* The test before a poll.
LEMMA PollKeeps ==
    ASSUME Inv, NEW l \in Logins, NEW f, f = job[l].flow, alive[f] = "yes", f \in Flows,
           job[l].pc \notin Ended \cup Busy, NEW r, r.flow = f, NEW on \in BOOLEAN,
           Core(r, alive, mem, issued), Poll(l, r, on),
           UNCHANGED <<disk, flows, mem, issued>>
    PROVE  Inv'
<1> DEFINE more == on /\ ~r.codeExpired
           w == IF more THEN "pollWait" ELSE "attemptFailed"
<1>1. r \in Job /\ more \in BOOLEAN /\ issued \in Nat /\ issued \in 0..MaxTokens
  BY NameFacts DEF Core, Inv, Typed, Job
<1>2. job' = [job EXCEPT ![l] = Go(r, w)] /\ polling' = [polling EXCEPT ![f] = more]
      /\ scenario' = scenario
  BY DEF Poll, Set
<1>3. Around(l, f)
  BY <1>1, <1>2 DEF Around, disk, flows, Inv, Typed
<1>4. Asks([r EXCEPT !.pc = "pollWait"])
  BY <1>1 DEF Asks, Job
<1>5. Fine(Go(r, "pollWait"), r, alive, mem, issued)
  BY <1>1, <1>4, GoPlain
<1>6. Fine(Go(r, "attemptFailed"), r, alive, mem, issued)
  BY <1>1, FineAttempt, GoIs
<1>7. Fine(Go(r, w), r, alive, mem, issued)
  BY <1>5, <1>6
<1> QED BY <1>2, <1>3, <1>7, Moves

\* Parts of a login that no fact about it mentions.
LEMMA CoreExpires ==
    ASSUME NEW r, NEW a, NEW m, NEW n, Core(r, a, m, n), NEW late \in BOOLEAN
    PROVE  Core([r EXCEPT !.codeExpired = late], a, m, n) /\ [r EXCEPT !.codeExpired = late].flow = r.flow
<1> DEFINE q == [r EXCEPT !.codeExpired = late]
<1>1. r \in Job
  BY DEF Core
<1>2. q \in Job
  BY <1>1 DEF Job
<1>3. /\ q.flow = r.flow /\ q.toks = r.toks /\ q.snap = r.snap /\ q.held = r.held
      /\ q.lastMsa = r.lastMsa /\ q.had = r.had /\ q.renewed = r.renewed
  BY <1>1 DEF Job
<1> HIDE DEF q
<1> QED BY <1>2, <1>3 DEF Core, Numbered, q

\* The user is shown a code.
LEMMA DeviceKeeps ==
    ASSUME Inv, NEW l \in Logins, Device(l)
    PROVE  Inv'
<1> DEFINE r == job[l]
           f == r.flow
<1>1. r.pc = "device" /\ ~Writing(f) /\ alive[f] = "yes"
      /\ r.pc \notin Ended \cup Busy \cup {"resetXbl", "created"}
  BY PlainOnes, TurnFacts DEF Device
<1>2. /\ r \in Job /\ f \in Flows /\ issued \in Nat /\ issued \in 0..MaxTokens
      /\ Core(r, alive, mem, issued)
  BY <1>1, CoreOf
<1>3. ASSUME NEW late \in BOOLEAN, Poll(l, [r EXCEPT !.codeExpired = late], TRUE)
      PROVE  Inv'
  <2>1. Core([r EXCEPT !.codeExpired = late], alive, mem, issued) /\ [r EXCEPT !.codeExpired = late].flow = f
    BY <1>2, CoreExpires
  <2> QED BY <1>1, <1>2, <1>3, <2>1, PollKeeps DEF Device
<1>4. CASE Set(l, Go(r, "attemptFailed")) /\ UNCHANGED polling
  <2>1. Around(l, f) /\ issued' = issued /\ mem' = mem
    BY <1>1, <1>2, <1>4 DEF Device, Set, Around, disk, flows, Inv, Typed
  <2>2. Fine(Go(r, "attemptFailed"), r, alive, mem, issued)
    BY <1>2, FineAttempt, GoIs
  <2>3. job' = [job EXCEPT ![l] = Go(r, "attemptFailed")]
    BY <1>4 DEF Set
  <2> QED BY <2>1, <2>2, <2>3, Moves
<1> QED BY <1>3, <1>4 DEF Device

\* The interval before a poll is over.
LEMMA PollWaitKeeps ==
    ASSUME Inv, NEW l \in Logins, PollWait(l)
    PROVE  Inv'
<1> DEFINE r == job[l]
           f == r.flow
<1>1. r.pc = "pollWait" /\ ~Writing(f) /\ alive[f] = "yes"
      /\ r.pc \notin Ended \cup Busy \cup {"resetXbl", "created"}
  BY PlainOnes, TurnFacts DEF PollWait
<1>2. /\ r \in Job /\ issued \in Nat /\ Core(r, alive, mem, issued)
  BY <1>1, CoreOf
<1>3. Around(l, f) /\ issued' = issued
  BY <1>1, QuietAround DEF PollWait, Set
<1>4. Asks([r EXCEPT !.pc = "polling"])
  BY <1>2 DEF Asks, Job
<1>5. Fine(Go(r, "polling"), r, alive, mem, issued)
  BY <1>2, <1>4, GoPlain
<1> QED BY <1>3, <1>5, Moves DEF PollWait, Set

\* The chain has come, or has not.
LEMMA ChainKeeps ==
    ASSUME Inv, NEW l \in Logins, Chain(l)
    PROVE  Inv'
<1> DEFINE r == job[l]
           f == r.flow
<1>1. r.pc = "chain" /\ ~Writing(f) /\ alive[f] = "yes"
      /\ r.pc \notin Ended \cup Busy \cup {"resetXbl", "created"}
  BY PlainOnes, TurnFacts DEF Chain
<1>2. /\ r \in Job /\ issued \in Nat /\ Core(r, alive, mem, issued)
  BY <1>1, CoreOf
<1>3. Around(l, f) /\ issued' = issued
  BY <1>1, QuietAround DEF Chain, Set
<1>4. PICK where \in {"done", "outerFailed"} : Set(l, Go(r, where))
  BY DEF Chain
<1>5. CASE where = "outerFailed"
  <2>1. Fine(Go(r, "outerFailed"), r, alive, mem, issued)
    BY <1>2, FineOuter, GoIs
  <2> QED BY <1>3, <1>4, <1>5, <2>1, Moves DEF Chain, Set
<1>6. CASE where = "done"
  <2> DEFINE s == [r EXCEPT !.pc = "done"]
  <2>1. Go(r, "done") = s
    BY GoIs
  <2>2. s \in Job
    BY <1>2 DEF Job, Pcs, Ended
  <2>3. /\ s.pc = "done" /\ s.flow = f /\ s.toks = r.toks /\ s.snap = r.snap
        /\ s.held = r.held /\ s.lastMsa = r.lastMsa /\ s.had = r.had
        /\ s.renewed = r.renewed
    BY <1>2 DEF Job
  <2>4. ~r.had /\ ~r.renewed
    BY <1>1 DEF Inv, Logs, Sound, Idles
  <2> HIDE DEF s
  <2>5. Sound(s, alive, mem, issued)
    BY <1>2, <2>3, <2>4
       DEF Sound, Idles, Placed, Reasons, Numbered, Knows, Asks, Renews, Ended, Busy, Core
  <2>6. Fine(s, r, alive, mem, issued)
    BY <2>2, <2>3, <2>5 DEF Fine, Ended, Busy
  <2> QED BY <1>3, <1>4, <1>6, <2>1, <2>6, Moves DEF Chain, Set
<1> QED BY <1>4, <1>5, <1>6

\* The code expires.
LEMMA CodeExpiresKeeps ==
    ASSUME Inv, NEW l \in Logins, CodeExpires(l)
    PROVE  Inv'
<1> DEFINE r == job[l]
           f == r.flow
           q == [r EXCEPT !.codeExpired = TRUE]
<1>1. r.pc \in {"pollWait", "polling"}
      /\ r.pc \notin Ended \cup Busy \cup {"resetXbl", "created"}
  BY PlainOnes DEF CodeExpires
<1>2. /\ r \in Job /\ alive[f] = "yes" /\ issued \in Nat /\ Core(r, alive, mem, issued)
  BY <1>1, CoreOf
<1>3. Around(l, f) /\ issued' = issued
  BY <1>1, <1>2, QuietAround DEF CodeExpires, Set
<1>4. job' = [job EXCEPT ![l] = q] /\ mem' = mem
  BY DEF CodeExpires, Set
<1>5. Core(q, alive, mem, issued) /\ q.flow = f
  BY <1>2, CoreExpires
<1>6. q \in Job /\ q.pc = r.pc
  BY <1>2 DEF Job
<1>7. q = [q EXCEPT !.pc = q.pc]
  BY <1>6 DEF Job
<1> HIDE DEF q
<1>8. Asks(q)
  BY <1>1, <1>6 DEF Asks
<1>9. Fine(q, q, alive, mem, issued)
  <2>1. q.pc \in Plain
    BY <1>1, <1>6, PlainOnes
  <2>2. Fine([q EXCEPT !.pc = q.pc], q, alive, mem, issued)
    BY <1>2, <1>5, <1>7, <1>8, <2>1, FinePlain
  <2> QED BY <1>7, <2>2
<1> QED BY <1>3, <1>4, <1>5, <1>9, Moves

\* The answer to a poll.
LEMMA PollingKeeps ==
    ASSUME Inv, NEW l \in Logins, Polling(l)
    PROVE  Inv'
<1> DEFINE r == job[l]
           f == r.flow
<1>1. r.pc = "polling" /\ ~Writing(f) /\ alive[f] = "yes"
      /\ r.pc \notin Ended \cup Busy \cup {"resetXbl", "created"}
  BY PlainOnes, TurnFacts DEF Polling
<1>2. /\ r \in Job /\ f \in Flows /\ issued \in Nat /\ issued \in 0..MaxTokens
      /\ Core(r, alive, mem, issued)
  BY <1>1, CoreOf
<1>3. CASE /\ Issue /\ SetCachedPartial(f, "live", "token", issued')
           /\ polling' = [polling EXCEPT ![f] = FALSE]
           /\ Set(l, ToFile([r EXCEPT !.toks["token"] = issued', !.codeExpired = FALSE],
                            "live", "tokens", "tokens"))
  <2> DEFINE u == [r.toks EXCEPT !["token"] = issued']
             q == [r EXCEPT !.toks = u, !.codeExpired = FALSE]
  <2>1. issued' = issued + 1 /\ issued' \in 0..MaxTokens /\ issued' \in Nat /\ issued <= issued'
    BY <1>2, <1>3, NameFacts DEF Issue
  <2>2. Around(l, f)
    BY <1>1, <1>3, <2>1 DEF Polling, Around, disk, flows, Inv, Typed, Set
  <2>3. /\ \A s : s.pc \in Busy /\ s.cache = "live" => Touches(f, s)
        /\ mem'[f]["live"] # Unread /\ mem'[f]["live"]["token"] = issued'
    <3>1. "live" \in Caches /\ "token" \in Names
      BY NameFacts DEF Caches
    <3> QED BY <1>2, <1>3, <2>1, <3>1, PartialTouches
  <2>4. Core(r, alive, mem', issued')
    <3>1. Touches(f, [pc |-> "open", cache |-> "live"])
      BY <2>3 DEF Busy
    <3> QED BY <1>2, <2>1, <3>1, CoreTouched
  <2>5. u \in Content /\ u["token"] = issued'
    BY <1>2, <2>1, NameFacts DEF Job, Content
  <2>6. job' = [job EXCEPT ![l] = ToFile(q, "live", "tokens", "tokens")]
    BY <1>2, <1>3 DEF Set, Job
  <2> HIDE DEF u
  <2>7. q \in Job
    BY <1>2, <2>5 DEF Job
  <2>8. /\ q.flow = f /\ q.toks = u /\ q.snap = r.snap /\ q.held = r.held
        /\ q.lastMsa = r.lastMsa /\ q.had = r.had /\ q.renewed = r.renewed
    BY <1>2 DEF Job
  <2>9. r.lastMsa <= issued /\ r.lastMsa \in Nat
    BY <1>2, NameFacts DEF Core, Numbered, Job
  <2> HIDE DEF q
  <2>10. Core(q, alive, mem', issued')
    BY <1>2, <2>1, <2>4, <2>5, <2>7, <2>8 DEF Core, Numbered
  <2>11. <<"live", "tokens", "tokens">> \in Writes /\ "tokens" \notin {"resetXbl", "created"} \cup Reset
    BY DEF Writes, Reset
  <2>12. q.toks["token"] > q.lastMsa
    BY <1>2, <2>1, <2>5, <2>8, <2>9
  <2> QED BY <1>1, <2>2, <2>3, <2>6, <2>8, <2>10, <2>11, <2>12, WriteBegins
<1>4. CASE Poll(l, r, polling[f]) /\ UNCHANGED <<issued, mem>>
  <2>1. polling[f] \in BOOLEAN
    BY <1>2 DEF Inv, Typed
  <2> QED BY <1>1, <1>2, <1>4, <2>1, PollKeeps DEF Polling
<1> QED BY <1>3, <1>4 DEF Polling

\* The answer to a request for an Xbox token.
LEMMA AskForKeeps ==
    ASSUME Inv, NEW l \in Logins, NEW name \in Names \ {"token"}, AskFor(l, name)
    PROVE  Inv'
<1> DEFINE r == job[l]
           f == r.flow
<1>1. r.pc = "asking" /\ ~Writing(f) /\ alive[f] = "yes"
      /\ r.pc \notin Ended \cup Busy \cup {"resetXbl", "created"}
  BY PlainOnes, TurnFacts DEF AskFor
<1>2. /\ r \in Job /\ f \in Flows /\ issued \in Nat
      /\ Core(r, alive, mem, issued)
  BY <1>1, CoreOf
<1>3. Around(l, f) /\ issued' = issued
  BY <1>1, QuietAround DEF AskFor, Set
<1>4. CASE /\ SetCachedPartial(f, "xbl", name, 1)
           /\ Set(l, ToFile([r EXCEPT !.toks[name] = 1], "xbl", "tokens", "attemptFailed"))
  <2> DEFINE u == [r.toks EXCEPT ![name] = 1]
             q == [r EXCEPT !.toks = u]
  <2>1. \A s : s.pc \in Busy /\ s.cache = "xbl" => Touches(f, s)
    <3>1. "xbl" \in Caches /\ name \in Names /\ 1 \in 0..MaxTokens /\ issued <= issued'
      BY <1>2, <1>3, NameFacts DEF Caches
    <3> QED BY <1>2, <1>3, <1>4, <3>1, PartialTouches
  <2>2. Core(r, alive, mem', issued')
    <3>1. Touches(f, [pc |-> "open", cache |-> "xbl"])
      BY <2>1 DEF Busy
    <3> QED BY <1>2, <1>3, <3>1, CoreTouched
  <2>3. u \in Content /\ u["token"] = r.toks["token"]
    BY <1>2, NameFacts DEF Job, Content
  <2>4. job' = [job EXCEPT ![l] = ToFile(q, "xbl", "tokens", "attemptFailed")]
    BY <1>2, <1>4 DEF Set, Job
  <2> HIDE DEF u
  <2>5. q \in Job
    BY <1>2, <2>3 DEF Job
  <2>6. /\ q.flow = f /\ q.toks = u /\ q.snap = r.snap /\ q.held = r.held
        /\ q.lastMsa = r.lastMsa /\ q.had = r.had /\ q.renewed = r.renewed
    BY <1>2 DEF Job
  <2> HIDE DEF q
  <2>7. Core(q, alive, mem', issued')
    BY <2>2, <2>3, <2>5, <2>6 DEF Core, Numbered
  <2>8. /\ <<"xbl", "tokens", "attemptFailed">> \in Writes
        /\ "tokens" \notin {"resetXbl", "created"} \cup Reset
    BY DEF Writes, Reset
  <2>9. q.renewed => q.toks["token"] > q.lastMsa
    BY <1>1, <2>3, <2>6 DEF Inv, Logs, Sound, Renews
  <2> QED BY <1>1, <1>3, <2>1, <2>4, <2>6, <2>7, <2>8, <2>9, WriteBegins
<1>5. CASE Set(l, Go(r, "attemptFailed")) /\ mem' = mem
  <2>1. Fine(Go(r, "attemptFailed"), r, alive, mem, issued)
    BY <1>2, FineAttempt, GoIs
  <2> QED BY <1>3, <1>5, <2>1, Moves DEF Set
<1> QED BY <1>4, <1>5 DEF AskFor

-----------------------------------------------------------------------------
(* The making of a flow, and the writes.                                   *)

\* Nobody else is under way in a flow that is being made.
LEMMA MakerAlone ==
    ASSUME Inv, NEW l \in Logins, job[l].pc \notin Ended, Making(job[l])
    PROVE  /\ job[l].flow \in Flows /\ alive[job[l].flow] = "creating"
           /\ \A k \in Logins : job[k].pc \notin Ended /\ job[k].flow = job[l].flow => k = l
<1>1. job[l].flow \in Flows /\ alive[job[l].flow] = "creating"
  BY DEF Inv, Logs, Sound, Placed
<1> QED BY <1>1 DEF Inv, OneMaker

\* A new flow resets its second file.
LEMMA ResetXblKeeps ==
    ASSUME Inv, NEW l \in Logins, ResetXbl(l)
    PROVE  Inv'
<1> DEFINE r == job[l]
           f == r.flow
           s == ToFile(r, "xbl", "created", "created")
<1>1. r.pc = "resetXbl" /\ r \in Job /\ Sound(r, alive, mem, issued)
  BY DEF ResetXbl, Inv, Typed, Logs
<1>2. Making(r) /\ r.pc \notin Ended \cup Busy
  BY <1>1 DEF Making, Ended, Busy
<1>3. f \in Flows /\ alive[f] = "creating" /\ ~Writing(f)
  <2>1. f \in Flows /\ alive[f] = "creating" /\ \A k \in Logins : job[k].pc \notin Ended /\ job[k].flow = f => k = l
    BY <1>2, MakerAlone
  <2> QED BY <1>1, <2>1 DEF Writing, Ended
<1>4. issued \in Nat /\ issued \in 0..MaxTokens
  BY NameFacts DEF Inv, Typed
<1>5. Around(l, f) /\ issued' = issued /\ mem' = mem
  BY <1>2, <1>4 DEF ResetXbl, Quiet, Around, Set, disk, flows, Inv, Typed
<1>6. job' = [job EXCEPT ![l] = s]
  BY DEF ResetXbl, Set
<1>7. s \in Job
  BY <1>1 DEF ToFile, Job, Pcs, Busy, Caches, Targets
<1>8. /\ s.pc = "open" /\ s.flow = f /\ s.cache = "xbl" /\ s.ok = "created" /\ s.bad = "created"
      /\ s.toks = r.toks /\ s.snap = r.snap /\ s.held = r.held
      /\ s.lastMsa = r.lastMsa /\ s.had = r.had /\ s.renewed = r.renewed
  BY <1>1 DEF ToFile, Job
<1> HIDE DEF s
<1>9. Placed(s, alive) /\ Idles(s) /\ Reasons(s, mem) /\ Asks(s) /\ Renews(s)
  BY <1>3, <1>8 DEF Placed, Making, Idles, Reasons, Asks, Renews, Writes, Reset, Busy, Ended
<1>10. Numbered(s, issued) /\ Knows(s, mem)
  BY <1>1, <1>8 DEF Sound, Numbered, Knows
<1>11. Touches(f, s)
  BY <1>3, <1>5, NameFacts DEF Touches, Inv, Typed, Issued, Caches
<1> QED BY <1>3, <1>5, <1>6, <1>7, <1>8, <1>9, <1>10, <1>11, Reacts DEF Sound

\* Where a write leads, in the memory m1 that it leaves.
LEMMA GoesOn ==
    ASSUME Inv, NEW l \in Logins, NEW r, r = job[l], r.pc \in Busy,
           NEW s \in Job, s.flow = r.flow, s.toks = r.toks, s.snap = r.snap,
           s.held = r.held, s.lastMsa = r.lastMsa, s.had = r.had, s.renewed = r.renewed,
           NEW m1, NEW w \in {r.ok, r.bad},
           mem[r.flow]["live"] # Unread => m1[r.flow]["live"] = mem[r.flow]["live"]
    PROVE  Fine(Go(s, w), r, alive, m1, issued)
<1> DEFINE f == r.flow
<1>1. r \in Job /\ Sound(r, alive, mem, issued) /\ issued \in Nat
  BY NameFacts DEF Inv, Typed, Logs
<1>2. r.pc \notin Ended /\ r.pc \notin {"resetXbl", "created", "delay"}
  BY DEF Ended, Busy
<1>3. <<r.cache, r.ok, r.bad>> \in Writes /\ (r.ok \in Reset => mem[f]["live"] = Unread)
  BY <1>1 DEF Sound, Reasons
<1>4. Numbered(s, issued) /\ Knows(r, mem)
  BY <1>1 DEF Sound, Numbered
<1>5. /\ r.had => m1[f]["live"] # Unread /\ m1[f]["live"]["token"] # 0
      /\ r.renewed => m1[f]["live"] # Unread /\ m1[f]["live"]["token"] > r.lastMsa
  BY <1>2, <1>4 DEF Knows
<1>6. r.ok \in Reset => ~r.had /\ ~r.renewed
  BY <1>2, <1>3, <1>4 DEF Knows
<1>7. CASE r.ok \in {"resetXbl", "created"}
  <2>1. w \in {"resetXbl", "created"}
    BY <1>3, <1>7 DEF Writes
  <2>2. alive[f] = "creating" /\ f \in Flows
    BY <1>1, <1>2, <1>7 DEF Sound, Placed, Making
  <2> DEFINE u == [s EXCEPT !.pc = w]
  <2>3. Go(s, w) = u
    BY <2>1, GoIs
  <2>4. u \in Job
    BY <2>1 DEF Job, Pcs
  <2>5. /\ u.pc = w /\ u.flow = f /\ u.toks = r.toks /\ u.snap = r.snap
        /\ u.held = r.held /\ u.lastMsa = r.lastMsa /\ u.had = r.had
        /\ u.renewed = r.renewed
    BY DEF Job
  <2> HIDE DEF u
  <2>6. Sound(u, alive, m1, issued)
    BY <1>4, <1>5, <2>1, <2>2, <2>5
       DEF Sound, Idles, Placed, Reasons, Numbered, Knows, Asks, Renews, Making, Ended, Busy
  <2> QED BY <2>1, <2>3, <2>4, <2>5, <2>6 DEF Fine, Busy
<1>8. CASE r.ok \notin {"resetXbl", "created"}
  <2>1. f \in Flows /\ alive[f] = "yes"
    BY <1>1, <1>2, <1>8 DEF Sound, Placed, Making
  <2>2. Core(s, alive, m1, issued)
    BY <1>4, <1>5, <2>1 DEF Core
  <2>3. \/ w \in {"access", "refresh"} /\ r.ok \in Reset
        \/ w \in {"cachedTokens", "proceed", "verified"}
        \/ w = "device" /\ r.ok \in Reset
        \/ w = "forced"
        \/ w \in {"renew", "use"} /\ r.ok \in Reset
        \/ w = "tokens" /\ r.ok = "tokens"
        \/ w = "outerFailed" \/ w = "attemptFailed"
    BY <1>3, <1>8 DEF Writes, Reset
  <2>4. Fine(Go(s, w), s, alive, m1, issued)
    <3>1. CASE w \in {"access", "refresh"} /\ r.ok \in Reset
      <4>1. ~s.had
        BY <1>6, <3>1
      <4>2. Asks([s EXCEPT !.pc = w])
        BY <3>1, <4>1, AsksHad
      <4> QED BY <1>1, <2>2, <3>1, <4>2, GoPlain
    <3>2. CASE w \in {"cachedTokens", "proceed", "verified"}
      <4>1. Asks([s EXCEPT !.pc = w])
        BY <3>2 DEF Asks, Job
      <4> QED BY <1>1, <2>2, <3>2, <4>1, GoPlain
    <3>3. CASE w = "device" /\ r.ok \in Reset
      <4>1. ~s.had
        BY <1>6, <3>3
      <4>2. Asks([s EXCEPT !.pc = w])
        BY <3>3, <4>1 DEF Asks, Job
      <4> QED BY <1>1, <2>2, <3>3, <4>2, GoPlain
    <3>4. CASE w = "forced"
      <4>1. "forcing" \in Plain /\ "proceed" \in Plain
        BY PlainOnes
      <4>2. Fine(RefreshTokens(s, "forcing", "proceed"), s, alive, m1, issued)
        BY <1>1, <2>2, <4>1, FineRefresh
      <4> QED BY <3>4, <4>2, GoIs
    <3>5. CASE w = "renew" /\ r.ok \in Reset
      <4>1. "renewing" \in Plain /\ "device" \in Plain
        BY PlainOnes
      <4>2. ~s.had
        BY <1>6, <3>5
      <4>3. Fine(RefreshTokens(s, "renewing", "device"), s, alive, m1, issued)
        BY <1>1, <2>2, <4>1, <4>2, FineRefresh
      <4> QED BY <3>5, <4>3, GoIs
    <3>6. CASE w = "use" /\ r.ok \in Reset
      <4>1. ~s.renewed
        BY <1>6, <3>6
      <4>2. Fine(Use(s), s, alive, m1, issued)
        BY <1>1, <2>2, <4>1, FineUse
      <4> QED BY <3>6, <4>2, GoIs
    <3>7. CASE w = "tokens" /\ r.ok = "tokens"
      <4>1. s.renewed => s.toks["token"] > s.lastMsa
        BY <1>1, <3>7 DEF Sound, Renews
      <4>2. Fine(Tokens(s), s, alive, m1, issued)
        BY <1>1, <2>2, <4>1, FineTokens
      <4> QED BY <3>7, <4>2, GoIs
    <3>8. CASE w = "outerFailed"
      BY <1>1, <2>2, <3>8, FineOuter, GoIs
    <3>9. CASE w = "attemptFailed"
      BY <1>1, <2>2, <3>9, FineAttempt, GoIs
    <3> QED BY <2>3, <3>1, <3>2, <3>3, <3>4, <3>5, <3>6, <3>7, <3>8, <3>9
  <2> QED BY <2>4 DEF Fine
<1> QED BY <1>7, <1>8

\* The writer of a flow: every other flow, and its writer, is shared.
LEMMA OnlyWriter ==
    ASSUME Inv, NEW l \in Logins, job[l].pc \in Busy
    PROVE  /\ job[l].flow \in Flows /\ alive[job[l].flow] # "no"
           /\ job[l].cache \in Caches /\ job[l].pc \notin Ended
           /\ \A g \in Flows : alive[g] # "no" /\ g \notin shared => g = job[l].flow
           /\ \A k \in Logins : job[k].pc \in Busy /\ job[k].flow \notin shared => k = l
<1>1. \A k \in Logins : job[k].pc \in Busy =>
         job[k].flow \in Flows /\ alive[job[k].flow] # "no" /\ job[k].pc \notin Ended
  BY DEF Inv, Logs, Sound, Placed, Ended, Busy
<1>2. job[l].cache \in Caches
  BY DEF Inv, Typed, Job
<1>3. \A g \in Flows : alive[g] # "no" /\ g \notin shared => g = job[l].flow
  BY <1>1 DEF Inv, Alone
<1>4. \A k \in Logins : job[k].pc \in Busy /\ job[k].flow \notin shared => k = l
  BY <1>1, <1>3 DEF Inv, OneWriter
<1> QED BY <1>1, <1>2, <1>3, <1>4

\* The end of a write, or its failure, with what it may do to file and memory.
LEMMA Leaves ==
    ASSUME Inv, NEW l \in Logins, NEW r, r = job[l], r.pc \in Busy,
           NEW f, f = r.flow, NEW c, c = r.cache,
           NEW s, job' = [job EXCEPT ![l] = s], Fine(s, r, alive, mem', issued),
           UNCHANGED <<scenario, alive, shared, polling, forceRefresh, issued>>,
           faults' \in 0..scenario.faults, diskFailed' \in BOOLEAN,
           diskFailed => diskFailed',
           NEW x \in Content \cup {Blank, Mixed}, file' = [file EXCEPT ![c] = x],
           x \in Content => x["token"] <= issued,
           NEW y \in Content \cup {Unread}, mem' = [mem EXCEPT ![f][c] = y],
           y = mem[f][c] \/ (mem[f][c] = Unread /\ y = Empty /\ alive[f] = "yes"),
           alive[f] = "yes" /\ f \notin shared /\ ~diskFailed' => y \in {Unread, x}
    PROVE  Inv'
<1>1. /\ f \in Flows /\ alive[f] # "no" /\ c \in Caches /\ r.pc \notin Ended
      /\ \A g \in Flows : alive[g] # "no" /\ g \notin shared => g = f
      /\ \A k \in Logins : job[k].pc \in Busy /\ job[k].flow \notin shared => k = l
      /\ \A k \in Logins : job[k].pc \in Busy /\ job[k].flow = f => k = l
  BY OnlyWriter DEF Inv, OneWriter
<1>2. job \in [Logins -> Job] /\ s \in Job /\ issued \in Nat /\ s.pc \notin Busy
  BY NameFacts DEF Inv, Typed, Fine
<1>3. job'[l] = s /\ \A k \in Logins : k # l => job'[k] = job[k]
  BY <1>2
<1> DEFINE row == [mem[f] EXCEPT ![c] = y]
<1>4. /\ mem \in [Flows -> [Caches -> Content \cup {Unread}]]
      /\ mem' = [mem EXCEPT ![f] = row]
  BY DEF Inv, Typed
<1>5. row \in [Caches -> Content \cup {Unread}] /\ row[c] = y
      /\ \A d \in Caches : d # c => row[d] = mem[f][d]
  BY <1>1, <1>4
<1> HIDE DEF row
<1>6. /\ mem' \in [Flows -> [Caches -> Content \cup {Unread}]]
      /\ \A g \in Flows : g # f => mem'[g] = mem[g]
      /\ mem'[f][c] = y /\ \A d \in Caches : d # c => mem'[f][d] = mem[f][d]
  BY <1>1, <1>4, <1>5
<1>7. /\ file' \in [Caches -> Content \cup {Blank, Mixed}] /\ file'[c] = x
      /\ \A d \in Caches : d # c => file'[d] = file[d]
  BY <1>1 DEF Inv, Typed
<1>8. Typed'
  <2>1. job' \in [Logins -> Job]
    BY <1>2
  <2> QED BY <1>6, <1>7, <2>1 DEF Inv, Typed
<1>9. \A g \in Flows, d \in Caches :
         \/ mem'[g][d] = mem[g][d]
         \/ mem[g][d] = Unread /\ mem'[g][d] = Empty
  BY <1>6
<1>10. Logs'
  <2>1. ASSUME NEW k \in Logins, k # l PROVE Sound(job[k], alive, mem', issued)
    <3> DEFINE q == job[k]
    <3>1. q \in Job /\ Sound(q, alive, mem, issued)
      BY DEF Inv, Typed, Logs
    <3>2. q.pc \in Ended \/ q.flow \in Flows
      BY <3>1 DEF Sound, Placed
    <3>3. Knows(q, mem')
      <4>1. CASE q.flow \notin Flows
        BY <3>1, <3>2, <4>1 DEF Sound, Idles, Knows
      <4>2. CASE q.flow \in Flows
        <5>1. mem[q.flow]["live"] # Unread => mem'[q.flow]["live"] = mem[q.flow]["live"]
          BY <1>9, <4>2 DEF Caches
        <5> QED BY <3>1, <5>1 DEF Sound, Knows
      <4> QED BY <4>1, <4>2
    <3>4. Reasons(q, mem')
      <4>1. CASE q.pc \in Busy
        <5>1. q.flow \in Flows /\ q.flow # f
          BY <1>1, <2>1, <3>2, <4>1 DEF Ended, Busy
        <5> QED BY <1>6, <3>1, <5>1 DEF Sound, Reasons
      <4>2. CASE q.pc \notin Busy
        BY <4>2 DEF Reasons
      <4> QED BY <4>1, <4>2
    <3> QED BY <3>1, <3>3, <3>4 DEF Sound
  <2>2. Sound(s, alive, mem', issued)
    BY DEF Fine
  <2> QED BY <1>3, <2>1, <2>2 DEF Logs
<1>11. Absent'
  <2> SUFFICES ASSUME NEW g \in Flows, alive[g] # "yes"
               PROVE  (\A d \in Caches : mem'[g][d] = Unread) /\ ~polling[g] /\ ~forceRefresh[g]
    BY DEF Absent
  <2>1. (\A d \in Caches : mem[g][d] = Unread) /\ ~polling[g] /\ ~forceRefresh[g]
    BY DEF Inv, Absent
  <2> QED BY <1>1, <1>6, <2>1
<1>12. OneWriter'
  BY <1>2, <1>3 DEF Inv, OneWriter
<1>13. OneMaker'
  <2>1. s.pc \in Ended \/ s.flow = f
    BY DEF Fine
  <2> QED BY <1>1, <1>3, <2>1 DEF Inv, OneMaker
<1>14. Issued'
  <2>1. \A d \in Caches : file'[d] \in Content => file'[d]["token"] <= issued
    BY <1>7 DEF Inv, Issued
  <2>2. \A g \in Flows, d \in Caches : mem'[g][d] # Unread => mem'[g][d]["token"] <= issued
    BY <1>2, <1>9, NameFacts DEF Inv, Issued
  <2> QED BY <2>1, <2>2 DEF Issued
<1>15. Alone'
  BY DEF Inv, Alone
<1>16. Kept'
  <2> SUFFICES ASSUME NEW g \in Flows, NEW d \in Caches,
                      alive[g] = "yes", g \notin shared, ~diskFailed'
               PROVE  mem'[g][d] \in {Unread, file'[d]}
    BY DEF Kept
  <2>1. g = f /\ ~diskFailed
    BY <1>1
  <2>2. CASE d = c
    BY <1>6, <1>7, <2>1, <2>2
  <2>3. CASE d # c
    <3>1. mem[f][d] \in {Unread, file[d]}
      BY <1>1, <2>1, <2>3 DEF Inv, Kept
    <3> QED BY <1>6, <1>7, <2>1, <2>3, <3>1
  <2> QED BY <2>2, <2>3
<1>17. Blanked'
  <2> SUFFICES ASSUME NEW k \in Logins, job'[k].pc = "write", job'[k].flow \notin shared
               PROVE  FALSE
    BY DEF Blanked
  <2>1. k # l /\ job[k].pc = "write" /\ job[k].flow \notin shared
    BY <1>2, <1>3 DEF Busy
  <2> QED BY <1>1, <2>1 DEF Busy
<1> QED BY <1>8, <1>10, <1>11, <1>12, <1>13, <1>14, <1>15, <1>16, <1>17 DEF Inv

\* Faults stay within their bound.
LEMMA FaultCounts ==
    ASSUME Inv, Fault
    PROVE  faults' \in 0..scenario.faults
<1>1. scenario.faults \in Nat
  BY ScenarioAssumption DEF Inv, Typed
<1> QED BY <1>1 DEF Inv, Typed, Fault

\* A file is truncated, or cannot be opened.
LEMMA OpenKeeps ==
    ASSUME Inv, NEW l \in Logins, Open(l)
    PROVE  Inv'
<1> DEFINE r == job[l]
           f == r.flow
           c == r.cache
<1>1. r.pc = "open" /\ r.pc \in Busy /\ r \in Job /\ Sound(r, alive, mem, issued)
  BY DEF Open, Busy, Inv, Typed, Logs
<1>2. /\ f \in Flows /\ alive[f] # "no" /\ c \in Caches /\ r.pc \notin Ended
      /\ \A g \in Flows : alive[g] # "no" /\ g \notin shared => g = f
      /\ \A k \in Logins : job[k].pc \in Busy /\ job[k].flow \notin shared => k = l
  BY <1>1, OnlyWriter
<1>3. UNCHANGED <<scenario, alive, shared, forceRefresh, mem, polling, issued>>
  BY DEF Open, flows, Set
<1>4. CASE /\ file' = [file EXCEPT ![c] = Blank]
           /\ Set(l, [r EXCEPT !.pc = "write"])
           /\ UNCHANGED <<faults, diskFailed>>
  <2> DEFINE s == [r EXCEPT !.pc = "write"]
  <2>1. job \in [Logins -> Job] /\ job' = [job EXCEPT ![l] = s]
    BY <1>4 DEF Inv, Typed, Set
  <2>2. s \in Job
    BY <1>1 DEF Job, Pcs, Busy
  <2>3. /\ s.pc = "write" /\ s.flow = f /\ s.cache = c /\ s.ok = r.ok /\ s.bad = r.bad
        /\ s.toks = r.toks /\ s.snap = r.snap /\ s.held = r.held
        /\ s.lastMsa = r.lastMsa /\ s.had = r.had /\ s.renewed = r.renewed
    BY <1>1 DEF Job
  <2> HIDE DEF s
  <2>4. job'[l] = s /\ \A k \in Logins : k # l => job'[k] = job[k]
    BY <2>1
  <2>5. \A k \in Logins : /\ job'[k].pc \in Busy <=> job[k].pc \in Busy
                          /\ job'[k].pc \in Ended <=> job[k].pc \in Ended
                          /\ job'[k].flow = job[k].flow /\ job'[k].cache = job[k].cache
    BY <1>1, <2>3, <2>4 DEF Busy, Ended
  <2>6. Typed'
    <3>1. job' \in [Logins -> Job]
      BY <2>1, <2>2
    <3>2. file' \in [Caches -> Content \cup {Blank, Mixed}]
      BY <1>2, <1>4 DEF Inv, Typed
    <3> QED BY <1>3, <1>4, <3>1, <3>2 DEF Inv, Typed
  <2>7. Logs'
    <3>1. Sound(s, alive, mem, issued)
      BY <1>1, <2>3 DEF Sound, Idles, Placed, Reasons, Numbered, Knows, Asks, Renews,
                        Making, Ended, Busy
    <3> QED BY <1>3, <2>4, <3>1 DEF Inv, Logs
  <2>8. Absent' /\ Alone'
    BY <1>3 DEF Inv, Absent, Alone
  <2>9. OneWriter' /\ OneMaker'
    BY <1>3, <2>5 DEF Inv, OneWriter, OneMaker
  <2>10. Issued'
    BY <1>2, <1>3, <1>4, NameFacts DEF Inv, Typed, Issued
  <2>11. Kept'
    <3> SUFFICES ASSUME NEW g \in Flows, NEW d \in Caches,
                        alive[g] = "yes", g \notin shared, ~diskFailed
                 PROVE  \/ mem[g][d] \in {Unread, file'[d]}
                        \/ \E k \in Logins : job'[k].flow = g /\ job'[k].pc \in Busy /\ job'[k].cache = d
      BY <1>3, <1>4 DEF Kept
    <3>1. g = f
      BY <1>2
    <3>2. CASE d = c
      BY <1>1, <2>5, <3>1, <3>2
    <3>3. CASE d # c
      <4>1. file'[d] = file[d]
        BY <1>2, <1>4, <3>3 DEF Inv, Typed
      <4> QED BY <2>5, <4>1 DEF Inv, Kept
    <3> QED BY <3>2, <3>3
  <2>12. Blanked'
    <3> SUFFICES ASSUME NEW k \in Logins, job'[k].pc = "write", job'[k].flow \notin shared
                 PROVE  file'[job'[k].cache] = Blank
      BY <1>3 DEF Blanked
    <3>1. k = l
      BY <1>2, <2>5 DEF Busy
    <3> QED BY <1>2, <1>4, <2>3, <2>4, <3>1 DEF Inv, Typed
  <2> QED BY <2>6, <2>7, <2>8, <2>9, <2>10, <2>11, <2>12 DEF Inv
<1>5. CASE /\ Fault /\ diskFailed' = TRUE
           /\ Set(l, Go(r, r.bad)) /\ UNCHANGED file
  <2> DEFINE s == Go(r, r.bad)
  <2>1. Fine(s, r, alive, mem', issued)
    BY <1>1, <1>3, GoesOn
  <2>2. job' = [job EXCEPT ![l] = s]
    BY <1>5 DEF Set
  <2>3. faults' \in 0..scenario.faults
    BY <1>5, FaultCounts
  <2>4. /\ file[c] \in Content \cup {Blank, Mixed} /\ file' = [file EXCEPT ![c] = file[c]]
        /\ file[c] \in Content => file[c]["token"] <= issued
    BY <1>2, <1>5 DEF Inv, Typed, Issued
  <2>5. /\ mem[f][c] \in Content \cup {Unread} /\ mem' = [mem EXCEPT ![f][c] = mem[f][c]]
    BY <1>2, <1>3 DEF Inv, Typed
  <2> HIDE DEF s
  <2>6. PICK x \in Content \cup {Blank, Mixed}, y \in Content \cup {Unread} :
           /\ file' = [file EXCEPT ![c] = x] /\ (x \in Content => x["token"] <= issued)
           /\ mem' = [mem EXCEPT ![f][c] = y] /\ y = mem[f][c]
    BY <2>4, <2>5
  <2>7. diskFailed' \in BOOLEAN /\ (diskFailed => diskFailed')
    BY <1>5
  <2>8. alive[f] = "yes" /\ f \notin shared /\ ~diskFailed' => y \in {Unread, x}
    BY <1>5
  <2>9. UNCHANGED <<scenario, alive, shared, polling, forceRefresh, issued>>
    BY <1>3
  <2>10. r = job[l] /\ f = r.flow /\ c = r.cache /\ r.pc \in Busy
    BY <1>1
  <2> HIDE DEF r, f, c
  <2> QED BY <2>1, <2>2, <2>3, <2>6, <2>7, <2>8, <2>9, <2>10, Leaves
<1> QED BY <1>4, <1>5 DEF Open

\* What is written over a file that was truncated is what is in it.
LEMMA OverlayIs ==
    ASSUME NEW w, NEW v \in Content, NEW z \in Overlay(w, v)
    PROVE  z \in Content \cup {Blank, Mixed} /\ (z \in Content => z = v) /\ (w = Blank => z = v)
BY NameFacts DEF Overlay

\* A file is written, or what was written is lost.
LEMMA WriteKeeps ==
    ASSUME Inv, NEW l \in Logins, Write(l)
    PROVE  Inv'
<1> DEFINE r == job[l]
           f == r.flow
           c == r.cache
           old == mem[f][c]
           new == IF old = Unread THEN Empty ELSE old
           s == [r EXCEPT !.cache = "live", !.ok = "idle", !.bad = "idle"]
<1>1. r.pc = "write" /\ r.pc \in Busy /\ r \in Job /\ issued \in Nat
  BY NameFacts DEF Write, Busy, Inv, Typed
<1>2. f \in Flows /\ c \in Caches
  BY <1>1, OnlyWriter
<1>3. UNCHANGED <<scenario, alive, shared, forceRefresh, polling, issued>>
  BY DEF Write, flows, Set
<1>4. /\ mem \in [Flows -> [Caches -> Content \cup {Unread}]]
      /\ old \in Content \cup {Unread} /\ (old # Unread => old["token"] <= issued)
  BY <1>2 DEF Inv, Typed, Issued
<1>5. new \in Content /\ new["token"] <= issued /\ (old # Unread => new = old)
      /\ (old = Unread => new = Empty)
  BY <1>1, <1>4, NameFacts
<1>6. s \in Job
  BY <1>1 DEF Job, Caches, Targets
<1>7. /\ s.flow = f /\ s.toks = r.toks /\ s.snap = r.snap /\ s.held = r.held
      /\ s.lastMsa = r.lastMsa /\ s.had = r.had /\ s.renewed = r.renewed
  BY <1>1 DEF Job
<1>8. PICK good \in BOOLEAN :
         /\ Set(l, Go(s, IF good THEN r.ok ELSE r.bad))
         /\ mem' = IF good /\ alive[f] = "yes" THEN [mem EXCEPT ![f][c] = new] ELSE mem
         /\ \/ /\ good /\ UNCHANGED <<faults, diskFailed>>
               /\ \E v \in Overlay(file[c], new) : file' = [file EXCEPT ![c] = v]
            \/ Fault /\ diskFailed' = TRUE /\ UNCHANGED file
  BY DEF Write
<1> DEFINE w == IF good THEN r.ok ELSE r.bad
           y == IF good /\ alive[f] = "yes" THEN new ELSE old
           u == Go(s, w)
<1> HIDE DEF new, s
<1>9. /\ y \in Content \cup {Unread} /\ mem' = [mem EXCEPT ![f][c] = y]
      /\ y = old \/ (old = Unread /\ y = Empty /\ alive[f] = "yes")
  BY <1>2, <1>4, <1>5, <1>8
<1>10. Fine(u, r, alive, mem', issued)
  <2>1. old # Unread => y = old
    BY <1>5
  <2> HIDE DEF y, u, old
  <2>2. mem[f]["live"] # Unread => mem'[f]["live"] = mem[f]["live"]
    <3>1. CASE c = "live"
      BY <1>2, <1>4, <1>9, <2>1, <3>1 DEF old
    <3>2. CASE c # "live"
      BY <1>2, <1>4, <1>9, <3>2
    <3> QED BY <3>1, <3>2
  <2>3. w \in {r.ok, r.bad}
    OBVIOUS
  <2> HIDE DEF w
  <2>4. Fine(Go(s, w), r, alive, mem', issued)
    BY <1>1, <1>6, <1>7, <2>2, <2>3, GoesOn
  <2> QED BY <2>4 DEF u
<1>11. job' = [job EXCEPT ![l] = u]
  BY <1>8 DEF Set
<1>12. faults' \in 0..scenario.faults /\ diskFailed' \in BOOLEAN /\ (diskFailed => diskFailed')
  <2>1. CASE UNCHANGED <<faults, diskFailed>>
    BY <2>1 DEF Inv, Typed
  <2>2. CASE Fault /\ diskFailed' = TRUE
    BY <2>2, FaultCounts
  <2> QED BY <1>8, <2>1, <2>2
<1> HIDE DEF u, w
<1>13. \E x \in Content \cup {Blank, Mixed} :
          /\ file' = [file EXCEPT ![c] = x] /\ (x \in Content => x["token"] <= issued)
          /\ alive[f] = "yes" /\ f \notin shared /\ ~diskFailed' => y \in {Unread, x}
  <2>1. CASE good /\ \E v \in Overlay(file[c], new) : file' = [file EXCEPT ![c] = v]
    <3>1. PICK v \in Overlay(file[c], new) : file' = [file EXCEPT ![c] = v]
      BY <2>1
    <3>2. v \in Content \cup {Blank, Mixed} /\ (v \in Content => v = new)
          /\ (file[c] = Blank => v = new)
      BY <1>5, OverlayIs
    <3>3. f \notin shared => file[c] = Blank
      BY <1>1 DEF Inv, Blanked
    <3> QED BY <1>5, <2>1, <3>1, <3>2, <3>3
  <2>2. CASE diskFailed' = TRUE /\ UNCHANGED file
    BY <1>2, <2>2 DEF Inv, Typed, Issued
  <2> QED BY <1>8, <2>1, <2>2
<1> HIDE DEF y
<1>14. PICK x \in Content \cup {Blank, Mixed} :
          /\ file' = [file EXCEPT ![c] = x] /\ (x \in Content => x["token"] <= issued)
          /\ alive[f] = "yes" /\ f \notin shared /\ ~diskFailed' => y \in {Unread, x}
  BY <1>13
<1> QED BY <1>1, <1>3, <1>9, <1>10, <1>11, <1>12, <1>14, Leaves

\* A login at the start of its calls: nothing but the flow and the tries.
Fresh(s, w, f, n, a) ==
    \/ /\ w = "begin" /\ a[f] = "yes"
       /\ s = [NewJob EXCEPT !.pc = "begin", !.flow = f, !.left = n]
    \/ /\ w = "created" /\ a[f] = "creating"
       /\ s = [NewJob EXCEPT !.pc = "created", !.flow = f, !.left = n]
    \/ /\ w = "open" /\ a[f] = "creating"
       /\ s = ToFile([NewJob EXCEPT !.flow = f, !.left = n], "live", "resetXbl", "resetXbl")

\* Such a login is sound.
LEMMA FreshSound ==
    ASSUME NEW f \in Flows, NEW n \in {0, 2}, NEW a, NEW m, NEW s, NEW w,
           Fresh(s, w, f, n, a), NEW i \in Nat
    PROVE  s \in Job /\ s.pc = w /\ s.flow = f /\ Sound(s, a, m, i)
<1>1. w \in Pcs /\ w \notin Ended /\ n \in 0..2
  BY DEF Pcs, Ended, Busy, Fresh
<1>2. [NewJob EXCEPT !.pc = w, !.flow = f, !.left = n] \in Job
  BY <1>1, NewFields
<1>3. s \in Job
  <2>1. CASE w # "open"
    BY <1>2, <2>1 DEF Fresh
  <2>2. CASE w = "open"
    <3>1. s = [[NewJob EXCEPT !.pc = w, !.flow = f, !.left = n]
                 EXCEPT !.cache = "live", !.ok = "resetXbl", !.bad = "resetXbl"]
      BY <2>2 DEF ToFile, NewJob, Fresh
    <3>2. "live" \in Caches /\ "resetXbl" \in Targets
      BY DEF Caches, Targets
    <3> QED BY <1>2, <3>1, <3>2 DEF Job
  <2> QED BY <2>1, <2>2
<1>4. /\ s.pc = w /\ s.flow = f /\ s.toks = Empty /\ s.snap = Empty /\ s.held = Empty
      /\ s.lastMsa = 0 /\ s.had = FALSE /\ s.renewed = FALSE
      /\ w = "open" => s.cache = "live" /\ s.ok = "resetXbl" /\ s.bad = "resetXbl"
  BY DEF ToFile, NewJob, Fresh
<1>5. a[f] = IF w = "begin" THEN "yes" ELSE "creating"
  BY DEF Fresh
<1>6. w \in {"begin", "created", "open"}
  BY DEF Fresh
<1>7. Placed(s, a)
  BY <1>4, <1>5, <1>6 DEF Placed, Making, Busy
<1>8. Idles(s) /\ Numbered(s, i) /\ Knows(s, m)
  BY <1>4, <1>6, NameFacts DEF Idles, Numbered, Knows, Ended
<1>9. Reasons(s, m)
  BY <1>4, <1>6 DEF Reasons, Writes, Reset, Busy
<1>10. Asks(s) /\ Renews(s)
  BY <1>4, <1>6 DEF Asks, Renews
<1> QED BY <1>3, <1>4, <1>7, <1>8, <1>9, <1>10 DEF Sound

\* alive matters to a login only at its own flow.
LEMMA SoundAlive ==
    ASSUME NEW r, NEW a, NEW b, NEW m, NEW n, Sound(r, a, m, n),
           r.pc \in Ended \/ b[r.flow] = a[r.flow]
    PROVE  Sound(r, b, m, n)
BY DEF Sound, Placed

\* A call of getXboxToken() or getMinecraftBedrockToken().
LEMMA StartKeeps ==
    ASSUME Inv, NEW call \in scenario.calls, Start(call[1], call[2], call[3])
    PROVE  Inv'
<1> DEFINE l == call[1]
           f == call[2]
           n == call[3]
           r == [NewJob EXCEPT !.flow = f, !.left = n]
<1>1. l \in Logins /\ f \in Flows /\ n \in {0, 2}
  BY ScenarioAssumption DEF Inv, Typed
<1>2. job[l].pc = "idle" /\ alive[f] # "creating"
  BY DEF Start
<1>3. /\ UNCHANGED <<scenario, file, faults, diskFailed, mem, forceRefresh, polling, issued>>
      /\ issued \in Nat
  BY NameFacts DEF Start, Set, disk, Inv, Typed
<1>4. job \in [Logins -> Job] /\ alive \in [Flows -> {"no", "creating", "yes"}]
  BY DEF Inv, Typed
<1> HIDE DEF l, f, n
<1>5. CASE alive[f] = "yes"
  <2>1. UNCHANGED <<alive, shared>> /\ job' = [job EXCEPT ![l] = Go(r, "begin")]
    BY <1>5 DEF Start, Set, l, f, n
  <2>2. Go(r, "begin") = [NewJob EXCEPT !.pc = "begin", !.flow = f, !.left = n]
    <3>1. Go(r, "begin") = [r EXCEPT !.pc = "begin"]
      BY GoIs
    <3> QED BY <3>1 DEF NewJob
  <2>3. PICK s : s = Go(r, "begin")
    OBVIOUS
  <2>4. s \in Job /\ s.pc = "begin" /\ s.flow = f /\ Sound(s, alive, mem, issued)
    <3>1. Fresh(s, "begin", f, n, alive)
      BY <1>5, <2>2, <2>3 DEF Fresh
    <3> QED BY <1>1, <1>3, <3>1, FreshSound
  <2>5. job'[l] = s /\ \A k \in Logins : k # l => job'[k] = job[k]
    BY <1>1, <1>4, <2>1, <2>3
  <2>6. job' \in [Logins -> Job]
    BY <1>1, <1>4, <2>1, <2>3, <2>4
  <2>7. Typed'
    BY <1>3, <2>1, <2>6 DEF Inv, Typed
  <2>8. Logs'
    BY <1>3, <2>1, <2>4, <2>5 DEF Inv, Logs
  <2>9. Absent' /\ Alone' /\ Issued'
    BY <1>3, <2>1 DEF Inv, Absent, Alone, Issued
  <2>10. OneWriter'
    BY <2>4, <2>5 DEF Inv, OneWriter, Busy
  <2>11. OneMaker'
    BY <1>5, <2>1, <2>4, <2>5 DEF Inv, OneMaker
  <2>12. Kept'
    BY <1>2, <1>3, <2>1, <2>5 DEF Inv, Kept, Busy
  <2>13. Blanked'
    BY <1>3, <2>1, <2>4, <2>5 DEF Inv, Blanked
  <2> QED BY <2>7, <2>8, <2>9, <2>10, <2>11, <2>12, <2>13 DEF Inv
<1>6. CASE alive[f] = "no"
  <2> DEFINE up == {g \in Flows : alive'[g] # "no"}
  <2>1. /\ alive' = [alive EXCEPT ![f] = "creating"]
        /\ shared' = IF up = {f} THEN shared ELSE shared \cup up
    BY <1>6 DEF Start, l, f, n
  <2>2. PICK s \in {Go(r, "created"), ToFile(r, "live", "resetXbl", "resetXbl")} :
           job' = [job EXCEPT ![l] = s]
    BY <1>6 DEF Start, Set, l, f, n
  <2>3. Go(r, "created") = [NewJob EXCEPT !.pc = "created", !.flow = f, !.left = n]
    <3>1. Go(r, "created") = [r EXCEPT !.pc = "created"]
      BY GoIs
    <3> QED BY <3>1 DEF NewJob
  <2>4. /\ alive' \in [Flows -> {"no", "creating", "yes"}] /\ alive'[f] = "creating"
        /\ \A g \in Flows : g # f => alive'[g] = alive[g]
    BY <1>1, <1>4, <2>1
  <2>5. s \in Job /\ s.pc \in {"created", "open"} /\ s.flow = f /\ Sound(s, alive', mem, issued)
    <3>1. CASE s = Go(r, "created")
      <4>1. Fresh(s, "created", f, n, alive')
        BY <2>3, <2>4, <3>1 DEF Fresh
      <4> QED BY <1>1, <1>3, <4>1, FreshSound
    <3>2. CASE s = ToFile(r, "live", "resetXbl", "resetXbl")
      <4>1. Fresh(s, "open", f, n, alive')
        BY <2>4, <3>2 DEF Fresh
      <4> QED BY <1>1, <1>3, <4>1, FreshSound
    <3> QED BY <2>2, <3>1, <3>2
  <2>6. job'[l] = s /\ \A k \in Logins : k # l => job'[k] = job[k]
    BY <1>1, <1>4, <2>2
  <2>7. \A k \in Logins : job[k].pc \notin Ended => job[k].flow \in Flows /\ job[k].flow # f
    BY <1>6 DEF Inv, Logs, Sound, Placed
  <2>8. shared \subseteq shared' /\ shared' \subseteq Flows
    BY <2>1 DEF Inv, Typed
  <2>9. Typed'
    <3>1. job' \in [Logins -> Job]
      BY <1>1, <1>4, <2>2, <2>5
    <3> QED BY <1>3, <2>4, <2>8, <3>1 DEF Inv, Typed
  <2>10. Logs'
    <3>1. ASSUME NEW k \in Logins, k # l PROVE Sound(job[k], alive', mem, issued)
      <4>1. Sound(job[k], alive, mem, issued)
        BY DEF Inv, Logs
      <4>2. job[k].pc \in Ended \/ alive'[job[k].flow] = alive[job[k].flow]
        BY <2>4, <2>7
      <4> QED BY <4>1, <4>2, SoundAlive
    <3> QED BY <1>3, <2>5, <2>6, <3>1 DEF Logs
  <2>11. Absent'
    BY <1>3, <1>6, <2>4 DEF Inv, Absent
  <2>12. Issued'
    BY <1>3 DEF Inv, Issued
  <2>13. OneWriter'
    BY <2>5, <2>6, <2>7 DEF Inv, OneWriter, Busy, Ended
  <2>14. OneMaker'
    <3>1. \A k \in Logins : k # l /\ job'[k].pc \notin Ended => job'[k].flow \in Flows /\ job'[k].flow # f
      BY <2>6, <2>7
    <3> SUFFICES ASSUME NEW j \in Logins, NEW k \in Logins, job'[j].pc \notin Ended,
                        job'[k].pc \notin Ended, job'[j].flow = job'[k].flow,
                        alive'[job'[j].flow] = "creating"
                 PROVE  j = k
      BY DEF OneMaker
    <3>2. CASE j = l \/ k = l
      BY <2>5, <2>6, <3>1, <3>2
    <3>3. CASE j # l /\ k # l
      BY <2>4, <2>6, <3>1, <3>3 DEF Inv, OneMaker
    <3> QED BY <3>2, <3>3
  <2>15. Alone'
    BY <2>1 DEF Alone
  <2>16. Kept'
    <3> SUFFICES ASSUME NEW g \in Flows, NEW c \in Caches,
                        alive'[g] = "yes", g \notin shared', ~diskFailed
                 PROVE  \/ mem[g][c] \in {Unread, file[c]}
                        \/ \E k \in Logins : job'[k].flow = g /\ job'[k].pc \in Busy /\ job'[k].cache = c
      BY <1>3 DEF Kept
    <3>1. alive[g] = "yes" /\ g \notin shared
      BY <2>4, <2>8
    <3>2. \/ mem[g][c] \in {Unread, file[c]}
          \/ \E k \in Logins : job[k].flow = g /\ job[k].pc \in Busy /\ job[k].cache = c
      BY <3>1 DEF Inv, Kept
    <3> QED BY <1>2, <2>6, <3>2 DEF Busy
  <2>17. Blanked'
    BY <1>3, <2>5, <2>6, <2>8 DEF Inv, Blanked
  <2> QED BY <2>9, <2>10, <2>11, <2>12, <2>13, <2>14, <2>15, <2>16, <2>17 DEF Inv
<1> QED BY <1>1, <1>2, <1>4, <1>5, <1>6

\* A new flow is there.
LEMMA CreatedKeeps ==
    ASSUME Inv, NEW l \in Logins, Created(l)
    PROVE  Inv'
<1> DEFINE r == job[l]
           f == r.flow
           s == [r EXCEPT !.pc = "begin"]
<1>1. r.pc = "created" /\ r \in Job /\ Sound(r, alive, mem, issued) /\ r.pc \notin Ended
  BY DEF Created, Inv, Typed, Logs, Ended
<1>2. /\ f \in Flows /\ alive[f] = "creating"
      /\ \A k \in Logins : job[k].pc \notin Ended /\ job[k].flow = f => k = l
  BY <1>1, MakerAlone DEF Making
<1>3. /\ UNCHANGED <<scenario, file, faults, diskFailed, shared, mem, forceRefresh, polling, issued>>
      /\ alive' = [alive EXCEPT ![f] = "yes"]
  BY DEF Created, Set, disk
<1>4. Go(r, "begin") = s
  BY GoIs
<1>5. job' = [job EXCEPT ![l] = s]
  BY <1>4 DEF Created, Set
<1>6. job \in [Logins -> Job] /\ alive \in [Flows -> {"no", "creating", "yes"}]
  BY DEF Inv, Typed
<1>7. /\ alive' \in [Flows -> {"no", "creating", "yes"}] /\ alive'[f] = "yes"
      /\ \A g \in Flows : g # f => alive'[g] = alive[g]
  BY <1>2, <1>3, <1>6
<1>8. s \in Job
  BY <1>1 DEF Job, Pcs
<1>9. /\ s.pc = "begin" /\ s.flow = f /\ s.toks = r.toks /\ s.snap = r.snap
      /\ s.held = r.held /\ s.lastMsa = r.lastMsa /\ s.had = r.had /\ s.renewed = r.renewed
  BY <1>1 DEF Job
<1> HIDE DEF s
<1>10. job'[l] = s /\ \A k \in Logins : k # l => job'[k] = job[k]
  BY <1>5, <1>6
<1>11. Typed'
  <2>1. job' \in [Logins -> Job]
    BY <1>5, <1>6, <1>8
  <2> QED BY <1>3, <1>7, <2>1 DEF Inv, Typed
<1>12. Logs'
  <2>1. Sound(s, alive', mem, issued)
    BY <1>1, <1>2, <1>7, <1>9
       DEF Sound, Idles, Placed, Reasons, Numbered, Knows, Asks, Renews, Making, Ended, Busy
  <2>2. ASSUME NEW k \in Logins, k # l PROVE Sound(job[k], alive', mem, issued)
    <3>1. Sound(job[k], alive, mem, issued)
      BY DEF Inv, Logs
    <3>2. job[k].pc \in Ended \/ alive'[job[k].flow] = alive[job[k].flow]
      BY <1>2, <1>7, <2>2, <3>1 DEF Sound, Placed
    <3> QED BY <3>1, <3>2, SoundAlive
  <2> QED BY <1>3, <1>10, <2>1, <2>2 DEF Logs
<1>13. Absent'
  BY <1>3, <1>7 DEF Inv, Absent
<1>14. Issued'
  BY <1>3 DEF Inv, Issued
<1>15. OneWriter'
  BY <1>9, <1>10 DEF Inv, OneWriter, Busy
<1>16. OneMaker'
  <2> SUFFICES ASSUME NEW j \in Logins, NEW k \in Logins, job'[j].pc \notin Ended,
                      job'[k].pc \notin Ended, job'[j].flow = job'[k].flow,
                      alive'[job'[j].flow] = "creating"
               PROVE  j = k
    BY DEF OneMaker
  <2>1. job'[j].flow # f
    BY <1>7
  <2>2. j # l /\ k # l
    BY <1>9, <1>10, <2>1
  <2>3. job[j].flow \in Flows
    BY <1>10, <2>2 DEF Inv, Logs, Sound, Placed
  <2> QED BY <1>7, <1>10, <2>1, <2>2, <2>3 DEF Inv, OneMaker
<1>17. Alone'
  BY <1>2, <1>3, <1>7 DEF Inv, Alone
<1>18. Kept'
  <2> SUFFICES ASSUME NEW g \in Flows, NEW c \in Caches,
                      alive'[g] = "yes", g \notin shared, ~diskFailed
               PROVE  \/ mem[g][c] \in {Unread, file[c]}
                      \/ \E k \in Logins : job'[k].flow = g /\ job'[k].pc \in Busy /\ job'[k].cache = c
    BY <1>3 DEF Kept
  <2>1. CASE g = f
    BY <1>2, <2>1 DEF Inv, Absent
  <2>2. CASE g # f
    <3>1. \/ mem[g][c] \in {Unread, file[c]}
          \/ \E k \in Logins : job[k].flow = g /\ job[k].pc \in Busy /\ job[k].cache = c
      BY <1>7, <2>2 DEF Inv, Kept
    <3> QED BY <1>10, <2>2, <3>1
  <2> QED BY <2>1, <2>2
<1>19. Blanked'
  BY <1>3, <1>9, <1>10 DEF Inv, Blanked
<1> QED BY <1>11, <1>12, <1>13, <1>14, <1>15, <1>16, <1>17, <1>18, <1>19 DEF Inv

\* A process ends: its flow and its logins are gone, its files stay.
LEMMA CrashKeeps ==
    ASSUME Inv, NEW f \in Flows, Crash(f)
    PROVE  Inv'
<1> DEFINE none == [c \in Caches |-> Unread]
<1>1. /\ UNCHANGED <<scenario, file, diskFailed, issued>> /\ issued \in Nat
      /\ job \in [Logins -> Job] /\ alive \in [Flows -> {"no", "creating", "yes"}]
      /\ mem \in [Flows -> [Caches -> Content \cup {Unread}]]
  BY NameFacts DEF Crash, Inv, Typed
<1>2. /\ alive' \in [Flows -> {"no", "creating", "yes"}] /\ alive'[f] = "no"
      /\ \A g \in Flows : g # f => alive'[g] = alive[g]
  BY <1>1 DEF Crash
<1>3. /\ mem' \in [Flows -> [Caches -> Content \cup {Unread}]]
      /\ \A c \in Caches : mem'[f][c] = Unread
      /\ \A g \in Flows : g # f => mem'[g] = mem[g]
  <2>1. none \in [Caches -> Content \cup {Unread}] /\ \A c \in Caches : none[c] = Unread
    OBVIOUS
  <2>2. mem' = [mem EXCEPT ![f] = none]
    BY DEF Crash
  <2> HIDE DEF none
  <2> QED BY <1>1, <2>1, <2>2
<1>4. /\ forceRefresh' \in [Flows -> BOOLEAN] /\ polling' \in [Flows -> BOOLEAN]
      /\ ~forceRefresh'[f] /\ ~polling'[f]
      /\ \A g \in Flows : g # f => forceRefresh'[g] = forceRefresh[g] /\ polling'[g] = polling[g]
  BY DEF Crash, Inv, Typed
<1>5. Over("gone") \in Job /\ Over("gone").pc = "gone" /\ "gone" \in Ended
      /\ \A m : Sound(Over("gone"), alive', m, issued)
  BY <1>1, FineOver DEF Fine, Ended, Over, NewJob
<1>6. PICK s : s = Over("gone")
  OBVIOUS
<1>7. /\ job' \in [Logins -> Job]
      /\ \A k \in Logins : /\ job[k].flow = f => job'[k] = s
                           /\ job[k].flow # f => job'[k] = job[k]
  BY <1>1, <1>5, <1>6 DEF Crash
<1>8. shared' = shared \ {f}
  BY DEF Crash
<1>9. \A k \in Logins : job'[k].pc \notin Ended => job'[k] = job[k] /\ job[k].flow # f
  BY <1>5, <1>6, <1>7
<1>10. Typed'
  <2>1. faults' \in 0..scenario.faults
    BY FaultCounts DEF Crash
  <2> QED BY <1>1, <1>2, <1>3, <1>4, <1>7, <1>8, <2>1 DEF Inv, Typed
<1>11. Logs'
  <2> SUFFICES ASSUME NEW k \in Logins PROVE Sound(job'[k], alive', mem', issued)
    BY <1>1 DEF Logs
  <2>1. CASE job[k].flow = f
    BY <1>5, <1>6, <1>7, <2>1
  <2>2. CASE job[k].flow # f
    <3> DEFINE q == job[k]
    <3>1. q \in Job /\ Sound(q, alive, mem, issued)
      BY DEF Inv, Typed, Logs
    <3>2. q.pc \in Ended \/ q.flow \in Flows
      BY <3>1 DEF Sound, Placed
    <3>3. Knows(q, mem')
      <4>1. CASE q.flow \notin Flows
        BY <3>1, <3>2, <4>1 DEF Sound, Idles, Knows
      <4>2. CASE q.flow \in Flows
        BY <1>3, <2>2, <3>1, <4>2 DEF Sound, Knows
      <4> QED BY <4>1, <4>2
    <3>4. Reasons(q, mem')
      BY <1>3, <2>2, <3>1, <3>2 DEF Sound, Reasons, Ended, Busy
    <3>5. Sound(q, alive, mem', issued)
      BY <3>1, <3>3, <3>4 DEF Sound
    <3>6. q.pc \in Ended \/ alive'[q.flow] = alive[q.flow]
      BY <1>2, <2>2, <3>2
    <3>7. Sound(q, alive', mem', issued)
      BY <3>5, <3>6, SoundAlive
    <3> QED BY <1>7, <2>2, <3>7
  <2> QED BY <2>1, <2>2
<1>12. Absent'
  BY <1>2, <1>3, <1>4 DEF Inv, Absent
<1>13. OneWriter'
  BY <1>9 DEF Inv, OneWriter, Busy, Ended
<1>14. OneMaker'
  <2> SUFFICES ASSUME NEW j \in Logins, NEW k \in Logins, job'[j].pc \notin Ended,
                      job'[k].pc \notin Ended, job'[j].flow = job'[k].flow,
                      alive'[job'[j].flow] = "creating"
               PROVE  j = k
    BY DEF OneMaker
  <2>1. job'[j] = job[j] /\ job'[k] = job[k] /\ job[j].flow # f
    BY <1>9
  <2>2. job[j].flow \in Flows
    BY <2>1 DEF Inv, Logs, Sound, Placed
  <2> QED BY <1>2, <2>1, <2>2 DEF Inv, OneMaker
<1>15. Issued'
  BY <1>1, <1>3 DEF Inv, Issued
<1>16. Alone'
  BY <1>2, <1>8 DEF Inv, Alone
<1>17. Kept'
  <2> SUFFICES ASSUME NEW g \in Flows, NEW c \in Caches,
                      alive'[g] = "yes", g \notin shared', ~diskFailed
               PROVE  \/ mem'[g][c] \in {Unread, file[c]}
                      \/ \E k \in Logins : job'[k].flow = g /\ job'[k].pc \in Busy /\ job'[k].cache = c
    BY <1>1 DEF Kept
  <2>1. g # f /\ alive[g] = "yes" /\ g \notin shared
    BY <1>2, <1>8
  <2>2. \/ mem[g][c] \in {Unread, file[c]}
        \/ \E k \in Logins : job[k].flow = g /\ job[k].pc \in Busy /\ job[k].cache = c
    BY <2>1 DEF Inv, Kept
  <2> QED BY <1>3, <1>7, <2>1, <2>2
<1>18. Blanked'
  <2> SUFFICES ASSUME NEW k \in Logins, job'[k].pc = "write", job'[k].flow \notin shared'
               PROVE  file[job'[k].cache] = Blank
    BY <1>1 DEF Blanked
  <2>1. job'[k] = job[k] /\ job[k].flow # f
    BY <1>9 DEF Ended
  <2> QED BY <1>8, <2>1 DEF Inv, Blanked
<1> QED BY <1>10, <1>11, <1>12, <1>13, <1>14, <1>15, <1>16, <1>17, <1>18 DEF Inv

-----------------------------------------------------------------------------
(* The invariant.                                                          *)

\* The initial states.
LEMMA InitInv == Init => Inv
<1> SUFFICES ASSUME Init PROVE Inv
  OBVIOUS
<1>1. NewJob \in Job /\ NewJob.pc = "idle" /\ "idle" \in Ended /\ "idle" \notin Busy
  BY NewFields DEF NewJob, Ended, Busy
<1>2. scenario.faults \in Nat /\ MaxTokens \in Nat
  BY ScenarioAssumption, NameFacts DEF Init
<1>3. \A l \in Logins : job[l] = NewJob
  BY DEF Init
<1>4. Typed
  <2>1. file \in [Caches -> Content \cup {Blank, Mixed}]
    BY DEF Init
  <2>2. mem \in [Flows -> [Caches -> Content \cup {Unread}]]
    BY DEF Init
  <2>3. job \in [Logins -> Job]
    BY <1>1 DEF Init
  <2>4. /\ scenario \in Scenarios /\ diskFailed \in BOOLEAN /\ shared \subseteq Flows
        /\ alive \in [Flows -> {"no", "creating", "yes"}]
        /\ forceRefresh \in [Flows -> BOOLEAN] /\ polling \in [Flows -> BOOLEAN]
    BY DEF Init
  <2>5. faults \in 0..scenario.faults /\ issued \in 0..MaxTokens
    BY <1>2 DEF Init
  <2> QED BY <2>1, <2>2, <2>3, <2>4, <2>5 DEF Typed
<1>5. Logs
  <2>1. NewJob = Over("idle")
    <3>1. NewJob = [NewJob EXCEPT !.pc = NewJob.pc]
      BY <1>1 DEF Job
    <3> QED BY <1>1, <3>1 DEF Over
  <2>2. Sound(NewJob, alive, mem, issued)
    BY <2>1, FineOver DEF Fine, Init, Ended
  <2> QED BY <1>3, <2>2 DEF Logs
<1>6. Absent /\ Issued /\ Alone
  BY NameFacts DEF Init, Absent, Issued, Alone
<1>7. OneWriter /\ OneMaker /\ Blanked
  BY <1>1, <1>3 DEF OneWriter, OneMaker, Blanked
<1>8. Kept
  BY DEF Init, Kept
<1> QED BY <1>4, <1>5, <1>6, <1>7, <1>8 DEF Inv

\* A step that changes nothing.
LEMMA StutterInv == Inv /\ UNCHANGED vars => Inv'
BY DEF vars, disk, flows, Inv, Typed, Logs, Absent, OneWriter, OneMaker, Issued, Alone,
       Kept, Blanked

\* Every step.
LEMMA StepInv == Inv /\ [Next]_vars => Inv'
<1> SUFFICES ASSUME Inv, Next PROVE Inv'
  BY StutterInv
<1>1. ASSUME NEW call \in scenario.calls, Start(call[1], call[2], call[3]) PROVE Inv'
  BY <1>1, StartKeeps
<1>2. ASSUME NEW l \in Logins, Reaction(l) PROVE Inv'
  BY <1>2, OpenKeeps, WriteKeeps, ResetXblKeeps, CreatedKeeps, BeginKeeps, CachedTokensKeeps,
     ProceedKeeps, AccessKeeps, VerifyKeeps, VerifiedKeeps, PollWaitKeeps, DelayKeeps
     DEF Reaction
<1>3. ASSUME NEW l \in Logins, Answer(l) PROVE Inv'
  <2>1. Forcing(l) \/ Renewing(l) => Inv'
    BY RefreshedKeeps DEF Forcing, Renewing
  <2>2. Asking(l) \/ AskingXsts(l) => Inv'
    <3>1. ToSet(Keys) \cup {Xsts} \subseteq Names \ {"token"}
      BY NameAssumption, NameFacts
    <3> QED BY <3>1, AskForKeeps DEF Asking, AskingXsts
  <2> QED BY <1>3, <2>1, <2>2, DeviceKeeps, PollingKeeps, ChainKeeps DEF Answer
<1>4. ASSUME NEW l \in Logins, CodeExpires(l) PROVE Inv'
  BY <1>4, CodeExpiresKeeps
<1>5. ASSUME NEW f \in Flows, Crash(f) PROVE Inv'
  BY <1>5, CrashKeeps
<1> QED BY <1>1, <1>2, <1>3, <1>4, <1>5 DEF Next

\* What every login, and every flow, can rely on at any time: the inductive
\* invariant behind the three results below.
THEOREM Invariance == Spec => []Inv
BY InitInv, StepInv, PTL DEF Spec

\* The type invariant of the runs.
LEMMA InvTypeOK == Inv => TypeOK
<1> SUFFICES ASSUME Inv PROVE TypeOK
  OBVIOUS
<1>1. \A f \in Flows, c \in Caches : mem[f][c] = Unread \/ mem[f][c] \in Content
  BY DEF Inv, Typed
<1>2. \A f \in Flows : alive[f] # "yes" =>
         (\A c \in Caches : mem[f][c] = Unread) /\ ~polling[f] /\ ~forceRefresh[f]
  BY DEF Inv, Absent
<1>3. \A l \in Logins : {job[l].toks, job[l].snap, job[l].held} \subseteq Content
  BY DEF Inv, Typed, Job
<1>4. \A l \in Logins : job[l].pc \in Ended \/ alive[job[l].flow] # "no"
  BY DEF Inv, Logs, Sound, Placed
<1> QED BY <1>1, <1>2, <1>3, <1>4 DEF Inv, Typed, TypeOK

\* Outside of writes memory is what the file holds.
LEMMA InvMemoryIsFile == Inv => MemoryIsFile
BY DEF Inv, Kept, MemoryIsFile, Writing, Busy

\* What a flow knows is what the next process finds: memory and file are equal
\* whenever no write is under way, no file operation has failed and no other
\* flow is on the files, for any number of flows, logins, tokens and crashes.
THEOREM FilesKeepUp == Spec => []Durable
<1>1. Inv => Durable
  BY InvTypeOK, InvMemoryIsFile DEF Durable
<1> QED BY <1>1, Invariance, PTL

\* The second try of a login whose token was renewed does not use the token
\* with which the first one failed, however logins of the flow interleave.
THEOREM RetriesRenew == Spec => []RetryRenews
<1>1. Inv => RetryRenews
  <2> SUFFICES ASSUME Inv, NEW l \in Logins, job[l].pc = "asking", job[l].renewed
               PROVE  job[l].toks["token"] # job[l].lastMsa
    BY DEF RetryRenews
  <2>1. job[l].toks["token"] > job[l].lastMsa
    BY DEF Inv, Logs, Sound, Renews
  <2>2. job[l].toks["token"] \in Nat /\ job[l].lastMsa \in Nat
    BY NameFacts DEF Inv, Typed, Job
  <2> QED BY <2>1, <2>2
<1> QED BY <1>1, Invariance, PTL

\* The user is shown a code only if no token was known when the try began, or
\* the service refused to renew it: no write, failure or other login of the flow
\* in between makes a login forget the token it has seen.
THEOREM AskedOnlyIfNeeded == Spec => []AsksOnlyIfNeeded
<1>1. Inv => AsksOnlyIfNeeded
  BY DEF Inv, Logs, Sound, Asks, AsksOnlyIfNeeded
<1> QED BY <1>1, Invariance, PTL

-----------------------------------------------------------------------------
(* Tokens in memory only get newer.                                        *)

\* The MSA token of a flow that stays is replaced by newer ones only.
Newer ==
    \A f \in Flows : mem[f]["live"] # Unread /\ alive'[f] # "no" =>
        mem'[f]["live"] # Unread /\ mem'[f]["live"]["token"] >= mem[f]["live"]["token"]

\* The memory stays as it is.
LEMMA SameNewer ==
    ASSUME Inv, mem' = mem
    PROVE  Newer
<1>1. \A f \in Flows : mem[f]["live"] # Unread => mem[f]["live"]["token"] \in Nat
  BY NameFacts DEF Inv, Typed, Caches
<1> QED BY <1>1 DEF Newer

\* One flow reads its cache or stores a token.
LEMMA TouchNewer ==
    ASSUME Inv, NEW f \in Flows, NEW s, Touches(f, s)
    PROVE  Newer
<1>1. mem \in [Flows -> [Caches -> Content \cup {Unread}]] /\ "live" \in Caches
  BY DEF Inv, Typed, Caches
<1>2. \A g \in Flows : /\ mem[g]["live"] # Unread => mem[g]["live"]["token"] \in Nat
                       /\ mem'[g]["live"] # Unread => mem'[g]["live"]["token"] \in Nat
  BY <1>1, NameFacts DEF Touches
<1>3. ASSUME NEW g \in Flows, mem[g]["live"] # Unread
      PROVE  mem'[g]["live"] # Unread /\ mem'[g]["live"]["token"] >= mem[g]["live"]["token"]
  <2>1. CASE g = f
    BY <1>2, <1>3, <2>1 DEF Touches
  <2>2. CASE g # f
    BY <1>2, <1>3, <2>2 DEF Touches
  <2> QED BY <2>1, <2>2
<1> QED BY <1>3 DEF Newer

\* getCached(), with or without a reset of the file.
LEMMA GetNewer ==
    ASSUME Inv, NEW l \in Logins, NEW r, r.flow \in Flows, NEW c \in Caches, NEW ok, NEW bad,
           GetCached(l, r, c, ok, bad), issued' = issued
    PROVE  Newer
<1> DEFINE f == r.flow
<1>1. CASE mem[f][c] = Unread /\ ~Readable(c)
  <2>1. mem' = mem
    BY <1>1 DEF GetCached
  <2> QED BY <2>1, SameNewer
<1>2. CASE mem[f][c] # Unread \/ Readable(c)
  <2>1. mem' = [mem EXCEPT ![f][c] = Visible(f, c)]
    BY <1>2 DEF GetCached
  <2>2. \A s : Touches(f, s)
    BY <1>2, <2>1, ReadTouches
  <2> QED BY <2>2, TouchNewer
<1> QED BY <1>1, <1>2

\* setCachedPartial() with a token that was issued just now, or an Xbox token.
LEMMA SetNewer ==
    ASSUME Inv, NEW f \in Flows, NEW c, NEW name, NEW k, SetCachedPartial(f, c, name, k),
           \/ c = "live" /\ name = "token" /\ k = issued' /\ Issue
           \/ c = "xbl" /\ name \in Names \ {"token"} /\ k = 1 /\ issued' = issued
    PROVE  Newer
<1>1. issued \in Nat /\ issued \in 0..MaxTokens
  BY NameFacts DEF Inv, Typed
<1>2. issued' \in Nat /\ issued <= issued' /\ k \in 0..MaxTokens /\ name \in Names /\ c \in Caches
  BY <1>1, NameFacts DEF Issue, Caches
<1>3. \A s : s.pc \in Busy /\ s.cache = c => Touches(f, s)
  BY <1>2, PartialTouches
<1>4. Touches(f, [pc |-> "open", cache |-> c])
  BY <1>3 DEF Busy
<1> QED BY <1>4, TouchNewer

\* The flow of a login that is under way.
LEMMA TurnPlaced ==
    ASSUME Inv, NEW l \in Logins, NEW w, Turn(l, w), w \notin Ended
    PROVE  job[l].flow \in Flows
BY DEF Inv, Logs, Sound, Placed, Turn

\* The answer to a renewal stores a newer token.
LEMMA RefreshedNewer ==
    ASSUME Inv, NEW l \in Logins, NEW w \in {"forcing", "renewing"}, NEW ok, NEW bad,
           Refreshed(l, w, ok, bad)
    PROVE  Newer
<1>1. job[l].flow \in Flows
  BY TurnPlaced DEF Refreshed, Ended
<1> QED BY <1>1, SetNewer, SameNewer DEF Refreshed

\* The reactions.
LEMMA ReactionNewer ==
    ASSUME Inv, NEW l \in Logins, Reaction(l)
    PROVE  Newer
<1> DEFINE r == job[l]
           f == r.flow
<1>1. "live" \in Caches /\ "xbl" \in Caches /\ r \in Job
  BY DEF Caches, Inv, Typed
<1>2. CASE Open(l) \/ ResetXbl(l) \/ Created(l) \/ PollWait(l)
  <2>1. mem' = mem
    BY <1>2 DEF Open, ResetXbl, Created, PollWait
  <2> QED BY <2>1, SameNewer
<1>3. CASE Begin(l)
  <2>1. f \in Flows
    BY <1>3, TurnPlaced DEF Begin, Ended
  <2> QED BY <1>1, <1>3, <2>1, GetNewer DEF Begin, Quiet
<1>4. CASE Proceed(l) \/ Verified(l)
  <2>1. f \in Flows
    BY <1>4, TurnPlaced DEF Proceed, Verified, Ended
  <2> QED BY <1>1, <1>4, <2>1, GetNewer DEF Proceed, Verified, Quiet
<1>5. CASE Access(l)
  <2>1. f \in Flows /\ issued' = issued
    BY <1>5, TurnPlaced DEF Access, Quiet, Ended
  <2>2. PICK a : GetCached(l, [r EXCEPT !.access = a], "live", "refresh", "attemptFailed")
    BY <1>5 DEF Access
  <2>3. [r EXCEPT !.access = a].flow = f
    BY <1>1 DEF Job
  <2> QED BY <1>1, <2>1, <2>2, <2>3, GetNewer
<1>6. CASE Verify(l)
  <2> DEFINE q == [r EXCEPT !.access = "none", !.snap = Empty]
  <2>1. f \in Flows /\ issued' = issued
    BY <1>6, TurnPlaced DEF Verify, Quiet, Ended
  <2>2. q.flow = f
    BY <1>1 DEF Job
  <2>3. GetCached(l, q, "live", "renew", "device") \/ mem' = mem
    BY <1>6 DEF Verify
  <2> HIDE DEF q
  <2> QED BY <1>1, <2>1, <2>2, <2>3, GetNewer, SameNewer
<1>7. ASSUME NEW q \in Job, q.flow \in Flows, NEW force, Attempt(l, q, force), issued' = issued
      PROVE  Newer
  <2> DEFINE s == [q EXCEPT !.toks = q.held, !.had = Visible(q.flow, "live")["token"] # 0,
                            !.refused = FALSE, !.renewed = FALSE, !.codeExpired = FALSE]
  <2>1. s.flow = q.flow
    BY DEF Job
  <2>2. \/ GetCached(l, s, "live", "forced", "proceed")
        \/ GetCached(l, s, "live", "access", "attemptFailed")
    BY <1>7 DEF Attempt
  <2> HIDE DEF s
  <2> QED BY <1>1, <1>7, <2>1, <2>2, GetNewer
<1>8. CASE CachedTokens(l)
  <2>1. f \in Flows /\ issued' = issued
    BY <1>8, TurnPlaced DEF CachedTokens, Quiet, Ended
  <2>2. ASSUME NEW held \in ValidOnes(r.snap, ToSet(Keys)),
               Attempt(l, [r EXCEPT !.held = held], forceRefresh[f])
        PROVE  Newer
    <3>1. held \in Content
      BY <1>1, <2>2, NameFacts DEF ValidOnes, Content, Job
    <3>2. [r EXCEPT !.held = held] \in Job /\ [r EXCEPT !.held = held].flow = f
      BY <1>1, <3>1 DEF Job
    <3> QED BY <1>7, <2>1, <2>2, <3>2
  <2>3. CASE mem' = mem
    BY <2>3, SameNewer
  <2> QED BY <1>8, <2>2, <2>3 DEF CachedTokens
<1>9. CASE Delay(l)
  <2>1. f \in Flows /\ issued' = issued /\ Attempt(l, r, TRUE)
    BY <1>9, TurnPlaced DEF Delay, Ended
  <2> QED BY <1>1, <1>7, <2>1
<1>10. CASE Write(l)
  <2>1. f \in Flows /\ r.cache \in Caches
    BY <1>10, OnlyWriter DEF Write, Busy
  <2> DEFINE c == r.cache
             old == mem[f][c]
             new == IF old = Unread THEN Empty ELSE old
  <2>2. mem' = mem \/ mem' = [mem EXCEPT ![f][c] = new]
    BY <1>10 DEF Write
  <2>3. mem \in [Flows -> [Caches -> Content \cup {Unread}]]
    BY DEF Inv, Typed
  <2>4. CASE mem' = mem
    BY <2>4, SameNewer
  <2>5. CASE mem' = [mem EXCEPT ![f][c] = new]
    <3>1. ASSUME NEW g \in Flows, mem[g]["live"] # Unread PROVE mem'[g]["live"] = mem[g]["live"]
      BY <1>1, <2>1, <2>3, <2>5, <3>1
    <3>2. \A g \in Flows : mem[g]["live"] # Unread => mem[g]["live"]["token"] \in Nat
      BY <1>1, <2>3, NameFacts
    <3> QED BY <3>1, <3>2 DEF Newer
  <2> QED BY <2>2, <2>4, <2>5
<1> QED BY <1>2, <1>3, <1>4, <1>5, <1>6, <1>8, <1>9, <1>10 DEF Reaction

\* The answers of services.
LEMMA AnswerNewer ==
    ASSUME Inv, NEW l \in Logins, Answer(l)
    PROVE  Newer
<1>1. CASE Forcing(l) \/ Renewing(l)
  BY <1>1, RefreshedNewer DEF Forcing, Renewing
<1>2. CASE Device(l) \/ Chain(l)
  <2>1. mem' = mem
    BY <1>2 DEF Device, Chain
  <2> QED BY <2>1, SameNewer
<1>3. CASE Polling(l)
  <2>1. job[l].flow \in Flows
    BY <1>3, TurnPlaced DEF Polling, Ended
  <2> QED BY <1>3, <2>1, SetNewer, SameNewer DEF Polling
<1>4. ASSUME NEW name \in Names \ {"token"}, AskFor(l, name) PROVE Newer
  <2>1. job[l].flow \in Flows /\ issued' = issued
    BY <1>4, TurnPlaced DEF AskFor, Quiet, Ended
  <2>2. SetCachedPartial(job[l].flow, "xbl", name, 1) \/ mem' = mem
    BY <1>4 DEF AskFor
  <2> QED BY <2>1, <2>2, SetNewer, SameNewer
<1>5. CASE Asking(l) \/ AskingXsts(l)
  <2>1. ToSet(Keys) \cup {Xsts} \subseteq Names \ {"token"}
    BY NameAssumption, NameFacts
  <2> QED BY <1>4, <1>5, <2>1 DEF Asking, AskingXsts
<1> QED BY <1>1, <1>2, <1>3, <1>5 DEF Answer

\* For as long as a flow is there, the MSA token it knows is replaced only by
\* one that was issued later: neither a read, a reset of a file, a write that
\* fails nor another login of the flow brings an older token back or loses the
\* one in memory.  This is why a renewed token is still there when it is read
\* again, although nobody waits for updateCache().
THEOREM TokensOnlyNewer == Spec => [][Newer]_vars
<1>1. ASSUME Inv, Next PROVE Newer
  <2>1. ASSUME NEW call \in scenario.calls, Start(call[1], call[2], call[3]) PROVE Newer
    <3>1. mem' = mem
      BY <2>1 DEF Start
    <3> QED BY <1>1, <3>1, SameNewer
  <2>2. ASSUME NEW l \in Logins, CodeExpires(l) PROVE Newer
    <3>1. mem' = mem
      BY <2>2 DEF CodeExpires
    <3> QED BY <1>1, <3>1, SameNewer
  <2>3. ASSUME NEW f \in Flows, Crash(f) PROVE Newer
    <3>1. alive \in [Flows -> {"no", "creating", "yes"}]
          /\ mem \in [Flows -> [Caches -> Content \cup {Unread}]] /\ "live" \in Caches
      BY <1>1 DEF Inv, Typed, Caches
    <3>2. alive'[f] = "no" /\ \A g \in Flows : g # f => mem'[g] = mem[g]
      BY <2>3, <3>1 DEF Crash
    <3>3. \A g \in Flows : mem[g]["live"] # Unread => mem[g]["live"]["token"] \in Nat
      BY <3>1, NameFacts
    <3> QED BY <3>2, <3>3 DEF Newer
  <2> QED BY <1>1, <2>1, <2>2, <2>3, ReactionNewer, AnswerNewer DEF Next
<1>2. Inv /\ [Next]_vars => [Newer]_vars
  BY <1>1
<1> QED BY <1>2, Invariance, PTL DEF Spec
=============================================================================
