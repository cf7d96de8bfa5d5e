----------------------------- MODULE ChunkCache -----------------------------
(***************************************************************************)
(* Chunks through the client's blob cache (BedrockNetworkClient.cpp,       *)
(* handleLevelChunk() to tryStoreCachedSubChunk()): a packet names blobs   *)
(* by their hash, the client tells which ones it has and misses, and the   *)
(* packets wait until client_cache_miss_response has brought the rest.     *)
(*                                                                         *)
(* A blob stands for its contents, so it is its own hash.  The handlers    *)
(* run on the transport's worker, one packet at a time; a step is one      *)
(* packet, or one round of a loop of its handler.  The server is external: *)
(* it sends what a script says and answers the blobs the client misses,    *)
(* all at once, one by one, without repetitions or only those it has not   *)
(* yet sent.                                                               *)
(***************************************************************************)
EXTENDS Naturals, Sequences, SequencesExt, FiniteSets, Functions

CONSTANTS
    Columns,        \* chunk columns
    Heights,        \* section numbers, from 0
    SectionBlobs, BiomeBlobs,
    OwnHeight,      \* the height stored in a section blob (version 9), or NoHeight
    NoHeight,       \* the height of a section blob of version 8
    Biomes,         \* the place of the biomes in a column
    Scripts         \* what the server may send: sequences of packets

Blobs == SectionBlobs \cup BiomeBlobs
Nothing == "nothing"
Air == "air"
Entries == [col : Columns, y : Heights, result : {"ok", "air", "other", "bad"},
            blob : SectionBlobs]

ASSUME BlobAssumption ==
    /\ SectionBlobs \cap BiomeBlobs = {}
    /\ OwnHeight \in [SectionBlobs -> Heights \cup {NoHeight}]
ASSUME HeightAssumption ==
    Heights \subseteq Nat /\ NoHeight \notin Heights /\ Biomes \notin Heights
ASSUME ScriptAssumption == \A s \in Scripts :
    /\ Len(s) \in Nat /\ DOMAIN s = 1..Len(s)
    /\ \A n \in DOMAIN s :
         \/ /\ s[n].kind = "level"
            /\ s[n].col \in Columns /\ s[n].cached \in BOOLEAN /\ s[n].bad \in BOOLEAN
            /\ s[n].sections \in Seq(SectionBlobs) /\ s[n].biomes \in BiomeBlobs
         \/ /\ s[n].kind = "sub" /\ s[n].cached \in BOOLEAN
            /\ s[n].entries \in Seq(Entries)

\* The height of the i-th section of a column: its own, or that of its place.
HeightAt(sections, i) ==
    IF OwnHeight[sections[i]] = NoHeight THEN i - 1 ELSE OwnHeight[sections[i]]

\* A level_chunk has no two sections for one height.
ASSUME ColumnAssumption ==
    \A s \in Scripts : \A n \in DOMAIN s : s[n].kind = "level" =>
        \A i, j \in DOMAIN s[n].sections :
            HeightAt(s[n].sections, i) = HeightAt(s[n].sections, j)
            => s[n].sections[i] = s[n].sections[j]

VARIABLES
    script,     \* the packets of this behaviour
    sent,       \* how many of them the server has sent
    toClient,   \* packets on their way to the client
    toServer,   \* client_cache_blob_status packets on their way to the server
    given,      \* blobs the server has answered
    store,      \* blobStore_
    meta,       \* pendingBlobMetadata_
    pendL,      \* pendingCachedLevelChunks_
    pendS,      \* pendingCachedSubChunks_
    at,         \* the loop the worker is in, or "idle"
    todo,       \* what that loop has still to go through
    still,      \* stillPending, stillPendingSubChunks
    miss, asks, \* cacheStatus: its missing blobs, and that it is not empty
    world,      \* world_
    shown,      \* history: the pieces that were written into the world
    failed,     \* history: a handler has thrown
    garbled,    \* history: a piece was not written as it was meant
    twice       \* history: a blob was answered a second time

network == <<script, sent, given, twice>>
cache == <<store, meta>>
pending == <<pendL, pendS>>
chunks == <<world, shown, garbled>>
loop == <<at, todo, still, miss, asks>>
vars == <<network, toClient, toServer, cache, pending, loop, chunks, failed>>

Cells == Columns \X (Heights \cup {Biomes})
Info == [type : {"section", "biomes"}, y : Nat]
NoInfo == [type |-> "none", y |-> 0]
Section(y) == [type |-> "section", y |-> y]
BiomeInfo == [type |-> "biomes", y |-> 0]

-----------------------------------------------------------------------------
(* What a packet says.                                                     *)

Hashes(n) == Append(script[n].sections, script[n].biomes)
EntryOf(p) == script[p[1]].entries[p[2]]

\* A whole column: the given sections and biomes, and nothing else.
ColumnOf(col, sections, biomes) ==
    [c \in {col} \X (Heights \cup {Biomes}) |->
        IF c[2] = Biomes THEN biomes
        ELSE IF c[2] \in DOMAIN sections THEN sections[c[2]] ELSE Nothing]

\* The cells a level_chunk is meant to fill: its column.
LevelFills(m) ==
    LET places == DOMAIN m.sections IN
    ColumnOf(m.col,
             [y \in {HeightAt(m.sections, i) : i \in places} |->
                 m.sections[CHOOSE i \in places : HeightAt(m.sections, i) = y]],
             m.biomes)

\* The section of an entry of a subchunk packet, in the cell of this height.
EntryFills(e, y) ==
    [c \in {<<e.col, y>>} |-> IF e.result = "air" THEN Air ELSE e.blob]

\* It is meant for the height the packet names.
Meant(p) ==
    IF script[p[1]].kind = "level" THEN LevelFills(script[p[1]])
    ELSE EntryFills(EntryOf(p), EntryOf(p).y)

\* The height stored in a blob goes before the one the packet names.
DecodedY(e) ==
    IF e.result = "air" \/ OwnHeight[e.blob] = NoHeight THEN e.y ELSE OwnHeight[e.blob]

\* The pieces of the n-th packet that fill something.
PiecesOf(n) ==
    IF script[n].kind = "level" THEN {<<n, 1>>}
    ELSE {<<n, i>> : i \in {j \in DOMAIN script[n].entries :
                               script[n].entries[j].result # "other"}}

Announced == UNION {PiecesOf(n) : n \in 1..sent}

-----------------------------------------------------------------------------
(* The loops of the handlers: where a handler is and its locals.           *)

Running(l) == at = l /\ todo # <<>>
Over(l) == at = l /\ todo = <<>>

StartLoop(l, list) ==
    /\ at' = l /\ todo' = list
    /\ still' = <<>> /\ miss' = <<>> /\ asks' = FALSE

NextRound == todo' = Tail(todo) /\ UNCHANGED <<at, still, miss, asks>>

\* A round whose element is kept in still.
KeepForLater ==
    /\ todo' = Tail(todo) /\ still' = Append(still, Head(todo))
    /\ UNCHANGED <<at, miss, asks>>

Return == StartLoop("idle", <<>>)

Init ==
    /\ script \in Scripts /\ sent = 0
    /\ toClient = <<>> /\ toServer = <<>> /\ given = {}
    /\ store = [b \in Blobs |-> NoInfo] /\ meta = [b \in Blobs |-> NoInfo]
    /\ pendL = <<>> /\ pendS = <<>>
    /\ at = "idle" /\ todo = <<>> /\ still = <<>> /\ miss = <<>> /\ asks = FALSE
    /\ world = [x \in Cells |-> Nothing]
    /\ shown = {} /\ failed = FALSE /\ garbled = FALSE /\ twice = FALSE

Has(h) == store[h] # NoInfo

\* The blobs among these that the client lacks, each at its place in the list.
Missing(hashes) == Restrict(hashes, {i \in DOMAIN hashes : ~Has(hashes[i])})

\* The contents that a piece brings are written into the world.
Write(p, cells) ==
    /\ world' = [x \in Cells |-> IF x \in DOMAIN cells THEN cells[x] ELSE world[x]]
    /\ shown' = shown \cup {p}
    /\ garbled' = (garbled \/ cells # Meant(p))

\* The catch block of the handler: what its loops have collected is lost.
Throw ==
    /\ failed' = TRUE /\ Return
    /\ UNCHANGED <<chunks, pending>>

-----------------------------------------------------------------------------
(* tryStoreLevelChunk() and networkDecodeCached().                         *)

\* The blobs are noted with their type and height, a later one over an
\* earlier one.
Noted(n) ==
    [h \in Blobs |->
        LET places == {i \in DOMAIN Hashes(n) : Hashes(n)[i] = h} IN
        IF places = {} THEN meta[h]
        ELSE IF Max(places) <= Len(script[n].sections) THEN Section(Max(places) - 1)
        ELSE BiomeInfo]

\* The sections among the blobs, as the cache types them.
KnownSections(n) == {h \in ToSet(script[n].sections) : store[h].type = "section"}

\* A section goes to the height that is stored in it, or else in the cache.
Decoded(n) ==
    LET height(h) == IF OwnHeight[h] = NoHeight THEN store[h].y ELSE OwnHeight[h]
    IN ColumnOf(script[n].col,
                [y \in {height(h) : h \in KnownSections(n)} |->
                    CHOOSE h \in KnownSections(n) : height(h) = y],
                script[n].biomes)

Waits(n) == script[n].cached /\ ~script[n].bad /\ Missing(Hashes(n)) # <<>>

\* A section that the cache takes for biomes may or may not survive being
\* read as such.
MayThrow(n) ==
    script[n].bad \/ (script[n].cached /\ KnownSections(n) # ToSet(script[n].sections))
MayStore(n) == ~script[n].bad

\* Mutant: the status names the blobs the client has as the missing ones.
TryLevelChunkMutant(n) ==
    IF script[n].cached
    THEN /\ meta' = Noted(n)
         /\ toServer' = Append(toServer, Restrict(Hashes(n),
                            {i \in DOMAIN Hashes(n) : Has(Hashes(n)[i])}))
    ELSE UNCHANGED <<meta, toServer>>

\* Every try notes the blobs and sends the status, whatever comes of it.
TryLevelChunk(n) ==
    IF script[n].cached
    THEN meta' = Noted(n) /\ toServer' = Append(toServer, Missing(Hashes(n)))
    ELSE UNCHANGED <<meta, toServer>>

StoreLevelChunk(n) ==
    Write(<<n, 1>>, IF script[n].cached THEN Decoded(n) ELSE Meant(<<n, 1>>))

HandleLevelChunk ==
    /\ at = "idle" /\ toClient # <<>> /\ toClient' = Tail(toClient)
    /\ LET n == Head(toClient).chunk IN
       /\ n # 0 /\ script[n].kind = "level"
       /\ TryLevelChunk(n)
       /\ \/ /\ Waits(n) /\ pendL' = Append(pendL, n)
             /\ UNCHANGED <<loop, chunks, pendS, failed>>
          \/ /\ ~Waits(n) /\ MayStore(n) /\ StoreLevelChunk(n)
             /\ UNCHANGED <<loop, pending, failed>>
          \/ ~Waits(n) /\ MayThrow(n) /\ Throw
    /\ UNCHANGED <<network, store>>

-----------------------------------------------------------------------------
(* handleSubChunk() and tryStoreCachedSubChunk().                          *)

HandleSubChunk ==
    /\ at = "idle" /\ toClient # <<>> /\ toClient' = Tail(toClient)
    /\ LET n == Head(toClient).chunk IN
       /\ n # 0 /\ script[n].kind = "sub"
       /\ StartLoop("entries", [i \in DOMAIN script[n].entries |-> <<n, i>>])
    /\ UNCHANGED <<network, toServer, cache, pending, chunks, failed>>

\* A blob that is there must be a section and its contents must decode.
SubChunkFails(p) ==
    EntryOf(p).result = "bad" \/ store[EntryOf(p).blob].type # "section"

StoreSubChunk(p) == Write(p, EntryFills(EntryOf(p), DecodedY(EntryOf(p))))

\* The round of an entry that needs no blob.
PlainEntry ==
    LET p == Head(todo) IN
    /\ Running("entries")
    /\ EntryOf(p).result \in {"air", "other"} \/ ~script[p[1]].cached
    /\ \/ /\ EntryOf(p).result = "other"
          /\ NextRound
          /\ UNCHANGED <<chunks, pending, failed>>
       \/ /\ EntryOf(p).result \in {"air", "ok"} /\ StoreSubChunk(p)
          /\ NextRound
          /\ UNCHANGED <<pending, failed>>
       \/ EntryOf(p).result = "bad" /\ Throw
    /\ UNCHANGED <<network, toClient, toServer, cache>>

\* The round of an entry that names a blob: it is noted, and the section is
\* stored, which forgets the note, or waits.
CachedEntry ==
    LET p == Head(todo)
        h == EntryOf(p).blob
    IN
    /\ Running("entries")
    /\ EntryOf(p).result \in {"ok", "bad"} /\ script[p[1]].cached
    /\ \/ /\ ~Has(h)
          /\ meta' = [meta EXCEPT ![h] = Section(EntryOf(p).y)]
          /\ pendS' = Append(pendS, p)
          /\ todo' = Tail(todo) /\ miss' = Append(miss, h) /\ asks' = TRUE
          /\ UNCHANGED <<at, still>>
          /\ UNCHANGED <<pendL, chunks, failed>>
       \/ /\ Has(h) /\ ~SubChunkFails(p) /\ StoreSubChunk(p)
          /\ meta' = [meta EXCEPT ![h] = NoInfo]
          /\ todo' = Tail(todo) /\ asks' = TRUE /\ UNCHANGED <<at, still, miss>>
          /\ UNCHANGED <<pending, failed>>
       \/ /\ Has(h) /\ SubChunkFails(p) /\ Throw
          /\ meta' = [meta EXCEPT ![h] = Section(EntryOf(p).y)]
    /\ UNCHANGED <<network, toClient, toServer, store>>

\* One status for the whole packet.
SubChunkStatus ==
    /\ Over("entries") /\ Return
    /\ toServer' = IF asks THEN Append(toServer, miss) ELSE toServer
    /\ UNCHANGED <<network, toClient, cache, pending, chunks, failed>>

-----------------------------------------------------------------------------
(* handleClientCacheMissResponse().                                        *)

HandleClientCacheMissResponse ==
    /\ at = "idle" /\ toClient # <<>> /\ Head(toClient).chunk = 0
    /\ toClient' = Tail(toClient)
    /\ StartLoop("blobs", Head(toClient).blobs)
    /\ UNCHANGED <<network, toServer, cache, pending, chunks, failed>>

\* Mutant: the note is erased before it is read.
StoreBlobMutant ==
    LET h == Head(todo) IN
    /\ Running("blobs")
    /\ store' = [store EXCEPT ![h] = BiomeInfo]
    /\ meta' = [meta EXCEPT ![h] = NoInfo]
    /\ NextRound
    /\ UNCHANGED <<network, toClient, toServer, pending, chunks, failed>>

\* A blob is stored with what was noted of it, or else as biomes.
StoreBlob ==
    LET h == Head(todo) IN
    /\ Running("blobs")
    /\ store' = [store EXCEPT ![h] = IF meta[h] = NoInfo THEN BiomeInfo ELSE meta[h]]
    /\ meta' = [meta EXCEPT ![h] = NoInfo]
    /\ NextRound
    /\ UNCHANGED <<network, toClient, toServer, pending, chunks, failed>>

RetryLevelChunks ==
    /\ Over("blobs")
    /\ StartLoop("levels", pendL)
    /\ UNCHANGED <<network, toClient, toServer, cache, pending, chunks, failed>>

RetryLevelChunk ==
    LET n == Head(todo) IN
    /\ Running("levels")
    /\ TryLevelChunk(n)
    /\ \/ /\ Waits(n)
          /\ KeepForLater
          /\ UNCHANGED <<pending, chunks, failed>>
       \/ /\ ~Waits(n) /\ MayStore(n) /\ StoreLevelChunk(n)
          /\ NextRound
          /\ UNCHANGED <<pending, failed>>
       \/ ~Waits(n) /\ MayThrow(n) /\ Throw
    /\ UNCHANGED <<network, toClient, store>>

\* Mutant: chunks that were stored stay in the list.
RetrySubChunksMutant ==
    /\ Over("levels")
    /\ StartLoop("subs", pendS)
    /\ UNCHANGED <<network, toClient, toServer, cache, pending, chunks, failed>>

RetrySubChunks ==
    /\ Over("levels")
    /\ pendL' = still
    /\ StartLoop("subs", pendS)
    /\ UNCHANGED <<network, toClient, toServer, cache, pendS, chunks, failed>>

RetrySubChunk ==
    LET p == Head(todo)
        h == EntryOf(p).blob
    IN
    /\ Running("subs")
    /\ \/ /\ ~Has(h)
          /\ KeepForLater
          /\ UNCHANGED <<meta, pending, chunks, failed>>
       \/ /\ Has(h) /\ ~SubChunkFails(p) /\ StoreSubChunk(p)
          /\ meta' = [meta EXCEPT ![h] = NoInfo]
          /\ NextRound
          /\ UNCHANGED <<pending, failed>>
       \/ Has(h) /\ SubChunkFails(p) /\ Throw /\ UNCHANGED meta
    /\ UNCHANGED <<network, toClient, toServer, store>>

\* Mutant: subchunks that still wait are dropped with the others.
RetriesEndMutant ==
    /\ Over("subs") /\ Return
    /\ pendS' = <<>>
    /\ UNCHANGED <<network, toClient, toServer, cache, pendL, chunks, failed>>

RetriesEnd ==
    /\ Over("subs") /\ Return
    /\ pendS' = still
    /\ UNCHANGED <<network, toClient, toServer, cache, pendL, chunks, failed>>

Handle ==
    \/ HandleLevelChunk
    \/ HandleSubChunk \/ PlainEntry \/ CachedEntry \/ SubChunkStatus
    \/ HandleClientCacheMissResponse \/ StoreBlob
    \/ RetryLevelChunks \/ RetryLevelChunk
    \/ RetrySubChunks \/ RetrySubChunk \/ RetriesEnd

-----------------------------------------------------------------------------
(* The server.                                                             *)

\* The next packet of the script.
Send ==
    /\ sent < Len(script)
    /\ sent' = sent + 1
    /\ toClient' = Append(toClient, [chunk |-> sent', blobs |-> <<>>])
    /\ UNCHANGED <<script, given, twice, toServer, cache, pending, loop, chunks, failed>>

\* One packet for these blobs, none for no blobs.
Packed(blobs) == IF blobs = <<>> THEN <<>> ELSE <<blobs>>

\* The answers a server may give to a client that misses these blobs.
Answers(missing) ==
    LET places == SetToSeq(DOMAIN missing)
        all == [i \in DOMAIN places |-> missing[places[i]]]
        distinct == SetToSeq(Range(missing))
        fresh == SetToSeq(Range(missing) \ given)
    IN {Packed(all), Packed(distinct), Packed(fresh),
        [i \in DOMAIN distinct |-> <<distinct[i]>>]}

\* The blobs of an answer; some blob has two places in its packets.
Answered(a) == UNION {Range(a[i]) : i \in DOMAIN a}
Repeats(a) ==
    \E i, j \in DOMAIN a : \E k \in DOMAIN a[i], l \in DOMAIN a[j] :
        a[i][k] = a[j][l] /\ <<i, k>> # <<j, l>>

Answer ==
    /\ toServer # <<>> /\ toServer' = Tail(toServer)
    /\ \E a \in Answers(Head(toServer)) :
         /\ toClient' = toClient \o [i \in DOMAIN a |-> [chunk |-> 0, blobs |-> a[i]]]
         /\ given' = given \cup Answered(a)
         /\ twice' = (twice \/ Repeats(a) \/ Answered(a) \cap given # {})
    /\ UNCHANGED <<script, sent, cache, pending, loop, chunks, failed>>

Next == Handle \/ Send \/ Answer

\* Packets are handled and misses are answered; the server need not send more.
Fairness == WF_vars(Handle) /\ WF_vars(Answer)

Spec == Init /\ [][Next]_vars /\ Fairness

-----------------------------------------------------------------------------
\* The type invariant.
TypeOK ==
    /\ script \in Scripts /\ sent \in 0..Len(script)
    /\ toClient \in Seq([chunk : 0..sent, blobs : Seq(Blobs)])
    /\ UNION {Range(toServer[i]) : i \in DOMAIN toServer} \subseteq Blobs
    /\ given \subseteq Blobs
    /\ store \in [Blobs -> Info \cup {NoInfo}] /\ meta \in [Blobs -> Info \cup {NoInfo}]
    /\ pendL \in Seq(1..sent) /\ ToSet(pendS) \subseteq Announced
    /\ at \in {"idle", "entries", "blobs", "levels", "subs"}
    /\ at = "idle" => todo = <<>> /\ still = <<>> /\ miss = <<>> /\ ~asks
    /\ world \in [Cells -> Blobs \cup {Air, Nothing}]
    /\ shown \subseteq Announced
    /\ {failed, garbled, twice} \subseteq BOOLEAN

\* A pending packet waits only for blobs that the client has asked for or that
\* are on their way, until a handler has thrown: a subchunk packet that fails
\* half-way never asks for the blobs its first entries wait for.
Coming(h) ==
    \/ \E i \in DOMAIN toServer : h \in Range(toServer[i])
    \/ \E i \in DOMAIN toClient : h \in ToSet(toClient[i].blobs)
PendingComing ==
    ~failed /\ at = "idle" =>
        /\ \A n \in ToSet(pendL) :
               /\ Missing(Hashes(n)) # <<>>
               /\ \A h \in Range(Missing(Hashes(n))) : Coming(h)
        /\ \A p \in ToSet(pendS) : ~Has(EntryOf(p).blob) /\ Coming(EntryOf(p).blob)

\* No pending packet waits for a blob that was forgotten, and nothing is kept
\* between two packets that belongs to the handling of one.
NoForgottenBlob == TypeOK /\ PendingComing

\* The heights at which the packets that use the cache name a section blob.
HeightsOf(b) ==
    UNION {IF script[n].kind = "level"
           THEN {i - 1 : i \in {j \in DOMAIN script[n].sections : script[n].sections[j] = b}}
           ELSE {e.y : e \in {f \in ToSet(script[n].entries) :
                                f.blob = b /\ f.result \in {"ok", "bad"}}} :
           n \in {m \in 1..sent : script[m].cached}}

\* A section blob that carries no height of its own is named at two heights.
SharedSection ==
    \E b \in SectionBlobs :
        OwnHeight[b] = NoHeight /\ \E x, y \in HeightsOf(b) : x # y

\* A subchunk packet names a section blob at another height than the blob's own.
Misplaced ==
    \E n \in 1..sent : script[n].kind = "sub" /\
        \E i \in DOMAIN script[n].entries :
            LET e == script[n].entries[i] IN
            e.result = "ok" /\ OwnHeight[e.blob] \notin {NoHeight, e.y}

BadSent ==
    \E n \in 1..sent :
        IF script[n].kind = "level" THEN script[n].bad
        ELSE \E i \in DOMAIN script[n].entries : script[n].entries[i].result = "bad"

\* Nothing fails and nothing is stored wrongly by itself: only after
\* a packet that cannot be decoded, after a blob that was answered twice (the
\* second answer finds no note and makes a section biomes), when a section
\* without a height of its own is used at two heights, or when a subchunk packet
\* names a section at a height that is not its own.
OnlyKnownFailures ==
    /\ failed => BadSent \/ twice
    /\ garbled => twice \/ SharedSection \/ Misplaced

\* Every piece the server announced is in the world eventually, whatever
\* waits for whatever, until a handler has failed.
AllShown ==
    <>[](failed \/ garbled \/ Announced \subseteq shown)

Filling(pieces) == {[id |-> p, fills |-> Meant(p)] : p \in pieces}
Delivery == INSTANCE ChunkDelivery WITH
    announced <- Filling(Announced), applied <- Filling(shown),
    world <- world, void <- failed \/ garbled

\* The cache delivers chunks as ChunkDelivery promises: every announced piece
\* is written once, however often its packet is tried again, and nothing else
\* changes the world until a handler fails or a column comes out wrong.
Delivers == Delivery!Spec
=============================================================================
