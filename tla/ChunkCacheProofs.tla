-------------------------- MODULE ChunkCacheProofs --------------------------
(***************************************************************************)
(* The blob cache implements ChunkDelivery, forgets no blob it asked for   *)
(* and fails for known reasons only, for every script of the server and    *)
(* every set of columns, heights and blobs.                                *)
(***************************************************************************)
EXTENDS ChunkCache, FiniteSetTheorems, SequenceTheorems,
        WellFoundedInduction, TLAPS

-----------------------------------------------------------------------------
(* Lists: their elements when one is appended or taken.                    *)

\* Lists in which no element occurs twice.
Distinct(s) == \A i, j \in DOMAIN s : s[i] = s[j] => i = j

\* The elements of a list are of the type of its elements.
LEMMA ElementsTyped ==
    ASSUME NEW S, NEW s \in Seq(S)
    PROVE  ToSet(s) \subseteq S
BY DEF ToSet

\* The empty list has no elements.
LEMMA EmptyList == ToSet(<<>>) = {} /\ Distinct(<<>>)
BY DEF ToSet, Distinct

\* A new element at the end of a list.
LEMMA Appended ==
    ASSUME NEW S, NEW s \in Seq(S), NEW d \in S, Distinct(s), d \notin ToSet(s)
    PROVE  /\ ToSet(Append(s, d)) = ToSet(s) \cup {d}
           /\ Distinct(Append(s, d))
<1> DEFINE a == Append(s, d)
<1>1. /\ DOMAIN a = 1..(Len(s) + 1) /\ DOMAIN s = 1..Len(s) /\ Len(s) \in Nat
      /\ \A i \in 1..Len(s) : a[i] = s[i]
      /\ a[Len(s) + 1] = d
  OBVIOUS
<1> HIDE DEF a
<1>2. ToSet(a) = ToSet(s) \cup {d}
  BY <1>1 DEF ToSet
<1>3. Distinct(a)
  BY <1>1 DEF ToSet, Distinct
<1> QED BY <1>2, <1>3 DEF a

\* A list and what is left of it when its first element is taken.
LEMMA FirstAndRest ==
    ASSUME NEW S, NEW s \in Seq(S), s # <<>>, Distinct(s)
    PROVE  /\ Head(s) \in S /\ Tail(s) \in Seq(S)
           /\ ToSet(s) = ToSet(Tail(s)) \cup {Head(s)}
           /\ Head(s) \notin ToSet(Tail(s))
           /\ Distinct(Tail(s))
<1> DEFINE u == Tail(s)
           n == Len(s)
<1>1. /\ n \in Nat /\ n > 0 /\ DOMAIN s = 1..n /\ Head(s) = s[1]
      /\ u \in Seq(S) /\ DOMAIN u = 1..(n - 1)
      /\ \A i \in 1..(n - 1) : u[i] = s[i + 1]
  OBVIOUS
<1>2. Head(s) \in S
  OBVIOUS
<1> HIDE DEF u, n
<1>3. \A i \in 1..n : i = 1 \/ (i - 1 \in 1..(n - 1) /\ u[i - 1] = s[i])
  BY <1>1
<1>4. \A i \in 1..(n - 1) : i + 1 \in 1..n /\ i + 1 # 1
  BY <1>1
<1>5. ToSet(s) = ToSet(u) \cup {Head(s)}
  <2>1. ToSet(s) \subseteq ToSet(u) \cup {Head(s)}
    <3> SUFFICES ASSUME NEW i \in DOMAIN s
                 PROVE  s[i] \in ToSet(u) \cup {Head(s)}
      BY DEF ToSet
    <3>1. CASE i = 1
      BY <1>1, <3>1
    <3>2. CASE i # 1
      <4>1. i - 1 \in DOMAIN u /\ u[i - 1] = s[i]
        BY <1>1, <1>3, <3>2
      <4> QED BY <4>1 DEF ToSet
    <3> QED BY <3>1, <3>2
  <2>2. 1 \in DOMAIN s
    BY <1>1
  <2>3. ToSet(u) \cup {Head(s)} \subseteq ToSet(s)
    <3>1. ASSUME NEW i \in DOMAIN u PROVE u[i] \in ToSet(s)
      <4>1. i + 1 \in DOMAIN s /\ u[i] = s[i + 1]
        BY <1>1, <1>4
      <4> QED BY <4>1 DEF ToSet
    <3>2. Head(s) \in ToSet(s)
      BY <1>1, <2>2 DEF ToSet
    <3> QED BY <3>1, <3>2 DEF ToSet
  <2> QED BY <2>1, <2>3
<1>6. Head(s) \notin ToSet(u)
  <2> SUFFICES ASSUME NEW i \in DOMAIN u PROVE u[i] # Head(s)
    BY DEF ToSet
  <2>1. i + 1 \in DOMAIN s /\ u[i] = s[i + 1] /\ i + 1 # 1 /\ 1 \in DOMAIN s
    BY <1>1, <1>4
  <2> QED BY <1>1, <2>1 DEF Distinct
<1>7. Distinct(u)
  <2> SUFFICES ASSUME NEW i \in DOMAIN u, NEW j \in DOMAIN u, u[i] = u[j]
               PROVE  i = j
    BY DEF Distinct
  <2>1. i + 1 \in DOMAIN s /\ j + 1 \in DOMAIN s /\ s[i + 1] = s[j + 1]
    BY <1>1, <1>4
  <2>2. i + 1 = j + 1
    BY <2>1 DEF Distinct
  <2> QED BY <1>1, <2>2
<1> QED BY <1>1, <1>2, <1>5, <1>6, <1>7 DEF u

\* The elements of a list with one more, whether or not it repeats.
LEMMA SetAppended ==
    ASSUME NEW S, NEW s \in Seq(S), NEW d \in S
    PROVE  ToSet(Append(s, d)) = ToSet(s) \cup {d}
<1> DEFINE a == Append(s, d)
<1>1. /\ DOMAIN a = 1..(Len(s) + 1) /\ DOMAIN s = 1..Len(s) /\ Len(s) \in Nat
      /\ \A i \in 1..Len(s) : a[i] = s[i]
      /\ a[Len(s) + 1] = d
  OBVIOUS
<1> HIDE DEF a
<1> QED BY <1>1 DEF ToSet, a

\* The elements of a list and those of its rest.
LEMMA SetRest ==
    ASSUME NEW S, NEW s \in Seq(S), s # <<>>
    PROVE  ToSet(s) = ToSet(Tail(s)) \cup {Head(s)}
<1> DEFINE u == Tail(s)
           h == Head(s)
<1>1. /\ DOMAIN u = 1..(Len(s) - 1) /\ DOMAIN s = 1..Len(s) /\ Len(s) \in Nat
      /\ \A i \in DOMAIN u : u[i] = s[i + 1] /\ i + 1 \in DOMAIN s
      /\ h = s[1] /\ 1 \in DOMAIN s
      /\ \A i \in DOMAIN s : i = 1 \/ (i - 1 \in DOMAIN u /\ u[i - 1] = s[i])
  OBVIOUS
<1> HIDE DEF u, h
<1>2. ToSet(u) \cup {h} \subseteq ToSet(s)
  BY <1>1 DEF ToSet
<1>3. ToSet(s) \subseteq ToSet(u) \cup {h}
  BY <1>1 DEF ToSet
<1> QED BY <1>2, <1>3 DEF u, h

\* The elements of two lists joined.
LEMMA SetJoined ==
    ASSUME NEW S, NEW s \in Seq(S), NEW u \in Seq(S)
    PROVE  ToSet(s \o u) = ToSet(s) \cup ToSet(u)
<1> DEFINE a == s \o u
           m == Len(s)
           n == Len(u)
<1>1. /\ m \in Nat /\ n \in Nat /\ DOMAIN s = 1..m /\ DOMAIN u = 1..n
      /\ DOMAIN a = 1..(m + n)
      /\ \A i \in 1..m : a[i] = s[i]
      /\ \A i \in (m + 1)..(m + n) : a[i] = u[i - m]
  OBVIOUS
<1>2. /\ \A i \in 1..n : i + m \in (m + 1)..(m + n) /\ (i + m) - m = i
      /\ \A i \in (m + 1)..(m + n) : i - m \in 1..n
      /\ \A i \in 1..(m + n) : i \in 1..m \/ i \in (m + 1)..(m + n)
      /\ \A i \in 1..m : i \in 1..(m + n)
      /\ \A i \in (m + 1)..(m + n) : i \in 1..(m + n)
  BY <1>1
<1> HIDE DEF a, m, n
<1>3. ToSet(a) \subseteq ToSet(s) \cup ToSet(u)
  BY <1>1, <1>2 DEF ToSet
<1>4. ToSet(s) \subseteq ToSet(a)
  BY <1>1, <1>2 DEF ToSet
<1>5. ASSUME NEW i \in 1..n PROVE u[i] \in ToSet(a)
  <2>1. i + m \in DOMAIN a /\ a[i + m] = u[i]
    BY <1>1, <1>2
  <2> QED BY <2>1 DEF ToSet
<1> QED BY <1>1, <1>3, <1>4, <1>5 DEF ToSet, a

-----------------------------------------------------------------------------

(* The level chunks, the entries of subchunk packets and those entries that *)
(* fill a section, among what the server has sent.                         *)
LevelNos == {n \in 1..sent : script[n].kind = "level"}
EntryPieces ==
    {p \in (1..sent) \X Nat : /\ script[p[1]].kind = "sub"
                              /\ p[2] \in DOMAIN script[p[1]].entries}
FillingPieces == {p \in EntryPieces : EntryOf(p).result # "other"}

Packets == [chunk : 0..sent, blobs : Seq(Blobs)]
Statuses == UNION {[I -> Blobs] : I \in {J \in SUBSET Nat : IsFiniteSet(J)}}

\* The first half of the inductive invariant: whatever is on its way, pending or
\* in the hands of a loop is something the server has sent, of the kind the
\* handler expects.
CacheInv ==
    /\ script \in Scripts /\ sent \in 0..Len(script)
    /\ toClient \in Seq(Packets) /\ toServer \in Seq(Statuses)
    /\ pendL \in Seq(LevelNos) /\ pendS \in Seq(FillingPieces)
    /\ miss \in Seq(Blobs)
    /\ at = "entries" => todo \in Seq(EntryPieces)
    /\ at = "levels" => todo \in Seq(LevelNos) /\ still \in Seq(LevelNos)
    /\ at = "subs" => todo \in Seq(FillingPieces) /\ still \in Seq(FillingPieces)
    /\ shown \subseteq Announced

\* Numbers of the chunk packets on their way; each is there once.
Arriving(c) == {c[i].chunk : i \in DOMAIN c} \ {0}
OneArrival(c) ==
    \A i, j \in DOMAIN c : c[i].chunk # 0 /\ c[i].chunk = c[j].chunk => i = j

\* What is on its way has left no trace yet.
Untouched(n) ==
    /\ n \notin ToSet(pendL)
    /\ \A p \in shown \cup ToSet(pendS) : p[1] # n
    /\ at = "entries" => \A p \in ToSet(todo) : p[1] # n

LevelShown(n) == <<n, 1>> \in shown

\* The list of pending chunks is out of date while its loop runs.
FreshLevels ==
    /\ Distinct(pendL)
    /\ at # "levels" => \A n \in ToSet(pendL) : ~LevelShown(n)
    /\ at = "levels" =>
         /\ Distinct(todo) /\ Distinct(still) /\ ToSet(todo) \cap ToSet(still) = {}
         /\ ToSet(todo) \cup ToSet(still) \subseteq ToSet(pendL)
         /\ \A n \in ToSet(todo) \cup ToSet(still) : ~LevelShown(n)

FreshSubs ==
    /\ Distinct(pendS)
    /\ at # "subs" => ToSet(pendS) \cap shown = {}
    /\ at = "subs" =>
         /\ Distinct(todo) /\ Distinct(still) /\ ToSet(todo) \cap ToSet(still) = {}
         /\ ToSet(todo) \cup ToSet(still) \subseteq ToSet(pendS)
         /\ (ToSet(todo) \cup ToSet(still)) \cap shown = {}

FreshEntries ==
    at = "entries" => Distinct(todo) /\ ToSet(todo) \cap (shown \cup ToSet(pendS)) = {}

\* The second half.  Until a handler fails, a piece is in one place: on its way,
\* in the hands of a loop, pending or in the world.
Fresh ==
    ~failed =>
        /\ OneArrival(toClient) /\ \A n \in Arriving(toClient) : Untouched(n)
        /\ FreshLevels /\ FreshSubs /\ FreshEntries

-----------------------------------------------------------------------------
\* What a list of the elements of a finite set is.
LEMMA SetToSeqType ==
    ASSUME NEW S, IsFiniteSet(S)
    PROVE  SetToSeq(S) \in Seq(S)
<1>1. Cardinality(S) \in Nat /\ ExistsBijection(1..Cardinality(S), S)
  BY FS_CardinalityType
<1>2. PICK f \in [1..Cardinality(S) -> S] : IsInjective(f)
  BY <1>1 DEF ExistsBijection, Bijection, Injection, IsInjective
<1>3. SetToSeq(S) \in [1..Cardinality(S) -> S]
  BY <1>2 DEF SetToSeq
<1> QED BY <1>1, <1>3

\* Every answer is a list of lists of blobs.
LEMMA AnswersType ==
    ASSUME NEW m \in Statuses, NEW a \in Answers(m)
    PROVE  a \in Seq(Seq(Blobs))
<1>1. PICK I : IsFiniteSet(I) /\ m \in [I -> Blobs]
  BY DEF Statuses
<1>2. DOMAIN m = I /\ Range(m) \subseteq Blobs
  BY <1>1 DEF Range
<1>3. IsFiniteSet(Range(m))
  <2>1. m \in Surjection(I, Range(m))
    BY <1>1, <1>2 DEF Surjection, Range
  <2> QED BY <1>1, <2>1, FS_Surjection
<1>4. IsFiniteSet(Range(m) \ given)
  BY <1>3, FS_Subset
<1>5. SetToSeq(I) \in Seq(I)
  BY <1>1, SetToSeqType
<1>6. SetToSeq(Range(m)) \in Seq(Blobs)
  BY <1>2, <1>3, SetToSeqType, SeqMonotonic
<1>7. SetToSeq(Range(m) \ given) \in Seq(Blobs)
  <2>1. SetToSeq(Range(m) \ given) \in Seq(Range(m) \ given)
    BY <1>4, SetToSeqType
  <2> QED BY <1>2, <2>1, SeqMonotonic
<1>8. \A b \in Seq(Blobs) : Packed(b) \in Seq(Seq(Blobs))
  BY DEF Packed
<1>9. [i \in DOMAIN SetToSeq(I) |-> m[SetToSeq(I)[i]]] \in Seq(Blobs)
  BY <1>1, <1>5
<1>10. \A t \in Seq(Blobs) : [i \in DOMAIN t |-> <<t[i]>>] \in Seq(Seq(Blobs))
  <2> TAKE t \in Seq(Blobs)
  <2>1. \A x \in Blobs : <<x>> \in Seq(Blobs)
    OBVIOUS
  <2>2. \A i \in 1..Len(t) : <<t[i]>> \in Seq(Blobs)
    BY <2>1, ElementOfSeq
  <2>3. DOMAIN t = 1..Len(t) /\ Len(t) \in Nat
    OBVIOUS
  <2> DEFINE u == [i \in DOMAIN t |-> <<t[i]>>]
  <2>4. u \in [1..Len(t) -> Seq(Blobs)]
    BY <2>2, <2>3
  <2>5. u \in Seq(Seq(Blobs))
    <3> HIDE DEF u
    <3> QED BY <2>3, <2>4
  <2> QED BY <2>5
<1> QED BY <1>2, <1>6, <1>7, <1>8, <1>9, <1>10 DEF Answers

-----------------------------------------------------------------------------
(* The sets of the invariant.                                              *)

\* They depend only on what the server has sent.
LEMMA SameSets ==
    ASSUME UNCHANGED <<script, sent>>
    PROVE  /\ LevelNos' = LevelNos /\ EntryPieces' = EntryPieces
           /\ FillingPieces' = FillingPieces /\ Packets' = Packets
           /\ Announced' = Announced /\ Statuses' = Statuses
           /\ \A p : Meant(p)' = Meant(p)
BY DEF LevelNos, EntryPieces, FillingPieces, Packets, Announced, PiecesOf,
    Statuses, EntryOf, Meant

\* A level chunk is one piece, and an entry that fills a section is one.
LEMMA PiecesAnnounced ==
    ASSUME CacheInv
    PROVE  /\ \A n \in LevelNos : <<n, 1>> \in Announced
           /\ FillingPieces \subseteq Announced
<1>1. ASSUME NEW n \in LevelNos PROVE <<n, 1>> \in Announced
  BY <1>1 DEF LevelNos, Announced, PiecesOf
<1>2. ASSUME NEW p \in FillingPieces PROVE p \in Announced
  <2>1. p[1] \in 1..sent /\ p = <<p[1], p[2]>>
    BY <1>2 DEF FillingPieces, EntryPieces
  <2>2. p \in PiecesOf(p[1])
    BY <1>2, <2>1 DEF FillingPieces, EntryPieces, PiecesOf, EntryOf
  <2> QED BY <2>1, <2>2 DEF Announced
<1> QED BY <1>1, <1>2

\* Sending adds to them.
LEMMA SendGrows ==
    ASSUME CacheInv, Send
    PROVE  /\ LevelNos \subseteq LevelNos' /\ EntryPieces \subseteq EntryPieces'
           /\ FillingPieces \subseteq FillingPieces' /\ Packets \subseteq Packets'
           /\ Announced \subseteq Announced'
<1>1. sent \in Nat /\ sent' = sent + 1 /\ script' = script
  BY ScriptAssumption DEF CacheInv, Send
<1>2. 1..sent \subseteq 1..sent' /\ 0..sent \subseteq 0..sent'
  BY <1>1
<1>3. Announced \subseteq Announced'
  BY <1>1, <1>2 DEF Announced, PiecesOf
<1>4. Packets \subseteq Packets'
  BY <1>2 DEF Packets
<1> QED BY <1>1, <1>2, <1>3, <1>4 DEF LevelNos, EntryPieces, FillingPieces, EntryOf

-----------------------------------------------------------------------------
(* CacheInv is inductive.                                                  *)

LEMMA InitCache == Init => CacheInv
<1> SUFFICES ASSUME Init PROVE CacheInv
  OBVIOUS
<1>1. script \in Scripts /\ sent \in 0..Len(script)
  BY ScriptAssumption DEF Init
<1> QED BY <1>1 DEF Init, CacheInv

\* A status names each missing blob at a place of a finite list.
LEMMA StatusType ==
    ASSUME NEW s \in Seq(Blobs)
    PROVE  s \in Statuses /\ Missing(s) \in Statuses
<1>1. DOMAIN s = 1..Len(s) /\ Len(s) \in Nat /\ s \in [1..Len(s) -> Blobs]
  OBVIOUS
<1>2. IsFiniteSet(1..Len(s))
  BY <1>1, FS_Interval
<1>3. \A J \in SUBSET (1..Len(s)) : IsFiniteSet(J)
  BY <1>2, FS_Subset
<1>4. s \in Statuses
  BY <1>1, <1>2 DEF Statuses
<1>5. Missing(s) \in Statuses
  <2> DEFINE J == {i \in DOMAIN s : ~Has(s[i])}
  <2>1. J \in SUBSET (1..Len(s)) /\ Missing(s) \in [J -> Blobs]
    BY <1>1 DEF Missing, Restrict
  <2> HIDE DEF J
  <2> QED BY <1>3, <2>1 DEF Statuses
<1> QED BY <1>4, <1>5

\* The packets of an answer.
LEMMA AnswerPackets ==
    ASSUME CacheInv, NEW a \in Seq(Seq(Blobs))
    PROVE  LET b == [i \in DOMAIN a |-> [chunk |-> 0, blobs |-> a[i]]]
           IN b \in Seq(Packets) /\ \A i \in DOMAIN b : b[i].chunk = 0
<1>1. sent \in Nat
  BY ScriptAssumption DEF CacheInv
<1>2. \A b \in Seq(Blobs) : [chunk |-> 0, blobs |-> b] \in Packets
  BY <1>1 DEF Packets
<1>3. DOMAIN a = 1..Len(a) /\ Len(a) \in Nat /\ \A i \in 1..Len(a) : a[i] \in Seq(Blobs)
  BY ElementOfSeq, LenProperties
<1> HIDE DEF Packets
<1> QED BY <1>2, <1>3

\* What the handlers do with a level chunk, and with anything they write.
LEMMA TryType ==
    ASSUME CacheInv, NEW n \in LevelNos, TryLevelChunk(n)
    PROVE  toServer' \in Seq(Statuses)
<1>1. Hashes(n) \in Seq(Blobs)
  <2>1. script[n].sections \in Seq(SectionBlobs) /\ script[n].biomes \in BiomeBlobs
    BY ScriptAssumption DEF CacheInv, LevelNos
  <2>2. script[n].sections \in Seq(Blobs) /\ script[n].biomes \in Blobs
    BY <2>1, SeqMonotonic DEF Blobs
  <2> QED BY <2>2 DEF Hashes
<1>2. Missing(Hashes(n)) \in Statuses
  BY <1>1, StatusType
<1>3. toServer \in Seq(Statuses)
  BY DEF CacheInv
<1>4. Append(toServer, Missing(Hashes(n))) \in Seq(Statuses)
  BY <1>2, <1>3
<1> QED BY <1>3, <1>4 DEF TryLevelChunk

\* Writing a piece that was announced leaves only announced pieces shown.
LEMMA WriteType ==
    ASSUME CacheInv, NEW p \in Announced, NEW c, Write(p, c)
    PROVE  shown' \subseteq Announced
BY DEF CacheInv, Write

\* After a handler has thrown its loop holds nothing.
LEMMA ThrowType ==
    ASSUME CacheInv, UNCHANGED <<script, sent>>, Throw,
           toClient' \in Seq(Packets), toServer' \in Seq(Statuses)
    PROVE  CacheInv'
BY SameSets DEF CacheInv, Throw, Return, StartLoop, pending, chunks

\* The first element of a list is one of its elements, and so are the others.
LEMMA HeadTail ==
    ASSUME NEW S, NEW s \in Seq(S), s # <<>>
    PROVE  Head(s) \in S /\ Tail(s) \in Seq(S)
BY HeadTailProperties

LEMMA CacheStep == CacheInv /\ [Next]_vars => CacheInv'
<1> SUFFICES ASSUME CacheInv, [Next]_vars PROVE CacheInv'
  OBVIOUS
<1>1. CASE Send
  <2>1. sent \in Nat /\ sent' = sent + 1 /\ script' = script /\ sent' \in 0..Len(script)
    BY <1>1, ScriptAssumption DEF CacheInv, Send
  <2>2. toClient \in Seq(Packets')
    BY <1>1, SendGrows, SeqMonotonic DEF CacheInv
  <2>3. [chunk |-> sent', blobs |-> <<>>] \in Packets'
    BY <2>1 DEF Packets
  <2>4. toClient' \in Seq(Packets')
    BY <1>1, <2>2, <2>3 DEF Send
  <2>5. Statuses' = Statuses
    BY DEF Statuses
  <2>6. /\ pendL \in Seq(LevelNos') /\ pendS \in Seq(FillingPieces')
        /\ at = "entries" => todo \in Seq(EntryPieces')
        /\ at = "levels" => todo \in Seq(LevelNos') /\ still \in Seq(LevelNos')
        /\ at = "subs" => todo \in Seq(FillingPieces') /\ still \in Seq(FillingPieces')
    BY <1>1, SendGrows, SeqMonotonic DEF CacheInv
  <2>7. shown' \subseteq Announced'
    BY <1>1, SendGrows DEF CacheInv, Send, chunks
  <2>8. UNCHANGED <<toServer, pendL, pendS, miss, at, todo, still>>
    BY <1>1 DEF Send, pending, loop
  <2>9. toServer \in Seq(Statuses) /\ miss \in Seq(Blobs) /\ script \in Scripts
    BY DEF CacheInv
  <2> QED BY <2>1, <2>4, <2>5, <2>6, <2>7, <2>8, <2>9 DEF CacheInv
<1>2. CASE UNCHANGED <<script, sent>> /\ ~Send
  <2> USE <1>2, SameSets, PiecesAnnounced
  <2>1. CASE HandleLevelChunk
    <3> DEFINE n == Head(toClient).chunk
    <3>1. toClient \in Seq(Packets) /\ toClient # <<>>
      BY <2>1 DEF HandleLevelChunk, CacheInv
    <3>2. Head(toClient) \in Packets /\ Tail(toClient) \in Seq(Packets)
      BY <3>1, HeadTail
    <3>3. n \in LevelNos
      BY <2>1, <3>2 DEF HandleLevelChunk, CacheInv, LevelNos, Packets
    <3>4. toServer' \in Seq(Statuses) /\ toClient' \in Seq(Packets)
      BY <2>1, <3>2, <3>3, TryType DEF HandleLevelChunk
    <3> HIDE DEF n
    <3>5. CASE pendL' = Append(pendL, n) /\ UNCHANGED <<loop, chunks, pendS, failed>>
      BY <3>3, <3>4, <3>5 DEF CacheInv, loop, chunks
    <3>6. CASE StoreLevelChunk(n) /\ UNCHANGED <<loop, pending, failed>>
      <4>1. shown' \subseteq Announced
        BY <3>3, <3>6, WriteType DEF StoreLevelChunk
      <4> QED BY <3>4, <3>6, <4>1 DEF CacheInv, loop, pending
    <3>7. CASE Throw
      BY <3>4, <3>7, ThrowType
    <3> QED BY <2>1, <3>5, <3>6, <3>7 DEF HandleLevelChunk, n
  <2>2. CASE HandleSubChunk
    <3> DEFINE n == Head(toClient).chunk
               list == [i \in DOMAIN script[n].entries |-> <<n, i>>]
    <3>1. toClient \in Seq(Packets) /\ toClient # <<>>
      BY <2>2 DEF HandleSubChunk, CacheInv
    <3>2. Head(toClient) \in Packets /\ toClient' \in Seq(Packets)
      BY <2>2, <3>1, HeadTail DEF HandleSubChunk
    <3>3. n \in 1..sent /\ script[n].kind = "sub"
      BY <2>2, <3>2 DEF HandleSubChunk, CacheInv, Packets
    <3>4. script[n].entries \in Seq(Entries)
      BY <3>3, ScriptAssumption DEF CacheInv
    <3> HIDE DEF n
    <3>5. list \in Seq(EntryPieces)
      <4>1. DOMAIN script[n].entries = 1..Len(script[n].entries)
            /\ Len(script[n].entries) \in Nat
        BY <3>4
      <4>2. \A i \in 1..Len(script[n].entries) : <<n, i>> \in EntryPieces
        BY <3>3, <4>1 DEF EntryPieces
      <4> QED BY <4>1, <4>2
    <3>6. StartLoop("entries", list)
      BY <2>2 DEF HandleSubChunk, n
    <3> HIDE DEF list
    <3>7. at' = "entries" /\ todo' \in Seq(EntryPieces) /\ miss' \in Seq(Blobs)
      BY <3>5, <3>6 DEF StartLoop
    <3>8. UNCHANGED <<toServer, pendL, pendS, shown>>
      BY <2>2 DEF HandleSubChunk, pending, chunks
    <3> QED BY <3>2, <3>7, <3>8 DEF CacheInv
  <2>3. CASE PlainEntry
    <3> DEFINE p == Head(todo)
    <3>1. todo \in Seq(EntryPieces) /\ todo # <<>> /\ at = "entries"
      BY <2>3 DEF PlainEntry, Running, CacheInv
    <3>2. p \in EntryPieces /\ Tail(todo) \in Seq(EntryPieces)
      BY <3>1, HeadTail
    <3> HIDE DEF p
    <3>3. UNCHANGED <<toClient, toServer>>
      BY <2>3 DEF PlainEntry
    <3>4. CASE NextRound /\ UNCHANGED <<chunks, pending, failed>>
      BY <3>1, <3>2, <3>3, <3>4 DEF CacheInv, NextRound, chunks, pending
    <3>5. CASE EntryOf(p).result \in {"air", "ok"} /\ StoreSubChunk(p) /\ NextRound
                 /\ UNCHANGED <<pending, failed>>
      <4>1. p \in Announced
        BY <3>2, <3>5 DEF FillingPieces
      <4>2. shown' \subseteq Announced
        BY <3>5, <4>1, WriteType DEF StoreSubChunk
      <4> QED BY <3>1, <3>2, <3>3, <3>5, <4>2 DEF CacheInv, NextRound, pending
    <3>6. CASE Throw
      BY <3>3, <3>6, ThrowType DEF CacheInv
    <3> QED BY <2>3, <3>4, <3>5, <3>6 DEF PlainEntry, p
  <2>4. CASE CachedEntry
    <3> DEFINE p == Head(todo)
               h == EntryOf(p).blob
    <3>1. todo \in Seq(EntryPieces) /\ todo # <<>> /\ at = "entries"
      BY <2>4 DEF CachedEntry, Running, CacheInv
    <3>2. p \in EntryPieces /\ Tail(todo) \in Seq(EntryPieces)
      BY <3>1, HeadTail
    <3> HIDE DEF p
    <3>3. UNCHANGED <<toClient, toServer>>
      BY <2>4 DEF CachedEntry
    <3>4. p \in FillingPieces
      BY <2>4, <3>2 DEF CachedEntry, FillingPieces, p
    <3>5. h \in Blobs
      <4>1. script[p[1]].entries \in Seq(Entries) /\ p[2] \in DOMAIN script[p[1]].entries
        BY <3>2, ScriptAssumption, SMTT(30) DEF CacheInv, EntryPieces
      <4>2. EntryOf(p) \in Entries
        BY <4>1, ElementOfSeq, LenProperties DEF EntryOf
      <4> QED BY <4>2 DEF Entries, Blobs
    <3> HIDE DEF h
    <3>6. CASE /\ pendS' = Append(pendS, p)
               /\ todo' = Tail(todo) /\ miss' = Append(miss, h)
               /\ UNCHANGED <<at, still>> /\ UNCHANGED <<pendL, chunks, failed>>
      BY <3>1, <3>2, <3>3, <3>4, <3>5, <3>6 DEF CacheInv, chunks
    <3>7. CASE /\ StoreSubChunk(p) /\ todo' = Tail(todo)
               /\ UNCHANGED <<at, still, miss>> /\ UNCHANGED <<pending, failed>>
      <4>1. shown' \subseteq Announced
        BY <3>4, <3>7, WriteType DEF StoreSubChunk
      <4> QED BY <3>1, <3>2, <3>3, <3>7, <4>1 DEF CacheInv, pending
    <3>8. CASE Throw
      BY <3>3, <3>8, ThrowType DEF CacheInv
    <3> QED BY <2>4, <3>6, <3>7, <3>8 DEF CachedEntry, p, h
  <2>5. CASE SubChunkStatus
    BY <2>5, StatusType DEF SubChunkStatus, CacheInv, Over, Return, StartLoop, pending, chunks
  <2>6. CASE HandleClientCacheMissResponse
    BY <2>6 DEF HandleClientCacheMissResponse, CacheInv, StartLoop, pending, chunks
  <2>7. CASE StoreBlob
    BY <2>7 DEF StoreBlob, CacheInv, Running, NextRound, pending, chunks
  <2>8. CASE RetryLevelChunks
    BY <2>8 DEF RetryLevelChunks, CacheInv, Over, StartLoop, pending, chunks
  <2>9. CASE RetryLevelChunk
    <3> DEFINE n == Head(todo)
    <3>1. todo \in Seq(LevelNos) /\ todo # <<>> /\ at = "levels" /\ still \in Seq(LevelNos)
      BY <2>9 DEF RetryLevelChunk, Running, CacheInv
    <3>2. n \in LevelNos /\ Tail(todo) \in Seq(LevelNos)
      BY <3>1, HeadTail
    <3>3. toServer' \in Seq(Statuses) /\ toClient' = toClient
      BY <2>9, <3>2, TryType DEF RetryLevelChunk
    <3>4. CASE KeepForLater /\ UNCHANGED <<pending, chunks, failed>>
      BY <3>1, <3>2, <3>3, <3>4 DEF CacheInv, KeepForLater, pending, chunks
    <3>5. CASE StoreLevelChunk(n) /\ NextRound /\ UNCHANGED <<pending, failed>>
      <4>1. shown' \subseteq Announced
        BY <3>2, <3>5, WriteType DEF StoreLevelChunk
      <4> QED BY <3>1, <3>2, <3>3, <3>5, <4>1 DEF CacheInv, NextRound, pending
    <3>6. CASE Throw
      BY <3>3, <3>6, ThrowType DEF CacheInv
    <3> QED BY <2>9, <3>4, <3>5, <3>6 DEF RetryLevelChunk
  <2>10. CASE RetrySubChunks
    BY <2>10 DEF RetrySubChunks, CacheInv, Over, StartLoop, pending, chunks
  <2>11. CASE RetrySubChunk
    <3> DEFINE p == Head(todo)
    <3>1. /\ todo \in Seq(FillingPieces) /\ todo # <<>>
          /\ at = "subs" /\ still \in Seq(FillingPieces)
      BY <2>11 DEF RetrySubChunk, Running, CacheInv
    <3>2. p \in FillingPieces /\ Tail(todo) \in Seq(FillingPieces)
      BY <3>1, HeadTail
    <3>3. UNCHANGED <<toClient, toServer>>
      BY <2>11 DEF RetrySubChunk
    <3>4. CASE KeepForLater /\ UNCHANGED <<meta, pending, chunks, failed>>
      BY <3>1, <3>2, <3>3, <3>4 DEF CacheInv, KeepForLater, pending, chunks
    <3>5. CASE StoreSubChunk(p) /\ NextRound /\ UNCHANGED <<pending, failed>>
      <4>1. shown' \subseteq Announced
        BY <3>2, <3>5, WriteType DEF StoreSubChunk
      <4> QED BY <3>1, <3>2, <3>3, <3>5, <4>1 DEF CacheInv, NextRound, pending
    <3>6. CASE Throw
      BY <3>3, <3>6, ThrowType DEF CacheInv
    <3> QED BY <2>11, <3>4, <3>5, <3>6 DEF RetrySubChunk
  <2>12. CASE RetriesEnd
    BY <2>12 DEF RetriesEnd, CacheInv, Over, Return, StartLoop, pending, chunks
  <2>13. CASE Answer
    <3>1. toServer \in Seq(Statuses) /\ toServer # <<>> /\ toServer' = Tail(toServer)
      BY <2>13 DEF Answer, CacheInv
    <3>2. Head(toServer) \in Statuses /\ toServer' \in Seq(Statuses)
      BY <3>1, HeadTail
    <3>3. PICK a \in Answers(Head(toServer)) :
             toClient' = toClient \o [i \in DOMAIN a |-> [chunk |-> 0, blobs |-> a[i]]]
      BY <2>13 DEF Answer
    <3>4. a \in Seq(Seq(Blobs))
      BY <3>2, AnswersType
    <3>5. [i \in DOMAIN a |-> [chunk |-> 0, blobs |-> a[i]]] \in Seq(Packets)
      BY <3>4, AnswerPackets
    <3>6. toClient' \in Seq(Packets)
      BY <3>3, <3>5, ConcatProperties DEF CacheInv
    <3> QED BY <2>13, <3>2, <3>6 DEF Answer, CacheInv, pending, loop, chunks
  <2>14. CASE UNCHANGED vars
    BY <2>14 DEF vars, network, cache, pending, loop, chunks, CacheInv
  <2> QED BY <2>1, <2>2, <2>3, <2>4, <2>5, <2>6, <2>7, <2>8, <2>9, <2>10, <2>11, <2>12,
        <2>13, <2>14 DEF Next, Handle
<1>3. Send \/ UNCHANGED <<script, sent>>
  BY DEF Next, Handle, HandleLevelChunk, HandleSubChunk, PlainEntry, CachedEntry,
      SubChunkStatus, HandleClientCacheMissResponse, StoreBlob, RetryLevelChunks,
      RetryLevelChunk, RetrySubChunks, RetrySubChunk, RetriesEnd, Answer, vars, network
<1> QED BY <1>1, <1>2, <1>3
-----------------------------------------------------------------------------
(* Packets on their way.                                                   *)

\* The packets on their way when one is taken, sent or answered.
LEMMA ArriveTail ==
    ASSUME NEW S, NEW c \in Seq(S), c # <<>>, OneArrival(c)
    PROVE  /\ OneArrival(Tail(c)) /\ Arriving(Tail(c)) \subseteq Arriving(c)
           /\ Head(c).chunk # 0 => /\ Head(c).chunk \in Arriving(c)
                                   /\ Head(c).chunk \notin Arriving(Tail(c))
<1> DEFINE u == Tail(c)
           n == Len(c)
<1>1. /\ n \in Nat /\ n > 0 /\ DOMAIN c = 1..n /\ Head(c) = c[1]
      /\ DOMAIN u = 1..(n - 1) /\ \A i \in 1..(n - 1) : u[i] = c[i + 1]
  OBVIOUS
<1> HIDE DEF u, n
<1>2. \A i \in DOMAIN u : i + 1 \in DOMAIN c /\ 1 \in DOMAIN c /\ i + 1 # 1
                          /\ u[i] = c[i + 1]
  BY <1>1
<1>3. OneArrival(u)
  <2> SUFFICES ASSUME NEW i \in DOMAIN u, NEW j \in DOMAIN u,
                      u[i].chunk # 0, u[i].chunk = u[j].chunk
               PROVE  i = j
    BY DEF OneArrival
  <2>1. i + 1 = j + 1
    BY <1>2 DEF OneArrival
  <2> QED BY <1>1, <2>1
<1>4. Arriving(u) \subseteq Arriving(c)
  BY <1>2 DEF Arriving
<1>5. Head(c).chunk # 0 => Head(c).chunk \in Arriving(c)
  BY <1>1 DEF Arriving
<1>6. Head(c).chunk # 0 => \A i \in DOMAIN u : u[i].chunk # Head(c).chunk
  BY <1>1, <1>2 DEF OneArrival
<1> QED BY <1>3, <1>4, <1>5, <1>6 DEF u, Arriving

LEMMA ArriveSend ==
    ASSUME NEW S, NEW c \in Seq(S), NEW e \in S, OneArrival(c), e.chunk \notin Arriving(c)
    PROVE  /\ OneArrival(Append(c, e))
           /\ Arriving(Append(c, e)) \subseteq Arriving(c) \cup {e.chunk}
<1> DEFINE a == Append(c, e)
<1>1. /\ DOMAIN a = 1..(Len(c) + 1) /\ DOMAIN c = 1..Len(c) /\ Len(c) \in Nat
      /\ \A i \in 1..Len(c) : a[i] = c[i]
      /\ a[Len(c) + 1] = e
  OBVIOUS
<1> HIDE DEF a
<1>2. Arriving(a) \subseteq Arriving(c) \cup {e.chunk}
  BY <1>1 DEF Arriving
<1>3. OneArrival(a)
  BY <1>1 DEF Arriving, OneArrival
<1> QED BY <1>2, <1>3 DEF a

LEMMA ArriveAnswer ==
    ASSUME NEW S, NEW c \in Seq(S), NEW b \in Seq(S), OneArrival(c),
           \A i \in DOMAIN b : b[i].chunk = 0
    PROVE  OneArrival(c \o b) /\ Arriving(c \o b) \subseteq Arriving(c)
<1> DEFINE a == c \o b
           m == Len(c)
           n == Len(b)
<1>1. /\ m \in Nat /\ n \in Nat
      /\ DOMAIN a = 1..(m + n) /\ DOMAIN c = 1..m /\ DOMAIN b = 1..n
      /\ \A i \in 1..m : a[i] = c[i]
      /\ \A i \in 1..(m + n) : i > m => a[i] = b[i - m]
  OBVIOUS
<1> HIDE DEF a, m, n
<1>2. \A i \in DOMAIN a : a[i].chunk # 0 => i \in DOMAIN c /\ a[i] = c[i]
  <2> SUFFICES ASSUME NEW i \in 1..(m + n), a[i].chunk # 0
               PROVE  i \in 1..m
    BY <1>1
  <2>1. CASE i > m
    <3>1. i - m \in DOMAIN b /\ a[i] = b[i - m]
      BY <1>1, <2>1
    <3> QED BY <3>1
  <2> QED BY <1>1, <2>1
<1>3. OneArrival(a)
  BY <1>2 DEF OneArrival
<1>4. Arriving(a) \subseteq Arriving(c)
  BY <1>2 DEF Arriving
<1> QED BY <1>3, <1>4 DEF a

-----------------------------------------------------------------------------
(* Fresh is inductive, given CacheInv.                                     *)

\* Elements of the lists, and how level chunks and entries differ.
LEMMA ListTypes ==
    ASSUME CacheInv
    PROVE  /\ ToSet(pendL) \subseteq LevelNos /\ ToSet(pendS) \subseteq FillingPieces
           /\ Arriving(toClient) \subseteq 1..sent
           /\ at = "entries" => ToSet(todo) \subseteq EntryPieces
           /\ \A n \in LevelNos, p \in EntryPieces : p[1] # n /\ p # <<n, 1>>
           /\ FillingPieces \subseteq EntryPieces
           /\ \A p \in EntryPieces : p[1] \in 1..sent
           /\ \A p \in shown : p[1] \in 1..sent
           /\ LevelNos \subseteq 1..sent /\ sent \in Nat
<1>1. sent \in Nat /\ script \in Scripts
  BY ScriptAssumption DEF CacheInv
<1>2. /\ ToSet(pendL) \subseteq LevelNos /\ ToSet(pendS) \subseteq FillingPieces
      /\ at = "entries" => ToSet(todo) \subseteq EntryPieces
  BY DEF CacheInv, ToSet
<1>3. Arriving(toClient) \subseteq 1..sent
  <2>1. \A i \in DOMAIN toClient : toClient[i].chunk \in 0..sent
    <3>1. \A i \in DOMAIN toClient : toClient[i] \in Packets
      BY DEF CacheInv
    <3>2. \A k \in Packets : k.chunk \in 0..sent
      BY DEF Packets
    <3> QED BY <3>1, <3>2
  <2> QED BY <1>1, <2>1 DEF Arriving
<1>4. \A n \in LevelNos, p \in EntryPieces : p[1] # n /\ p # <<n, 1>>
  BY DEF LevelNos, EntryPieces
<1>5. FillingPieces \subseteq EntryPieces /\ LevelNos \subseteq 1..sent
      /\ \A p \in EntryPieces : p[1] \in 1..sent
  BY DEF LevelNos, EntryPieces, FillingPieces
<1>6. \A p \in shown : p[1] \in 1..sent
  <2> TAKE p \in shown
  <2>1. PICK n \in 1..sent : p \in PiecesOf(n)
    BY DEF CacheInv, Announced
  <2>2. p[1] = n
    BY <2>1 DEF PiecesOf
  <2> QED BY <2>2
<1> QED BY <1>1, <1>2, <1>3, <1>4, <1>5, <1>6

LEMMA InitFresh == Init => Fresh
BY EmptyList DEF Init, Fresh, OneArrival, Arriving, FreshLevels, FreshSubs, FreshEntries

LEMMA FreshStep == ASSUME CacheInv, Fresh, [Next]_vars PROVE Fresh'
<1> DEFINE Goal == /\ OneArrival(toClient') /\ \A m \in Arriving(toClient') : Untouched(m)'
                   /\ FreshLevels' /\ FreshSubs' /\ FreshEntries'
<1> SUFFICES ASSUME ~failed' PROVE Goal
  BY DEF Fresh
<1>1. ~failed
  BY DEF Next, Handle, HandleLevelChunk, HandleSubChunk, PlainEntry, CachedEntry,
      SubChunkStatus, HandleClientCacheMissResponse, StoreBlob, RetryLevelChunks,
      RetryLevelChunk, RetrySubChunks, RetrySubChunk, RetriesEnd, Answer, Send, Throw, vars
<1>2. /\ OneArrival(toClient) /\ \A m \in Arriving(toClient) : Untouched(m)
      /\ FreshLevels /\ FreshSubs /\ FreshEntries
  BY <1>1 DEF Fresh
<1>3. ~Throw
  BY DEF Throw
<1> USE ListTypes
<1>4. CASE UNCHANGED <<pendL, pendS, shown, at, todo, still>> /\ OneArrival(toClient')
           /\ \A m \in Arriving(toClient') : Untouched(m)
  BY <1>2, <1>4 DEF Untouched, FreshLevels, FreshSubs, FreshEntries, LevelShown
<1>5. CASE Send
  <2> DEFINE e == [chunk |-> sent + 1, blobs |-> <<>>]
  <2>1. toClient' = Append(toClient, e) /\ e.chunk = sent + 1 /\ sent' = sent + 1
    BY <1>5 DEF Send
  <2>2. toClient \in Seq(Packets') /\ e \in Packets'
    <3>1. toClient \in Seq(Packets')
      BY <1>5, SendGrows, SeqMonotonic DEF CacheInv
    <3>2. e \in Packets'
      BY <2>1 DEF Packets
    <3> QED BY <3>1, <3>2
  <2>3. e.chunk \notin Arriving(toClient) /\ Untouched(sent + 1)
    BY <2>1 DEF Untouched
  <2> HIDE DEF e
  <2>4. OneArrival(toClient') /\ Arriving(toClient') \subseteq Arriving(toClient) \cup {sent + 1}
    BY <1>2, <2>1, <2>2, <2>3, ArriveSend
  <2>5. UNCHANGED <<pendL, pendS, shown, at, todo, still>>
    BY <1>5 DEF Send, pending, chunks, loop
  <2> QED BY <1>2, <1>4, <2>3, <2>4, <2>5
<1>6. CASE HandleLevelChunk
  <2> DEFINE n == Head(toClient).chunk
  <2>1. toClient \in Seq(Packets) /\ toClient # <<>> /\ toClient' = Tail(toClient)
        /\ n # 0 /\ script[n].kind = "level" /\ at = "idle"
    BY <1>6 DEF HandleLevelChunk, CacheInv
  <2>2. OneArrival(toClient') /\ Arriving(toClient') \subseteq Arriving(toClient)
        /\ n \in Arriving(toClient) /\ n \notin Arriving(toClient')
    BY <1>2, <2>1, ArriveTail
  <2>3. n \in LevelNos
    BY <2>1, <2>2 DEF LevelNos
  <2> HIDE DEF n
  <2>4. n \notin ToSet(pendL) /\ ~LevelShown(n)
    BY <1>2, <2>2 DEF Untouched, LevelShown
  <2>5. CASE pendL' = Append(pendL, n) /\ UNCHANGED <<loop, chunks, pendS>>
    <3>1. ToSet(pendL') = ToSet(pendL) \cup {n} /\ Distinct(pendL')
      BY <1>2, <2>3, <2>4, <2>5, Appended DEF CacheInv, FreshLevels
    <3>2. UNCHANGED <<at, todo, still, shown, pendS>>
      BY <2>5 DEF loop, chunks
    <3> QED BY <1>2, <2>1, <2>2, <2>4, <3>1, <3>2
          DEF Untouched, FreshLevels, FreshSubs, FreshEntries, LevelShown
  <2>6. CASE StoreLevelChunk(n) /\ UNCHANGED <<loop, pending>>
    <3>1. shown' = shown \cup {<<n, 1>>}
      BY <2>6 DEF StoreLevelChunk, Write
    <3>2. UNCHANGED <<at, todo, still, pendL, pendS>>
      BY <2>6 DEF loop, pending
    <3>3. \A m \in Arriving(toClient') : Untouched(m)'
      BY <1>2, <2>1, <2>2, <3>1, <3>2 DEF Untouched
    <3>4. FreshLevels'
      BY <1>2, <2>1, <2>4, <3>1, <3>2 DEF FreshLevels, LevelShown
    <3>5. FreshSubs'
      BY <1>2, <2>1, <2>3, <3>1, <3>2 DEF FreshSubs
    <3> QED BY <2>1, <2>2, <3>2, <3>3, <3>4, <3>5 DEF FreshEntries
  <2> QED BY <1>3, <1>6, <2>5, <2>6 DEF HandleLevelChunk, n
<1>7. CASE HandleSubChunk
  <2> DEFINE n == Head(toClient).chunk
             list == [i \in DOMAIN script[n].entries |-> <<n, i>>]
  <2>1. toClient \in Seq(Packets) /\ toClient # <<>> /\ toClient' = Tail(toClient)
        /\ n # 0 /\ at = "idle"
    BY <1>7 DEF HandleSubChunk, CacheInv
  <2>2. OneArrival(toClient') /\ Arriving(toClient') \subseteq Arriving(toClient)
        /\ n \in Arriving(toClient) /\ n \notin Arriving(toClient')
    BY <1>2, <2>1, ArriveTail
  <2>3. at' = "entries" /\ todo' = list
    BY <1>7 DEF HandleSubChunk, StartLoop
  <2> HIDE DEF n
  <2>4. Distinct(list) /\ \A p \in ToSet(list) : p[1] = n
    <3>1. \A i, j : <<n, i>> = <<n, j>> => i = j
      OBVIOUS
    <3>2. DOMAIN list = DOMAIN script[n].entries /\ \A i \in DOMAIN list : list[i] = <<n, i>>
      OBVIOUS
    <3> HIDE DEF list
    <3>3. Distinct(list)
      BY <3>1, <3>2 DEF Distinct
    <3>4. \A p \in ToSet(list) : p[1] = n
      BY <3>2 DEF ToSet
    <3> QED BY <3>3, <3>4
  <2> HIDE DEF list
  <2>5. UNCHANGED <<pendL, pendS, shown>>
    BY <1>7 DEF HandleSubChunk, pending, chunks
  <2>6. \A m \in Arriving(toClient') : Untouched(m)'
    BY <1>2, <2>2, <2>3, <2>4, <2>5 DEF Untouched
  <2>7. FreshEntries'
    BY <1>2, <2>2, <2>3, <2>4, <2>5 DEF Untouched, FreshEntries
  <2> QED BY <1>2, <2>1, <2>2, <2>3, <2>5, <2>6, <2>7 DEF FreshLevels, FreshSubs, LevelShown
<1>8. CASE PlainEntry \/ CachedEntry
  <2> DEFINE p == Head(todo)
  <2>1. todo \in Seq(EntryPieces) /\ todo # <<>> /\ at = "entries" /\ toClient' = toClient
    BY <1>8 DEF PlainEntry, CachedEntry, Running, CacheInv
  <2>2. p \in EntryPieces
    BY <2>1, HeadTail
  <2>3. ToSet(todo) = ToSet(Tail(todo)) \cup {p} /\ p \notin ToSet(Tail(todo))
        /\ Distinct(Tail(todo))
    BY <1>2, <2>1, FirstAndRest DEF FreshEntries
  <2>4. /\ todo' = Tail(todo) /\ UNCHANGED <<at, still, pendL>>
        /\ \/ UNCHANGED <<shown, pendS>>
           \/ shown' = shown \cup {p} /\ UNCHANGED pendS
           \/ p \in FillingPieces /\ pendS' = Append(pendS, p) /\ UNCHANGED shown
    <3>1. CASE PlainEntry
      BY <1>3, <3>1 DEF PlainEntry, NextRound, StoreSubChunk, Write, chunks, pending
    <3>2. CASE CachedEntry
      <4>1. p \in FillingPieces
        BY <2>2, <3>2 DEF CachedEntry, FillingPieces
      <4> QED BY <1>3, <3>2, <4>1 DEF CachedEntry, StoreSubChunk, Write, chunks, pending
    <3> QED BY <1>8, <3>1, <3>2
  <2> HIDE DEF p
  <2>5. p \notin shown /\ p \notin ToSet(pendS)
        /\ \A m \in Arriving(toClient) : p[1] # m
    BY <1>2, <2>1, <2>3 DEF FreshEntries, Untouched
  <2>6. CASE UNCHANGED <<shown, pendS>>
    BY <1>2, <2>1, <2>3, <2>4, <2>6
      DEF Untouched, FreshLevels, FreshSubs, FreshEntries, LevelShown
  <2>7. CASE shown' = shown \cup {p} /\ UNCHANGED pendS
    <3>1. \A m \in Arriving(toClient') : Untouched(m)'
      BY <1>2, <2>1, <2>3, <2>4, <2>5, <2>7 DEF Untouched
    <3>2. FreshLevels'
      BY <1>2, <2>1, <2>2, <2>4, <2>7 DEF FreshLevels, LevelShown
    <3>3. FreshSubs' /\ FreshEntries'
      BY <1>2, <2>1, <2>3, <2>4, <2>5, <2>7 DEF FreshSubs, FreshEntries
    <3> QED BY <1>2, <2>1, <3>1, <3>2, <3>3
  <2>8. CASE p \in FillingPieces /\ pendS' = Append(pendS, p) /\ UNCHANGED shown
    <3>1. ToSet(pendS') = ToSet(pendS) \cup {p} /\ Distinct(pendS')
      BY <1>2, <2>5, <2>8, Appended DEF CacheInv, FreshSubs
    <3>2. \A m \in Arriving(toClient') : Untouched(m)'
      BY <1>2, <2>1, <2>3, <2>4, <2>5, <2>8, <3>1 DEF Untouched
    <3>3. FreshLevels'
      BY <1>2, <2>1, <2>4, <2>8 DEF FreshLevels, LevelShown
    <3>4. FreshSubs' /\ FreshEntries'
      BY <1>2, <2>1, <2>3, <2>4, <2>5, <2>8, <3>1 DEF FreshSubs, FreshEntries
    <3> QED BY <1>2, <2>1, <3>2, <3>3, <3>4
  <2> QED BY <2>4, <2>6, <2>7, <2>8
<1>9. CASE SubChunkStatus \/ HandleClientCacheMissResponse \/ StoreBlob
  <2>1. /\ UNCHANGED <<pendL, pendS, shown>>
        /\ at \notin {"levels", "subs"} /\ at' \notin {"entries", "levels", "subs"}
    BY <1>9 DEF SubChunkStatus, HandleClientCacheMissResponse, StoreBlob, Over, Running,
        Return, StartLoop, NextRound, pending, chunks
  <2>2. OneArrival(toClient') /\ Arriving(toClient') \subseteq Arriving(toClient)
    <3>1. CASE HandleClientCacheMissResponse
      BY <1>2, <3>1, ArriveTail DEF HandleClientCacheMissResponse, CacheInv
    <3>2. CASE SubChunkStatus \/ StoreBlob
      BY <1>2, <3>2 DEF SubChunkStatus, StoreBlob
    <3> QED BY <1>9, <3>1, <3>2
  <2> QED BY <1>2, <2>1, <2>2 DEF Untouched, FreshLevels, FreshSubs, FreshEntries, LevelShown
<1>10. CASE RetryLevelChunks
  <2>1. /\ at = "blobs" /\ at' = "levels" /\ todo' = pendL /\ still' = <<>>
        /\ UNCHANGED <<pendL, pendS, shown, toClient>>
    BY <1>10 DEF RetryLevelChunks, Over, StartLoop, pending, chunks
  <2> QED BY <1>2, <2>1, EmptyList
        DEF Untouched, FreshLevels, FreshSubs, FreshEntries, LevelShown
<1>11. CASE RetryLevelChunk
  <2> DEFINE n == Head(todo)
  <2>1. todo \in Seq(LevelNos) /\ still \in Seq(LevelNos) /\ todo # <<>>
        /\ at = "levels" /\ toClient' = toClient
    BY <1>11 DEF RetryLevelChunk, Running, CacheInv
  <2>2. n \in LevelNos
    BY <2>1, HeadTail
  <2>3. ToSet(todo) = ToSet(Tail(todo)) \cup {n} /\ n \notin ToSet(Tail(todo))
        /\ Distinct(Tail(todo))
    BY <1>2, <2>1, FirstAndRest DEF FreshLevels
  <2>4. /\ todo' = Tail(todo) /\ UNCHANGED <<at, pendL, pendS>>
        /\ \/ still' = Append(still, n) /\ UNCHANGED shown
           \/ shown' = shown \cup {<<n, 1>>} /\ UNCHANGED still
    BY <1>3, <1>11 DEF RetryLevelChunk, KeepForLater, NextRound, StoreLevelChunk, Write,
        chunks, pending
  <2> HIDE DEF n
  <2>5. n \in ToSet(pendL) /\ ~LevelShown(n) /\ n \notin ToSet(still)
        /\ \A m \in Arriving(toClient) : n # m
    BY <1>2, <2>1, <2>3 DEF FreshLevels, Untouched
  <2>6. CASE still' = Append(still, n) /\ UNCHANGED shown
    <3>1. ToSet(still') = ToSet(still) \cup {n} /\ Distinct(still')
      BY <1>2, <2>1, <2>2, <2>5, <2>6, Appended DEF FreshLevels
    <3>2. FreshLevels'
      BY <1>2, <2>1, <2>3, <2>4, <2>5, <2>6, <3>1 DEF FreshLevels, LevelShown
    <3> QED BY <1>2, <2>1, <2>4, <2>6, <3>2 DEF Untouched, FreshSubs, FreshEntries
  <2>7. CASE shown' = shown \cup {<<n, 1>>} /\ UNCHANGED still
    <3>1. FreshLevels'
      BY <1>2, <2>1, <2>3, <2>4, <2>5, <2>7 DEF FreshLevels, LevelShown
    <3>2. FreshSubs' /\ FreshEntries'
      BY <1>2, <2>1, <2>2, <2>4, <2>7 DEF FreshSubs, FreshEntries
    <3>3. \A m \in Arriving(toClient') : Untouched(m)'
      BY <1>2, <2>1, <2>4, <2>5, <2>7 DEF Untouched
    <3> QED BY <1>2, <2>1, <3>1, <3>2, <3>3
  <2> QED BY <2>4, <2>6, <2>7
<1>12. CASE RetrySubChunks
  <2>1. /\ at = "levels" /\ at' = "subs" /\ pendL' = still /\ todo' = pendS /\ still' = <<>>
        /\ UNCHANGED <<pendS, shown, toClient>>
    BY <1>12 DEF RetrySubChunks, Over, StartLoop, chunks
  <2> QED BY <1>2, <2>1, EmptyList
        DEF Untouched, FreshLevels, FreshSubs, FreshEntries, LevelShown
<1>13. CASE RetrySubChunk
  <2> DEFINE p == Head(todo)
  <2>1. todo \in Seq(FillingPieces) /\ still \in Seq(FillingPieces) /\ todo # <<>>
        /\ at = "subs" /\ toClient' = toClient
    BY <1>13 DEF RetrySubChunk, Running, CacheInv
  <2>2. p \in FillingPieces
    BY <2>1, HeadTail
  <2>3. ToSet(todo) = ToSet(Tail(todo)) \cup {p} /\ p \notin ToSet(Tail(todo))
        /\ Distinct(Tail(todo))
    BY <1>2, <2>1, FirstAndRest DEF FreshSubs
  <2>4. /\ todo' = Tail(todo) /\ UNCHANGED <<at, pendL, pendS>>
        /\ \/ still' = Append(still, p) /\ UNCHANGED shown
           \/ shown' = shown \cup {p} /\ UNCHANGED still
    BY <1>3, <1>13 DEF RetrySubChunk, KeepForLater, NextRound, StoreSubChunk, Write, chunks,
       pending
  <2> HIDE DEF p
  <2>5. p \in ToSet(pendS) /\ p \notin shown /\ p \notin ToSet(still)
        /\ \A m \in Arriving(toClient) : p[1] # m
    BY <1>2, <2>1, <2>3 DEF FreshSubs, Untouched
  <2>6. CASE still' = Append(still, p) /\ UNCHANGED shown
    <3>1. ToSet(still') = ToSet(still) \cup {p} /\ Distinct(still')
      BY <1>2, <2>1, <2>2, <2>5, <2>6, Appended DEF FreshSubs
    <3>2. FreshSubs'
      BY <1>2, <2>1, <2>3, <2>4, <2>5, <2>6, <3>1 DEF FreshSubs
    <3> QED BY <1>2, <2>1, <2>4, <2>6, <3>2 DEF Untouched, FreshLevels, FreshEntries, LevelShown
  <2>7. CASE shown' = shown \cup {p} /\ UNCHANGED still
    <3>1. FreshSubs'
      BY <1>2, <2>1, <2>3, <2>4, <2>5, <2>7 DEF FreshSubs
    <3>2. FreshLevels' /\ FreshEntries'
      BY <1>2, <2>1, <2>2, <2>4, <2>7 DEF FreshLevels, FreshEntries, LevelShown
    <3>3. \A m \in Arriving(toClient') : Untouched(m)'
      BY <1>2, <2>1, <2>4, <2>5, <2>7 DEF Untouched
    <3> QED BY <1>2, <2>1, <3>1, <3>2, <3>3
  <2> QED BY <2>4, <2>6, <2>7
<1>14. CASE RetriesEnd
  <2>1. /\ at = "subs" /\ at' = "idle" /\ pendS' = still
        /\ UNCHANGED <<pendL, shown, toClient>>
    BY <1>14 DEF RetriesEnd, Over, Return, StartLoop, chunks
  <2> QED BY <1>2, <2>1 DEF Untouched, FreshLevels, FreshSubs, FreshEntries, LevelShown
<1>15. CASE Answer
  <2>1. toServer \in Seq(Statuses) /\ toServer # <<>>
    BY <1>15 DEF Answer, CacheInv
  <2>2. PICK a \in Answers(Head(toServer)) :
           toClient' = toClient \o [i \in DOMAIN a |-> [chunk |-> 0, blobs |-> a[i]]]
    BY <1>15 DEF Answer
  <2> DEFINE b == [i \in DOMAIN a |-> [chunk |-> 0, blobs |-> a[i]]]
  <2>3. a \in Seq(Seq(Blobs))
    BY <2>1, <2>2, HeadTail, AnswersType
  <2>4. b \in Seq(Packets) /\ \A i \in DOMAIN b : b[i].chunk = 0
    BY <2>3, AnswerPackets
  <2> HIDE DEF b
  <2>5. OneArrival(toClient \o b) /\ Arriving(toClient \o b) \subseteq Arriving(toClient)
    BY <1>2, <2>4, ArriveAnswer DEF CacheInv
  <2>6. UNCHANGED <<pendL, pendS, shown, at, todo, still>>
    BY <1>15 DEF Answer, pending, chunks, loop
  <2> QED BY <1>2, <1>4, <2>2, <2>5, <2>6 DEF b
<1>16. CASE UNCHANGED vars
  BY <1>2, <1>4, <1>16 DEF vars, pending, chunks, loop
<1> QED BY <1>5, <1>6, <1>7, <1>8, <1>9, <1>10, <1>11, <1>12, <1>13, <1>14, <1>15, <1>16
      DEF Next, Handle
-----------------------------------------------------------------------------
(* The refinement.                                                         *)

LEMMA InitRefines == Init => Delivery!Init
<1> SUFFICES ASSUME Init PROVE Delivery!Init
  OBVIOUS
<1>1. Announced = {} /\ shown = {}
  BY DEF Init, Announced
<1>2. Filling(Announced) = {} /\ Filling(shown) = {}
  BY <1>1 DEF Filling
<1>3. (failed \/ garbled) = FALSE /\ world = [c \in Cells |-> Nothing]
  BY DEF Init
<1> QED BY <1>2, <1>3 DEF Delivery!Init

\* While the server sends nothing a piece is meant for the same cells.
LEMMA SameFilling ==
    ASSUME UNCHANGED <<script, sent>>
    PROVE  /\ Filling(Announced)' = Filling(Announced)
           /\ UNCHANGED shown => Filling(shown)' = Filling(shown)
           /\ Filling(shown)' = {[id |-> q, fills |-> Meant(q)] : q \in shown'}
BY SameSets DEF Filling

\* A step that throws ends the promise.
LEMMA ThrowSpoils == ASSUME Throw PROVE Delivery!Next
BY DEF Throw, Delivery!Next, Delivery!Spoil

\* A step that touches neither the world nor the histories is a stutter.
LEMMA QuietStutters ==
    ASSUME UNCHANGED <<script, sent>>, UNCHANGED <<chunks, failed>>
    PROVE  UNCHANGED Delivery!vars
BY SameFilling DEF chunks, Delivery!vars

\* Writing an announced piece for the first time and as it was meant is
\* Apply; writing it otherwise ends the promise, and so does a handler's failure.
LEMMA WriteRefines ==
    ASSUME CacheInv, UNCHANGED <<script, sent>>, NEW p \in Announced, NEW c,
           Write(p, c), UNCHANGED failed, failed \/ p \notin shown
    PROVE  Delivery!Next
<1>1. CASE failed' \/ garbled'
  BY <1>1 DEF Delivery!Next, Delivery!Spoil
<1>2. CASE ~failed' /\ ~garbled'
  <2>1. c = Meant(p) /\ p \notin shown /\ ~garbled /\ shown' = shown \cup {p}
    BY <1>2 DEF Write
  <2> DEFINE new == [id |-> p, fills |-> Meant(p)]
  <2>2. /\ Filling(shown)' = Filling(shown) \cup {new}
        /\ Filling(Announced)' = Filling(Announced)
    BY <2>1, SameFilling DEF Filling
  <2>3. new \notin Filling(shown) /\ new \in Filling(Announced)
    BY <2>1 DEF Filling
  <2>4. Filling(shown) \subseteq Filling(Announced)
    BY DEF CacheInv, Filling
  <2>5. new.fills = c
    BY <2>1
  <2>6. \A x \in Cells : world'[x] = IF x \in DOMAIN c THEN c[x] ELSE world[x]
    BY DEF Write
  <2>7. (failed \/ garbled)' = (failed \/ garbled)
    BY <1>2, <2>1
  <2> HIDE DEF new
  <2>8. Filling(shown)' \ Filling(shown) = {new}
    BY <2>2, <2>3
  <2>9. ASSUME NEW x \in Cells
        PROVE  LET writers == {q \in Filling(shown)' \ Filling(shown) : x \in DOMAIN q.fills}
               IN IF writers = {} THEN world'[x] = world[x]
                  ELSE \E q \in writers : world'[x] = q.fills[x]
    BY <2>5, <2>6, <2>8
  <2>10. Delivery!Apply
    BY <2>2, <2>3, <2>4, <2>7, <2>9 DEF Delivery!Apply
  <2> QED BY <2>10 DEF Delivery!Next
<1> QED BY <1>1, <1>2

\* What a handler is about to write is not in the world yet.
LEMMA FirstWrite ==
    ASSUME CacheInv, Fresh
    PROVE  /\ HandleLevelChunk => failed \/ <<Head(toClient).chunk, 1>> \notin shown
           /\ RetryLevelChunk => failed \/ <<Head(todo), 1>> \notin shown
           /\ PlainEntry \/ CachedEntry \/ RetrySubChunk => failed \/ Head(todo) \notin shown
<1> SUFFICES ASSUME ~failed
             PROVE  /\ HandleLevelChunk => <<Head(toClient).chunk, 1>> \notin shown
                    /\ RetryLevelChunk => <<Head(todo), 1>> \notin shown
                    /\ PlainEntry \/ CachedEntry \/ RetrySubChunk => Head(todo) \notin shown
  OBVIOUS
<1>1. ASSUME HandleLevelChunk PROVE <<Head(toClient).chunk, 1>> \notin shown
  <2>1. Head(toClient).chunk \in Arriving(toClient)
    BY <1>1, ArriveTail DEF HandleLevelChunk, CacheInv, Fresh
  <2>2. \A p \in shown : p[1] # Head(toClient).chunk
    BY <2>1 DEF Fresh, Untouched
  <2> QED BY <2>2
<1>2. ASSUME todo # <<>>, at \in {"entries", "levels", "subs"} PROVE Head(todo) \in ToSet(todo)
  <2>1. 1 \in DOMAIN todo /\ Head(todo) = todo[1]
    BY <1>2 DEF CacheInv
  <2> QED BY <2>1 DEF ToSet
<1>3. ASSUME RetryLevelChunk PROVE <<Head(todo), 1>> \notin shown
  BY <1>2, <1>3 DEF RetryLevelChunk, Running, Fresh, FreshLevels, LevelShown
<1>4. ASSUME PlainEntry \/ CachedEntry \/ RetrySubChunk PROVE Head(todo) \notin shown
  BY <1>2, <1>4 DEF PlainEntry, CachedEntry, RetrySubChunk, Running, Fresh, FreshSubs,
      FreshEntries
<1> QED BY <1>1, <1>3, <1>4

LEMMA StepRefines ==
    ASSUME CacheInv, Fresh, [Next]_vars PROVE [Delivery!Next]_(Delivery!vars)
<1>1. CASE Send
  <2>1. Announced \subseteq Announced'
    BY <1>1, SendGrows
  <2>2. \A q : Meant(q)' = Meant(q)
    BY <1>1 DEF Send, Meant, EntryOf
  <2>3. UNCHANGED <<shown, world, failed, garbled>>
    BY <1>1 DEF Send, chunks
  <2>4. Filling(Announced) \subseteq Filling(Announced)' /\ Filling(shown)' = Filling(shown)
    BY <2>1, <2>2, <2>3 DEF Filling
  <2>5. Delivery!Announce
    BY <2>3, <2>4 DEF Delivery!Announce
  <2> QED BY <2>5 DEF Delivery!Next
<1>2. CASE UNCHANGED <<script, sent>> /\ ~Send
  <2> USE <1>2, PiecesAnnounced, FirstWrite
  <2>1. CASE HandleLevelChunk
    <3> DEFINE n == Head(toClient).chunk
    <3>1. toClient \in Seq(Packets) /\ toClient # <<>>
      BY <2>1 DEF HandleLevelChunk, CacheInv
    <3>2. Head(toClient) \in Packets
      BY <3>1, HeadTail
    <3>3. n \in LevelNos
      BY <2>1, <3>2, SMTT(30) DEF HandleLevelChunk, CacheInv, LevelNos, Packets
    <3>4. failed \/ <<n, 1>> \notin shown
      BY <2>1
    <3> HIDE DEF n
    <3>5. \/ UNCHANGED <<chunks, failed>> \/ Throw
          \/ StoreLevelChunk(n) /\ UNCHANGED failed
      BY <2>1 DEF HandleLevelChunk, n
    <3> QED BY <3>3, <3>4, <3>5, QuietStutters, ThrowSpoils, WriteRefines DEF StoreLevelChunk
  <2>2. CASE PlainEntry
    <3>1. Head(todo) \in EntryPieces
      BY <2>2, HeadTail DEF PlainEntry, Running, CacheInv
    <3>2. \/ UNCHANGED <<chunks, failed>> \/ Throw
          \/ /\ EntryOf(Head(todo)).result \in {"air", "ok"}
             /\ StoreSubChunk(Head(todo)) /\ UNCHANGED failed
      BY <2>2 DEF PlainEntry
    <3>3. EntryOf(Head(todo)).result \in {"air", "ok"} => Head(todo) \in Announced
      BY <3>1 DEF FillingPieces
    <3> QED BY <2>2, <3>2, <3>3, QuietStutters, ThrowSpoils, WriteRefines DEF StoreSubChunk
  <2>3. CASE CachedEntry
    <3>1. Head(todo) \in EntryPieces
      BY <2>3, HeadTail DEF CachedEntry, Running, CacheInv
    <3>2. \/ UNCHANGED <<chunks, failed>> \/ Throw
          \/ StoreSubChunk(Head(todo)) /\ UNCHANGED failed
      BY <2>3 DEF CachedEntry
    <3>3. Head(todo) \in Announced
      BY <2>3, <3>1 DEF CachedEntry, FillingPieces
    <3> QED BY <2>3, <3>2, <3>3, QuietStutters, ThrowSpoils, WriteRefines DEF StoreSubChunk
  <2>4. CASE RetryLevelChunk
    <3>1. Head(todo) \in LevelNos
      BY <2>4, HeadTail DEF RetryLevelChunk, Running, CacheInv
    <3>2. \/ UNCHANGED <<chunks, failed>> \/ Throw
          \/ StoreLevelChunk(Head(todo)) /\ UNCHANGED failed
      BY <2>4 DEF RetryLevelChunk
    <3> QED BY <2>4, <3>1, <3>2, QuietStutters, ThrowSpoils, WriteRefines DEF StoreLevelChunk
  <2>5. CASE RetrySubChunk
    <3>1. Head(todo) \in FillingPieces
      BY <2>5, HeadTail DEF RetrySubChunk, Running, CacheInv
    <3>2. \/ UNCHANGED <<chunks, failed>> \/ Throw
          \/ StoreSubChunk(Head(todo)) /\ UNCHANGED failed
      BY <2>5 DEF RetrySubChunk
    <3> QED BY <2>5, <3>1, <3>2, QuietStutters, ThrowSpoils, WriteRefines DEF StoreSubChunk
  <2>6. CASE \/ HandleSubChunk \/ SubChunkStatus \/ HandleClientCacheMissResponse
             \/ StoreBlob \/ RetryLevelChunks \/ RetrySubChunks \/ RetriesEnd
             \/ Answer \/ UNCHANGED vars
    <3>1. UNCHANGED <<chunks, failed>>
      BY <2>6 DEF HandleSubChunk, SubChunkStatus, HandleClientCacheMissResponse,
          StoreBlob, RetryLevelChunks, RetrySubChunks, RetriesEnd, Answer, vars
    <3> QED BY <3>1, QuietStutters
  <2> QED BY <2>1, <2>2, <2>3, <2>4, <2>5, <2>6 DEF Next, Handle
<1>3. Send \/ UNCHANGED <<script, sent>>
  BY DEF Next, Handle, HandleLevelChunk, HandleSubChunk, PlainEntry, CachedEntry,
      SubChunkStatus, HandleClientCacheMissResponse, StoreBlob, RetryLevelChunks,
      RetryLevelChunk, RetrySubChunks, RetrySubChunk, RetriesEnd, Answer, vars, network
<1> QED BY <1>1, <1>2, <1>3

\* The client's blob cache (handleLevelChunk to tryStoreCachedSubChunk), with
\* any server that answers misses, implements ChunkDelivery: until a handler
\* throws or a column comes out wrong, every announced piece is written at
\* most once, however often it is retried, and nothing else changes the world.
THEOREM CacheDelivers == Spec => Delivers
<1>1. Init => CacheInv /\ Fresh /\ Delivery!Init
  BY InitCache, InitFresh, InitRefines
<1>2. CacheInv /\ Fresh /\ [Next]_vars => CacheInv' /\ Fresh'
  BY CacheStep, FreshStep
<1>3. CacheInv /\ Fresh /\ [Next]_vars => [Delivery!Next]_(Delivery!vars)
  BY StepRefines
<1> QED BY <1>1, <1>2, <1>3, PTL DEF Spec, Delivers, Delivery!Spec

-----------------------------------------------------------------------------
(* The types that the refinement leaves out.                               *)

\* A set of places of a list has a last one.
LEMMA LastPlace ==
    ASSUME NEW k \in Nat, NEW S \in SUBSET (1..k), S # {}
    PROVE  Max(S) \in S /\ \A i \in S : i <= Max(S)
<1> DEFINE R == OpToRel(<, Nat)
           T == {j \in Nat : k - j \in S}
<1>1. PICK s \in S : TRUE
  OBVIOUS
<1>2. k - s \in T
  BY <1>1
<1>3. IsWellFoundedOn(R, Nat)
  BY NatLessThanWellFounded, Zenon
<1>4. PICK x \in T : \A y \in T : <<y, x>> \notin R
  <2>1. T \subseteq Nat /\ T # {}
    BY <1>2
  <2> HIDE DEF R, T
  <2> QED BY <1>3, <2>1, WFMin
<1>5. \A y \in T : ~(y < x)
  BY <1>4 DEF OpToRel
<1> HIDE DEF R
<1>6. k - x \in S
  BY <1>4
<1>7. ASSUME NEW i \in S PROVE i <= k - x
  <2>1. i \in 1..k
    OBVIOUS
  <2>2. k - i \in Nat /\ k - (k - i) = i
    BY <2>1
  <2>3. k - i \in T
    BY <2>2
  <2>4. ~(k - i < x) /\ x \in Nat
    BY <1>4, <1>5, <2>3
  <2> HIDE DEF T
  <2> QED BY <2>1, <2>4
<1>8. \E m \in S : \A i \in S : m >= i
  BY <1>6, <1>7
<1> QED BY <1>8 DEF Max

\* The contents of what is written, and the notes of a level chunk.
Contents == Blobs \cup {Air, Nothing}
Infos == Info \cup {NoInfo}

\* A level chunk of the script.
LEMMA LevelTyped ==
    ASSUME CacheInv, NEW n \in LevelNos
    PROVE  /\ script[n].sections \in Seq(SectionBlobs) /\ script[n].biomes \in BiomeBlobs
           /\ script[n].cached \in BOOLEAN /\ script[n].bad \in BOOLEAN
           /\ script[n].kind = "level"
           /\ Hashes(n) \in Seq(Blobs)
<1>1. /\ script[n].sections \in Seq(SectionBlobs) /\ script[n].biomes \in BiomeBlobs
      /\ script[n].cached \in BOOLEAN /\ script[n].bad \in BOOLEAN
      /\ script[n].kind = "level"
  BY ScriptAssumption DEF CacheInv, LevelNos
<1>2. script[n].sections \in Seq(Blobs) /\ script[n].biomes \in Blobs
  BY <1>1, SeqMonotonic DEF Blobs
<1> QED BY <1>1, <1>2 DEF Hashes

\* An entry of a subchunk packet.
LEMMA EntryTyped ==
    ASSUME CacheInv, NEW p \in EntryPieces
    PROVE  EntryOf(p) \in Entries /\ script[p[1]].kind = "sub"
<1>1. /\ p[1] \in 1..sent /\ script[p[1]].kind = "sub"
      /\ p[2] \in DOMAIN script[p[1]].entries
  BY DEF EntryPieces
<1>2. script[p[1]].entries \in Seq(Entries)
  BY <1>1, ScriptAssumption DEF CacheInv
<1> QED BY <1>1, <1>2 DEF EntryOf

\* A whole column of contents.
LEMMA ColumnTyped ==
    ASSUME NEW col, NEW b \in Contents, NEW f, \A y \in DOMAIN f : f[y] \in Contents
    PROVE  \A x \in DOMAIN ColumnOf(col, f, b) : ColumnOf(col, f, b)[x] \in Contents
<1>1. Nothing \in Contents
  BY DEF Contents
<1> HIDE DEF Contents
<1> QED BY <1>1 DEF ColumnOf

\* What a piece is meant to fill it fills with contents.
LEMMA FillsTyped ==
    ASSUME CacheInv, NEW p, p \in EntryPieces \/ (p[1] \in LevelNos)
    PROVE  \A x \in DOMAIN Meant(p) : Meant(p)[x] \in Contents
<1>1. CASE p \in EntryPieces
  <2>1. EntryOf(p).blob \in Contents /\ Air \in Contents /\ script[p[1]].kind # "level"
    BY <1>1, EntryTyped DEF Entries, Contents, Blobs
  <2> QED BY <2>1 DEF Meant, EntryFills
<1>2. CASE p[1] \in LevelNos
  <2> DEFINE m == script[p[1]]
             places == DOMAIN m.sections
             f == [y \in {HeightAt(m.sections, i) : i \in places} |->
                     m.sections[CHOOSE i \in places : HeightAt(m.sections, i) = y]]
  <2>1. m.sections \in Seq(SectionBlobs) /\ m.biomes \in Contents /\ m.kind = "level"
    BY <1>2, LevelTyped DEF Contents, Blobs
  <2>2. \A i \in places : m.sections[i] \in Contents
    BY <2>1 DEF Contents, Blobs
  <2>3. \A y \in DOMAIN f : f[y] \in Contents
    BY <2>2
  <2>4. Meant(p) = ColumnOf(m.col, f, m.biomes)
    BY <2>1 DEF Meant, LevelFills
  <2> HIDE DEF f, m
  <2> QED BY <2>1, <2>3, <2>4, ColumnTyped
<1> QED BY <1>1, <1>2

\* So does the section of an entry, at whatever height.
LEMMA EntryFillsTyped ==
    ASSUME CacheInv, NEW p \in EntryPieces, NEW y
    PROVE  \A x \in DOMAIN EntryFills(EntryOf(p), y) : EntryFills(EntryOf(p), y)[x] \in Contents
<1>1. EntryOf(p).blob \in Contents /\ Air \in Contents
  BY EntryTyped DEF Entries, Contents, Blobs
<1> QED BY <1>1 DEF EntryFills

\* So does what a cached level chunk decodes to.
LEMMA DecodedTyped ==
    ASSUME CacheInv, NEW n \in LevelNos
    PROVE  \A x \in DOMAIN Decoded(n) : Decoded(n)[x] \in Contents
<1> DEFINE height(h) == IF OwnHeight[h] = NoHeight THEN store[h].y ELSE OwnHeight[h]
           f == [y \in {height(h) : h \in KnownSections(n)} |->
                    CHOOSE h \in KnownSections(n) : height(h) = y]
<1>1. KnownSections(n) \subseteq Contents /\ script[n].biomes \in Contents
  <2>1. ToSet(script[n].sections) \subseteq SectionBlobs
    BY LevelTyped, ElementsTyped
  <2> QED BY <2>1, LevelTyped DEF KnownSections, Contents, Blobs
<1>2. \A y \in DOMAIN f : f[y] \in Contents
  BY <1>1
<1>3. Decoded(n) = ColumnOf(script[n].col, f, script[n].biomes)
  BY DEF Decoded
<1> HIDE DEF f
<1> QED BY <1>1, <1>2, <1>3, ColumnTyped

\* The notes of a level chunk are notes.
LEMMA NotedTyped ==
    ASSUME CacheInv, NEW n \in LevelNos, meta \in [Blobs -> Infos]
    PROVE  Noted(n) \in [Blobs -> Infos]
<1> SUFFICES ASSUME NEW h \in Blobs PROVE Noted(n)[h] \in Infos
  BY DEF Noted
<1> DEFINE S == {i \in DOMAIN Hashes(n) : Hashes(n)[i] = h}
<1>1. Hashes(n) \in Seq(Blobs) /\ script[n].sections \in Seq(SectionBlobs)
  BY LevelTyped
<1>2. DOMAIN Hashes(n) = 1..Len(Hashes(n)) /\ Len(Hashes(n)) \in Nat
  BY <1>1
<1>3. CASE S = {}
  <2>1. Noted(n)[h] = meta[h]
    BY <1>3 DEF Noted
  <2> QED BY <2>1
<1>4. CASE S # {}
  <2>1. Max(S) \in 1..Len(Hashes(n))
    <3>1. S \in SUBSET (1..Len(Hashes(n)))
      BY <1>2
    <3> HIDE DEF S
    <3> QED BY <1>2, <1>4, <3>1, LastPlace
  <2>2. Noted(n)[h] = IF Max(S) <= Len(script[n].sections)
                      THEN Section(Max(S) - 1) ELSE BiomeInfo
    BY <1>4 DEF Noted
  <2>3. Max(S) - 1 \in Nat
    BY <1>2, <2>1
  <2> HIDE DEF S
  <2>4. Section(Max(S) - 1) \in Infos /\ BiomeInfo \in Infos
    BY <2>3 DEF Infos, Info, Section, BiomeInfo
  <2> QED BY <2>2, <2>4
<1> QED BY <1>3, <1>4

\* The types that CacheInv leaves out, and what the loops say of the locals.
StateInv ==
    /\ store \in [Blobs -> Infos] /\ meta \in [Blobs -> Infos] /\ given \subseteq Blobs
    /\ world \in [Cells -> Contents]
    /\ failed \in BOOLEAN /\ garbled \in BOOLEAN /\ twice \in BOOLEAN
    /\ at \in {"idle", "entries", "blobs", "levels", "subs"} /\ asks \in BOOLEAN
    /\ at = "idle" => todo = <<>> /\ still = <<>> /\ miss = <<>> /\ ~asks
    /\ at = "blobs" => todo \in Seq(Blobs)
    /\ miss # <<>> => asks
    /\ \A i \in DOMAIN toClient : toClient[i].chunk # 0 => toClient[i].blobs = <<>>

\* Initially the types hold.
LEMMA InitState == Init => StateInv
<1> SUFFICES ASSUME Init PROVE StateInv
  OBVIOUS
<1>1. NoInfo \in Infos /\ Nothing \in Contents
  BY DEF Infos, Contents
<1>2. store \in [Blobs -> Infos] /\ meta \in [Blobs -> Infos]
  BY <1>1 DEF Init
<1>3. world \in [Cells -> Contents]
  BY <1>1 DEF Init
<1>4. \A i \in DOMAIN toClient : toClient[i].chunk # 0 => toClient[i].blobs = <<>>
  BY DEF Init
<1>5. failed \in BOOLEAN /\ garbled \in BOOLEAN /\ twice \in BOOLEAN /\ asks \in BOOLEAN
  BY DEF Init
<1>6. given = {} /\ at = "idle" /\ todo = <<>> /\ still = <<>> /\ miss = <<>> /\ ~asks
  BY DEF Init
<1> QED BY <1>2, <1>3, <1>4, <1>5, <1>6 DEF StateInv

\* What is written into the world are contents.
LEMMA WriteContents ==
    ASSUME StateInv, NEW p, NEW c, Write(p, c), \A x \in DOMAIN c : c[x] \in Contents
    PROVE  world' \in [Cells -> Contents] /\ garbled' \in BOOLEAN
<1>1. world' \in [Cells -> Contents]
  BY DEF Write, StateInv
<1>2. garbled' \in BOOLEAN
  BY DEF Write, StateInv
<1> QED BY <1>1, <1>2

\* Packets that carry chunks carry no blobs.
ChunksBare(c) == \A i \in DOMAIN c : c[i].chunk # 0 => c[i].blobs = <<>>

\* The packets that remain.
LEMMA BareTail ==
    ASSUME NEW S, NEW c \in Seq(S), c # <<>>, ChunksBare(c)
    PROVE  ChunksBare(Tail(c)) /\ (Head(c).chunk # 0 => Head(c).blobs = <<>>)
<1> DEFINE u == Tail(c)
           h == Head(c)
<1>1. /\ DOMAIN u = 1..(Len(c) - 1) /\ DOMAIN c = 1..Len(c) /\ Len(c) \in Nat
      /\ \A i \in DOMAIN u : u[i] = c[i + 1] /\ i + 1 \in DOMAIN c
      /\ h = c[1] /\ 1 \in DOMAIN c
  OBVIOUS
<1> HIDE DEF u, h
<1> QED BY <1>1 DEF ChunksBare, u, h

\* Two lists of packets joined.
LEMMA BareJoined ==
    ASSUME NEW S, NEW c \in Seq(S), NEW b \in Seq(S), ChunksBare(c), ChunksBare(b)
    PROVE  ChunksBare(c \o b)
<1> DEFINE a == c \o b
<1>1. /\ DOMAIN c = 1..Len(c) /\ Len(c) \in Nat /\ DOMAIN b = 1..Len(b) /\ Len(b) \in Nat
      /\ DOMAIN a = 1..(Len(c) + Len(b))
      /\ \A i \in 1..Len(c) : a[i] = c[i]
      /\ \A i \in (Len(c) + 1)..(Len(c) + Len(b)) : a[i] = b[i - Len(c)]
  OBVIOUS
<1>2. ASSUME NEW i \in DOMAIN a, a[i].chunk # 0 PROVE a[i].blobs = <<>>
  <2>1. CASE i \in 1..Len(c)
    BY <1>1, <1>2, <2>1 DEF ChunksBare
  <2>2. CASE i \in (Len(c) + 1)..(Len(c) + Len(b))
    <3>1. i - Len(c) \in DOMAIN b /\ a[i] = b[i - Len(c)]
      BY <1>1, <2>2
    <3> QED BY <1>2, <3>1 DEF ChunksBare
  <2> QED BY <1>1, <2>1, <2>2
<1> QED BY <1>2 DEF ChunksBare

\* One packet more.
LEMMA BareAppended ==
    ASSUME NEW S, NEW c \in Seq(S), NEW e \in S, ChunksBare(c), e.blobs = <<>>
    PROVE  ChunksBare(Append(c, e))
BY DEF ChunksBare

\* The first packet on its way.
LEMMA FirstPacket ==
    ASSUME CacheInv, StateInv, toClient # <<>>
    PROVE  /\ Head(toClient) \in Packets /\ Tail(toClient) \in Seq(Packets)
           /\ ChunksBare(Tail(toClient))
           /\ Head(toClient).chunk # 0 => Head(toClient).blobs = <<>>
<1>1. toClient \in Seq(Packets) /\ ChunksBare(toClient)
  BY DEF CacheInv, StateInv, ChunksBare
<1> QED BY <1>1, HeadTail, BareTail

\* The first packet is a level chunk of the server.
LEMMA FirstLevel ==
    ASSUME CacheInv, toClient # <<>>, Head(toClient).chunk # 0,
           script[Head(toClient).chunk].kind = "level"
    PROVE  Head(toClient).chunk \in LevelNos
<1>1. Head(toClient) \in Packets
  BY HeadTail DEF CacheInv
<1>2. sent \in Nat
  BY ScriptAssumption DEF CacheInv
<1> QED BY <1>1, <1>2 DEF Packets, LevelNos

\* A try of a level chunk, and a handler that throws, keep the types.
LEMMA TryState ==
    ASSUME CacheInv, StateInv, NEW n \in LevelNos, TryLevelChunk(n)
    PROVE  meta' \in [Blobs -> Infos]
BY NotedTyped DEF TryLevelChunk, StateInv

\* Storing a level chunk keeps the types.
LEMMA StoreState ==
    ASSUME CacheInv, StateInv, NEW n \in LevelNos, StoreLevelChunk(n)
    PROVE  world' \in [Cells -> Contents] /\ garbled' \in BOOLEAN
<1>1. \A x \in DOMAIN Meant(<<n, 1>>) : Meant(<<n, 1>>)[x] \in Contents
  <2>1. <<n, 1>>[1] \in LevelNos
    OBVIOUS
  <2> QED BY <2>1, FillsTyped
<1>2. \A x \in DOMAIN Decoded(n) : Decoded(n)[x] \in Contents
  BY DecodedTyped
<1> DEFINE c == IF script[n].cached THEN Decoded(n) ELSE Meant(<<n, 1>>)
<1>3. \A x \in DOMAIN c : c[x] \in Contents
  BY <1>1, <1>2
<1>4. Write(<<n, 1>>, c)
  BY DEF StoreLevelChunk
<1> HIDE DEF c
<1> QED BY <1>3, <1>4, WriteContents

\* Every step keeps the types.
LEMMA StateStep == ASSUME CacheInv, StateInv, [Next]_vars PROVE StateInv'
<1>c. toClient \in Seq(Packets) /\ ChunksBare(toClient)
  BY DEF CacheInv, StateInv, ChunksBare
<1>i. NoInfo \in Infos /\ \A y \in Nat : Section(y) \in Infos /\ BiomeInfo \in Infos
  BY DEF Infos, Info, Section, BiomeInfo
<1> HIDE DEF Infos, Contents, Cells
<1>1. CASE Send
  <2>1. ChunksBare(toClient)'
    <3> DEFINE e == [chunk |-> sent', blobs |-> <<>>]
    <3>1. toClient \in Seq(Packets \cup {e}) /\ e \in Packets \cup {e}
      BY <1>c, SeqMonotonic
    <3>2. e.blobs = <<>> /\ toClient' = Append(toClient, e)
      BY <1>1 DEF Send
    <3> HIDE DEF e
    <3> QED BY <1>c, <3>1, <3>2, BareAppended
  <2> QED BY <1>1, <2>1 DEF Send, StateInv, ChunksBare, cache, loop, chunks
<1>2. CASE Answer
  <2>1. toServer # <<>> /\ Head(toServer) \in Statuses
    BY <1>2, HeadTail DEF Answer, CacheInv
  <2>2. PICK a \in Answers(Head(toServer)) :
          /\ toClient' = toClient \o [i \in DOMAIN a |-> [chunk |-> 0, blobs |-> a[i]]]
          /\ given' = given \cup Answered(a)
          /\ twice' = (twice \/ Repeats(a) \/ Answered(a) \cap given # {})
    BY <1>2 DEF Answer
  <2>3. a \in Seq(Seq(Blobs))
    BY <2>1, AnswersType
  <2>4. given' \subseteq Blobs
    <3>1. \A i \in DOMAIN a : Range(a[i]) \subseteq Blobs
      BY <2>3 DEF Range
    <3> QED BY <2>2, <3>1 DEF StateInv, Answered
  <2>5. twice' \in BOOLEAN
    BY <2>2
  <2>6. ChunksBare(toClient)'
    <3> DEFINE b == [i \in DOMAIN a |-> [chunk |-> 0, blobs |-> a[i]]]
    <3>1. b \in Seq(Packets) /\ \A i \in DOMAIN b : b[i].chunk = 0
      BY <2>3, AnswerPackets
    <3>2. toClient' = toClient \o b
      BY <2>2
    <3> HIDE DEF b
    <3> QED BY <1>c, <3>1, <3>2, BareJoined DEF ChunksBare
  <2> QED BY <1>2, <2>4, <2>5, <2>6 DEF Answer, StateInv, ChunksBare, cache, loop, chunks
<1>3. CASE HandleLevelChunk
  <2> DEFINE n == Head(toClient).chunk
  <2>1. n \in LevelNos /\ TryLevelChunk(n)
    BY <1>3, FirstLevel DEF HandleLevelChunk
  <2>2. ChunksBare(toClient)'
    BY <1>3, FirstPacket DEF HandleLevelChunk
  <2>3. meta' \in [Blobs -> Infos]
    BY <2>1, TryState
  <2>4. UNCHANGED <<network, store>>
    BY <1>3 DEF HandleLevelChunk
  <2>5. \/ UNCHANGED <<loop, chunks, failed>>
        \/ StoreLevelChunk(n) /\ UNCHANGED <<loop, failed>>
        \/ Throw
    BY <1>3 DEF HandleLevelChunk
  <2>6. StoreLevelChunk(n) => world' \in [Cells -> Contents] /\ garbled' \in BOOLEAN
    BY <2>1, StoreState
  <2> HIDE DEF n
  <2>7. CASE UNCHANGED <<loop, failed>>
    BY <2>2, <2>3, <2>4, <2>5, <2>6, <2>7
       DEF StateInv, ChunksBare, network, loop, chunks, Throw
  <2>8. CASE Throw
    BY <2>2, <2>3, <2>4, <2>8
       DEF StateInv, ChunksBare, network, chunks, Throw, Return, StartLoop
  <2> QED BY <2>5, <2>7, <2>8
<1>4. CASE HandleSubChunk
  <2>1. ChunksBare(toClient)'
    BY <1>4, FirstPacket DEF HandleSubChunk
  <2> QED BY <1>4, <2>1
       DEF HandleSubChunk, StateInv, ChunksBare, network, cache, chunks, StartLoop
<1>5. CASE PlainEntry
  <2> DEFINE p == Head(todo)
  <2>1. p \in EntryPieces
    BY <1>5, HeadTail DEF PlainEntry, Running, CacheInv
  <2>2. StoreSubChunk(p) => world' \in [Cells -> Contents] /\ garbled' \in BOOLEAN
    BY <2>1, EntryFillsTyped, WriteContents DEF StoreSubChunk
  <2>3. \/ NextRound /\ UNCHANGED <<chunks, failed>>
        \/ StoreSubChunk(p) /\ NextRound /\ UNCHANGED failed
        \/ Throw
    BY <1>5 DEF PlainEntry
  <2>4. at = "entries" /\ UNCHANGED <<network, toClient, cache>>
    BY <1>5 DEF PlainEntry, Running
  <2> HIDE DEF p
  <2> QED BY <2>2, <2>3, <2>4
       DEF StateInv, network, cache, chunks, NextRound, Throw, Return, StartLoop
<1>6. CASE CachedEntry
  <2> DEFINE p == Head(todo)
             h == EntryOf(p).blob
  <2>1. p \in EntryPieces /\ todo # <<>> /\ at = "entries"
    BY <1>6, HeadTail DEF CachedEntry, Running, CacheInv
  <2>2. StoreSubChunk(p) => world' \in [Cells -> Contents] /\ garbled' \in BOOLEAN
    BY <2>1, EntryFillsTyped, WriteContents DEF StoreSubChunk
  <2>3. EntryOf(p).y \in Nat
    BY <2>1, EntryTyped, HeightAssumption DEF Entries
  <2>4. meta' \in [Blobs -> Infos]
    <3>1. \/ meta' = [meta EXCEPT ![h] = Section(EntryOf(p).y)]
          \/ meta' = [meta EXCEPT ![h] = NoInfo]
      BY <1>6 DEF CachedEntry
    <3> HIDE DEF h, p
    <3> QED BY <1>i, <2>3, <3>1 DEF StateInv
  <2>5. \/ miss' = Append(miss, h) /\ asks' = TRUE /\ UNCHANGED <<at, chunks, failed>>
        \/ /\ StoreSubChunk(p) /\ asks' = TRUE /\ UNCHANGED <<at, miss, failed>>
        \/ Throw
    BY <1>6 DEF CachedEntry
  <2>6. UNCHANGED <<network, toClient, store>>
    BY <1>6 DEF CachedEntry
  <2> HIDE DEF p, h
  <2> QED BY <2>1, <2>2, <2>4, <2>5, <2>6
       DEF StateInv, network, chunks, Throw, Return, StartLoop
<1>7. CASE SubChunkStatus
  BY <1>7 DEF SubChunkStatus, StateInv, network, cache, chunks, Return, StartLoop
<1>8. CASE HandleClientCacheMissResponse
  <2>1. ChunksBare(toClient)' /\ Head(toClient).blobs \in Seq(Blobs)
    BY <1>8, FirstPacket DEF HandleClientCacheMissResponse, Packets
  <2> QED BY <1>8, <2>1 DEF HandleClientCacheMissResponse, StateInv, ChunksBare,
       network, cache, chunks, StartLoop
<1>9. CASE StoreBlob
  <2>1. todo \in Seq(Blobs) /\ todo # <<>> /\ at = "blobs"
    BY <1>9 DEF StoreBlob, Running, StateInv
  <2>2. Head(todo) \in Blobs /\ Tail(todo) \in Seq(Blobs)
    BY <2>1, HeadTail
  <2> DEFINE i == IF meta[Head(todo)] = NoInfo THEN BiomeInfo ELSE meta[Head(todo)]
  <2>3. i \in Infos
    <3>1. BiomeInfo \in Infos
      BY <1>i
    <3> QED BY <2>2, <3>1 DEF StateInv
  <2>4. store' \in [Blobs -> Infos] /\ meta' \in [Blobs -> Infos]
    <3>1. /\ store' = [store EXCEPT ![Head(todo)] = i]
          /\ meta' = [meta EXCEPT ![Head(todo)] = NoInfo]
      BY <1>9 DEF StoreBlob
    <3> HIDE DEF i
    <3> QED BY <1>i, <2>2, <2>3, <3>1 DEF StateInv
  <2> QED BY <1>9, <2>1, <2>2, <2>4
       DEF StoreBlob, StateInv, network, chunks, NextRound
<1>10. CASE RetryLevelChunks
  BY <1>10 DEF RetryLevelChunks, StateInv, network, cache, chunks, StartLoop
<1>11. CASE RetryLevelChunk
  <2> DEFINE n == Head(todo)
  <2>1. n \in LevelNos /\ TryLevelChunk(n) /\ at = "levels"
    BY <1>11, HeadTail DEF RetryLevelChunk, Running, CacheInv
  <2>2. meta' \in [Blobs -> Infos]
    BY <2>1, TryState
  <2>3. UNCHANGED <<network, toClient, store>>
    BY <1>11 DEF RetryLevelChunk
  <2>4. \/ KeepForLater /\ UNCHANGED <<chunks, failed>>
        \/ StoreLevelChunk(n) /\ NextRound /\ UNCHANGED failed
        \/ Throw
    BY <1>11 DEF RetryLevelChunk
  <2>5. StoreLevelChunk(n) => world' \in [Cells -> Contents] /\ garbled' \in BOOLEAN
    BY <2>1, StoreState
  <2> HIDE DEF n
  <2> QED BY <2>1, <2>2, <2>3, <2>4, <2>5 DEF StateInv, network, chunks, NextRound,
       KeepForLater, Throw, Return, StartLoop
<1>12. CASE RetrySubChunks
  BY <1>12 DEF RetrySubChunks, StateInv, network, cache, chunks, StartLoop
<1>13. CASE RetrySubChunk
  <2> DEFINE p == Head(todo)
             h == EntryOf(p).blob
  <2>1. p \in EntryPieces /\ at = "subs"
    BY <1>13, HeadTail DEF RetrySubChunk, Running, CacheInv, FillingPieces
  <2>2. StoreSubChunk(p) => world' \in [Cells -> Contents] /\ garbled' \in BOOLEAN
    BY <2>1, EntryFillsTyped, WriteContents DEF StoreSubChunk
  <2>3. meta' \in [Blobs -> Infos]
    <3>1. meta' = meta \/ meta' = [meta EXCEPT ![h] = NoInfo]
      BY <1>13 DEF RetrySubChunk
    <3> HIDE DEF h
    <3> QED BY <1>i, <3>1 DEF StateInv
  <2>4. \/ KeepForLater /\ UNCHANGED <<chunks, failed>>
        \/ StoreSubChunk(p) /\ NextRound /\ UNCHANGED failed
        \/ Throw
    BY <1>13 DEF RetrySubChunk
  <2>5. UNCHANGED <<network, toClient, store>>
    BY <1>13 DEF RetrySubChunk
  <2> HIDE DEF p, h
  <2> QED BY <2>1, <2>2, <2>3, <2>4, <2>5 DEF StateInv, network, chunks, NextRound,
       KeepForLater, Throw, Return, StartLoop
<1>14. CASE RetriesEnd
  BY <1>14 DEF RetriesEnd, StateInv, network, cache, chunks, Return, StartLoop
<1>15. CASE UNCHANGED vars
  BY <1>15 DEF vars, StateInv, network, cache, chunks, loop
<1> QED BY <1>1, <1>2, <1>3, <1>4, <1>5, <1>6, <1>7, <1>8, <1>9, <1>10, <1>11,
     <1>12, <1>13, <1>14, <1>15 DEF Next, Handle

-----------------------------------------------------------------------------
(* Blobs on the wire.                                                      *)

\* The blobs of packets and of statuses on their way.
InPackets(h, c) == \E i \in DOMAIN c : h \in ToSet(c[i].blobs)
InStatuses(h, t) == \E i \in DOMAIN t : h \in Range(t[i])

\* Membership by the elements of the lists.
LEMMA InLists ==
    ASSUME NEW h, NEW c
    PROVE  /\ InPackets(h, c) <=> \E e \in ToSet(c) : h \in ToSet(e.blobs)
           /\ InStatuses(h, c) <=> \E e \in ToSet(c) : h \in Range(e)
BY DEF InPackets, InStatuses, ToSet

\* A list of all elements of a finite set.
LEMMA SetToSeqAll ==
    ASSUME NEW S, IsFiniteSet(S)
    PROVE  /\ ToSet(SetToSeq(S)) = S
           /\ \A i, j \in DOMAIN SetToSeq(S) : SetToSeq(S)[i] = SetToSeq(S)[j] => i = j
<1> DEFINE n == Cardinality(S)
           s == SetToSeq(S)
<1>1. n \in Nat /\ ExistsBijection(1..n, S)
  BY FS_CardinalityType
<1>2. PICK f \in [1..n -> S] : IsInjective(f)
  BY <1>1 DEF ExistsBijection, Bijection, Injection, IsInjective
<1>3. s \in [1..n -> S] /\ IsInjective(s)
  BY <1>2 DEF SetToSeq
<1>4. DOMAIN s = 1..n
  BY <1>3
<1>5. ToSet(s) = S
  <2> DEFINE T == ToSet(s)
  <2>1. T \subseteq S
    BY <1>3 DEF ToSet
  <2>2. s \in Bijection(1..n, T)
    BY <1>3, <1>4 DEF Bijection, Injection, Surjection, ToSet, IsInjective
  <2>3. IsFiniteSet(T) /\ Cardinality(T) = n
    <3>1. ExistsBijection(1..n, T)
      BY <2>2 DEF ExistsBijection
    <3>2. IsFiniteSet(T)
      BY <2>1, FS_Subset
    <3> HIDE DEF n, T
    <3> QED BY <1>1, <3>1, <3>2, FS_CountingElements
  <2> HIDE DEF T
  <2>4. T = S
    BY <2>1, <2>3, FS_Subset
  <2> QED BY <2>4 DEF T
<1> QED BY <1>3, <1>5 DEF IsInjective

\* The blobs of an answer in one packet.
LEMMA AnsweredPacked ==
    ASSUME NEW b \in Seq(Blobs)
    PROVE  Answered(Packed(b)) = ToSet(b)
<1>1. CASE b = <<>>
  BY <1>1 DEF Answered, Packed, ToSet
<1>2. CASE b # <<>>
  <2>1. Packed(b) = <<b>>
    BY <1>2 DEF Packed
  <2>2. DOMAIN <<b>> = {1} /\ <<b>>[1] = b
    OBVIOUS
  <2> QED BY <2>1, <2>2 DEF Answered, Range, ToSet
<1> QED BY <1>1, <1>2

\* The blobs of an answer in a packet each.
LEMMA AnsweredSingly ==
    ASSUME NEW d \in Seq(Blobs)
    PROVE  Answered([i \in DOMAIN d |-> <<d[i]>>]) = ToSet(d)
<1> DEFINE a == [i \in DOMAIN d |-> <<d[i]>>]
<1>1. \A x : Range(<<x>>) = {x}
  BY DEF Range
<1>2. DOMAIN a = DOMAIN d /\ \A i \in DOMAIN d : Range(a[i]) = {d[i]}
  <2>1. DOMAIN a = DOMAIN d /\ \A i \in DOMAIN d : a[i] = <<d[i]>>
    OBVIOUS
  <2> HIDE DEF a
  <2> QED BY <1>1, <2>1
<1> HIDE DEF a
<1>3. Answered(a) \subseteq ToSet(d)
  BY <1>2 DEF Answered, ToSet
<1>4. ToSet(d) \subseteq Answered(a)
  BY <1>2 DEF Answered, ToSet
<1>5. Answered(a) = ToSet(d)
  BY <1>3, <1>4
<1> QED BY <1>5 DEF a

\* Every missing blob of a status is answered now, or was answered before.
LEMMA AnswersCover ==
    ASSUME NEW m \in Statuses, NEW a \in Answers(m)
    PROVE  Range(m) \subseteq given \cup Answered(a) /\ Answered(a) \subseteq Range(m)
<1>1. PICK I : IsFiniteSet(I) /\ m \in [I -> Blobs]
  BY DEF Statuses
<1>2. DOMAIN m = I /\ Range(m) \subseteq Blobs
  BY <1>1 DEF Range
<1>3. IsFiniteSet(Range(m))
  <2>1. m \in Surjection(I, Range(m))
    BY <1>1, <1>2 DEF Surjection, Range
  <2> QED BY <1>1, <2>1, FS_Surjection
<1>4. IsFiniteSet(Range(m) \ given)
  BY <1>3, FS_Subset
<1> DEFINE places == SetToSeq(DOMAIN m)
           all == [i \in DOMAIN places |-> m[places[i]]]
           distinct == SetToSeq(Range(m))
           fresh == SetToSeq(Range(m) \ given)
<1>5. /\ distinct \in Seq(Blobs) /\ ToSet(distinct) = Range(m)
  <2>1. distinct \in Seq(Range(m))
    BY <1>3, SetToSeqType
  <2> QED BY <1>2, <1>3, <2>1, SetToSeqAll, SeqMonotonic
<1>6. /\ fresh \in Seq(Blobs) /\ ToSet(fresh) = Range(m) \ given
  <2>1. fresh \in Seq(Range(m) \ given)
    BY <1>4, SetToSeqType
  <2> QED BY <1>2, <1>4, <2>1, SetToSeqAll, SeqMonotonic
<1>7. /\ all \in Seq(Blobs) /\ ToSet(all) = Range(m)
  <2>1. places \in Seq(I) /\ ToSet(places) = I
    BY <1>1, <1>2, SetToSeqType, SetToSeqAll
  <2> HIDE DEF places
  <2>2. all \in Seq(Blobs)
    BY <1>1, <2>1
  <2>3. ToSet(all) = {m[places[i]] : i \in DOMAIN places}
    BY DEF ToSet
  <2>4. ToSet(all) = Range(m)
    BY <1>2, <2>1, <2>3 DEF ToSet, Range
  <2> QED BY <2>2, <2>4
<1>8. a \in {Packed(all), Packed(distinct), Packed(fresh),
             [i \in DOMAIN distinct |-> <<distinct[i]>>]}
  BY DEF Answers
<1> HIDE DEF all, distinct, fresh
<1>9. Answered(a) \in {Range(m), Range(m) \ given}
  BY <1>5, <1>6, <1>7, <1>8, AnsweredPacked, AnsweredSingly
<1> QED BY <1>9

\* The packets of an answer hold its blobs.
LEMMA AnswerHolds ==
    ASSUME NEW a, NEW h
    PROVE  InPackets(h, [i \in DOMAIN a |-> [chunk |-> 0, blobs |-> a[i]]])
           <=> h \in Answered(a)
<1> DEFINE b == [i \in DOMAIN a |-> [chunk |-> 0, blobs |-> a[i]]]
<1>1. DOMAIN b = DOMAIN a /\ \A i \in DOMAIN a : b[i].blobs = a[i]
  OBVIOUS
<1> HIDE DEF b
<1>2. \A s : ToSet(s) = Range(s)
  BY DEF ToSet, Range
<1>3. InPackets(h, b) <=> \E i \in DOMAIN a : h \in Range(a[i])
  BY <1>1, <1>2 DEF InPackets
<1>4. h \in Answered(a) <=> \E i \in DOMAIN a : h \in Range(a[i])
  BY DEF Answered
<1> QED BY <1>3, <1>4 DEF b

\* What a status says of a list of blobs.
LEMMA MissingRange ==
    ASSUME NEW s \in Seq(Blobs), NEW h
    PROVE  h \in Range(Missing(s)) <=> h \in ToSet(s) /\ ~Has(h)
BY DEF Missing, Restrict, Range, ToSet

\* When a status names no missing blob, all blobs of the list are there.
LEMMA MissingNone ==
    ASSUME NEW s \in Seq(Blobs), Missing(s) = <<>>
    PROVE  \A h \in ToSet(s) : Has(h)
<1>1. DOMAIN Missing(s) = {}
  OBVIOUS
<1>2. DOMAIN Missing(s) = {i \in DOMAIN s : ~Has(s[i])}
  BY DEF Missing, Restrict
<1> QED BY <1>1, <1>2 DEF ToSet

-----------------------------------------------------------------------------
(* What waits has been asked for.                                          *)

\* Blobs that the server has answered, and that the client has asked for.
OnWay(h) == InPackets(h, toClient) \/ (at = "blobs" /\ h \in ToSet(todo))
Asked(h) == InStatuses(h, toServer) \/ (at = "entries" /\ h \in ToSet(miss))
Due(h) == Has(h) \/ OnWay(h) \/ Asked(h)

\* An answered blob is there or arrives; the server may not send it again.
GivenInv == \A h \in given : Has(h) \/ OnWay(h)

\* Every blob of what is pending is there, arrives or has been asked for.
PendingDue ==
    /\ \A n \in ToSet(pendL) : \A h \in ToSet(Hashes(n)) : Due(h)
    /\ \A p \in ToSet(pendS) : Due(EntryOf(p).blob)

\* What is pending lacks a blob, unless it is about to be tried again.
PendingLacks ==
    /\ at \notin {"blobs", "levels"} =>
         \A n \in ToSet(pendL) : Missing(Hashes(n)) # <<>>
    /\ at = "levels" => \A n \in ToSet(still) : Missing(Hashes(n)) # <<>>
    /\ at \notin {"blobs", "levels", "subs"} =>
         \A p \in ToSet(pendS) : ~Has(EntryOf(p).blob)
    /\ at = "subs" => \A p \in ToSet(still) : ~Has(EntryOf(p).blob)

DueInv == GivenInv /\ (~failed => PendingDue /\ PendingLacks)

\* A step that keeps script and store leaves blobs and hashes as they are.
LEMMA SameStore ==
    ASSUME UNCHANGED <<script, store>>
    PROVE  /\ \A h : Has(h)' <=> Has(h)
           /\ \A n : Hashes(n)' = Hashes(n) /\ Missing(Hashes(n))' = Missing(Hashes(n))
           /\ \A p : EntryOf(p)' = EntryOf(p)
<1>1. \A h : Has(h)' <=> Has(h)
  BY DEF Has
<1>2. \A n : Hashes(n)' = Hashes(n)
  BY DEF Hashes
<1>3. \A n : Missing(Hashes(n))' = Missing(Hashes(n))
  BY <1>2 DEF Missing, Has
<1> QED BY <1>1, <1>2, <1>3 DEF EntryOf

\* The first packet leaves the wire.
LEMMA WayRest ==
    ASSUME CacheInv, toClient # <<>>, NEW h
    PROVE  InPackets(h, toClient) <=>
             InPackets(h, Tail(toClient)) \/ h \in ToSet(Head(toClient).blobs)
<1>1. ToSet(toClient) = ToSet(Tail(toClient)) \cup {Head(toClient)}
  BY SetRest DEF CacheInv
<1> QED BY <1>1, InLists

\* A status is sent.
LEMMA AskedMore ==
    ASSUME CacheInv, NEW s \in Statuses, NEW h
    PROVE  InStatuses(h, Append(toServer, s)) <=> InStatuses(h, toServer) \/ h \in Range(s)
<1>1. ToSet(Append(toServer, s)) = ToSet(toServer) \cup {s}
  BY SetAppended DEF CacheInv
<1> QED BY <1>1, InLists

\* A blob that is there, arrives or was asked for stays so.
WayKept(h) ==
    /\ Has(h) => Has(h)'
    /\ Has(h) \/ OnWay(h) => Has(h)' \/ OnWay(h)'
    /\ ~failed' /\ Due(h) => Due(h)'

\* A step of a loop other than that over the blobs of an answer.
LEMMA WayQuiet ==
    ASSUME UNCHANGED <<store, toClient>>, at # "blobs" \/ todo = <<>>, NEW h,
           ~failed' /\ Asked(h) => Asked(h)'
    PROVE  WayKept(h)
<1>1. ToSet(<<>>) = {}
  BY DEF ToSet
<1>2. Has(h)' <=> Has(h)
  BY DEF Has
<1>3. OnWay(h) => InPackets(h, toClient)'
  BY <1>1 DEF OnWay
<1> QED BY <1>2, <1>3 DEF WayKept, Due, OnWay

\* The first packet, which names no blobs, leaves the wire.
LEMMA WayBare ==
    ASSUME CacheInv, StateInv, UNCHANGED store, at = "idle", NEW h,
           toClient # <<>>, toClient' = Tail(toClient), Head(toClient).chunk # 0,
           InStatuses(h, toServer) => InStatuses(h, toServer')
    PROVE  WayKept(h)
<1>1. Head(toClient).blobs = <<>>
  BY FirstPacket
<1>2. InPackets(h, toClient) => InPackets(h, toClient')
  BY <1>1, WayRest DEF ToSet
<1>3. Has(h)' <=> Has(h)
  BY DEF Has
<1> HIDE DEF InPackets, InStatuses
<1> QED BY <1>2, <1>3 DEF WayKept, Due, OnWay, Asked

\* A try of a level chunk only adds a status.
LEMMA TryAsks ==
    ASSUME CacheInv, NEW n \in LevelNos, TryLevelChunk(n), NEW h
    PROVE  /\ InStatuses(h, toServer) => InStatuses(h, toServer')
           /\ script[n].cached /\ h \in ToSet(Hashes(n)) =>
                Has(h) \/ InStatuses(h, toServer')
<1>1. Hashes(n) \in Seq(Blobs) /\ Missing(Hashes(n)) \in Statuses
  BY LevelTyped, StatusType
<1>2. h \in Range(Missing(Hashes(n))) <=> h \in ToSet(Hashes(n)) /\ ~Has(h)
  BY <1>1, MissingRange
<1>3. CASE script[n].cached
  <2>1. toServer' = Append(toServer, Missing(Hashes(n)))
    BY <1>3 DEF TryLevelChunk
  <2> QED BY <1>1, <1>2, <2>1, AskedMore
<1>4. CASE ~script[n].cached
  BY <1>4 DEF TryLevelChunk
<1> QED BY <1>3, <1>4

\* An answered blob stays answered, or arrives; an asked one is answered.
LEMMA WayAnswered ==
    ASSUME CacheInv, StateInv, GivenInv, Answer, NEW h
    PROVE  WayKept(h) /\ (h \in given' => Has(h)' \/ OnWay(h)')
<1>1. toServer # <<>> /\ Head(toServer) \in Statuses /\ toServer' = Tail(toServer)
  BY HeadTail DEF Answer, CacheInv
<1>2. PICK a \in Answers(Head(toServer)) :
        /\ toClient' = toClient \o [i \in DOMAIN a |-> [chunk |-> 0, blobs |-> a[i]]]
        /\ given' = given \cup Answered(a)
  BY DEF Answer
<1>3. a \in Seq(Seq(Blobs))
  BY <1>1, AnswersType
<1> DEFINE b == [i \in DOMAIN a |-> [chunk |-> 0, blobs |-> a[i]]]
<1>4. b \in Seq(Packets) /\ toClient \in Seq(Packets)
  BY <1>3, AnswerPackets DEF CacheInv
<1>5. InPackets(h, b) <=> h \in Answered(a)
  BY AnswerHolds
<1>6. toClient' = toClient \o b
  BY <1>2
<1> HIDE DEF b
<1>7. InPackets(h, toClient') <=> InPackets(h, toClient) \/ h \in Answered(a)
  <2>1. ToSet(toClient') = ToSet(toClient) \cup ToSet(b)
    BY <1>4, <1>6, SetJoined
  <2> QED BY <1>5, <2>1, InLists
<1>8. Range(Head(toServer)) \subseteq given \cup Answered(a)
  BY <1>1, AnswersCover
<1>9. InStatuses(h, toServer) => InStatuses(h, toServer') \/ h \in Range(Head(toServer))
  <2>1. ToSet(toServer) = ToSet(Tail(toServer)) \cup {Head(toServer)}
    BY <1>1, SetRest DEF CacheInv
  <2> QED BY <1>1, <2>1, InLists
<1>10. UNCHANGED <<store, at, todo, miss>>
  BY DEF Answer, cache, loop
<1>11. Has(h)' <=> Has(h)
  BY <1>10 DEF Has
<1>12. OnWay(h)' <=> OnWay(h) \/ h \in Answered(a)
  BY <1>7, <1>10 DEF OnWay
<1>13. h \in given => Has(h) \/ OnWay(h)
  BY DEF GivenInv
<1>14. Asked(h) => Asked(h)' \/ h \in given \cup Answered(a)
  BY <1>8, <1>9, <1>10 DEF Asked
<1> HIDE DEF OnWay, Asked, Has
<1> QED BY <1>2, <1>11, <1>12, <1>13, <1>14 DEF WayKept, Due

\* No step loses a blob that is there, arrives or was asked for.
LEMMA WayStep ==
    ASSUME CacheInv, StateInv, GivenInv, [Next]_vars, NEW h
    PROVE  WayKept(h) /\ (h \in given' => Has(h)' \/ OnWay(h)')
<1> SUFFICES ASSUME ~Answer PROVE WayKept(h) /\ given' = given
  BY WayAnswered DEF GivenInv, WayKept
<1>g. given' = given
  BY DEF Next, Handle, HandleLevelChunk, HandleSubChunk, PlainEntry, CachedEntry,
     SubChunkStatus, HandleClientCacheMissResponse, StoreBlob, RetryLevelChunks,
     RetryLevelChunk, RetrySubChunks, RetrySubChunk, RetriesEnd, Send, network, vars
<1> SUFFICES WayKept(h)
  BY <1>g
<1>1. CASE Send
  <2> DEFINE e == [chunk |-> sent', blobs |-> <<>>]
  <2>1. toClient \in Seq(Packets \cup {e}) /\ e \in Packets \cup {e}
    BY SeqMonotonic DEF CacheInv
  <2>2. toClient' = Append(toClient, e)
    BY <1>1 DEF Send
  <2> HIDE DEF e
  <2>3. ToSet(toClient') = ToSet(toClient) \cup {e}
    BY <2>1, <2>2, SetAppended
  <2>4. InPackets(h, toClient) => InPackets(h, toClient')
    BY <2>3, InLists
  <2>5. UNCHANGED <<store, at, todo, miss, toServer>>
    BY <1>1 DEF Send, cache, loop
  <2> HIDE DEF InPackets
  <2> QED BY <2>4, <2>5 DEF WayKept, Due, OnWay, Asked, Has
<1>2. CASE HandleLevelChunk
  <2>1. Head(toClient).chunk \in LevelNos /\ TryLevelChunk(Head(toClient).chunk)
    BY <1>2, FirstLevel DEF HandleLevelChunk
  <2>2. InStatuses(h, toServer) => InStatuses(h, toServer')
    BY <2>1, TryAsks
  <2> QED BY <1>2, <2>2, WayBare DEF HandleLevelChunk
<1>3. CASE HandleSubChunk
  BY <1>3, WayBare DEF HandleSubChunk, cache
<1>4. CASE PlainEntry
  <2>1. at = "entries" /\ UNCHANGED <<store, toClient, toServer>>
    BY <1>4 DEF PlainEntry, Running, cache
  <2>2. ~failed' => UNCHANGED <<at, miss>>
    BY <1>4 DEF PlainEntry, NextRound, Throw
  <2>3. ~failed' /\ Asked(h) => Asked(h)'
    BY <2>1, <2>2 DEF Asked
  <2> QED BY <2>1, <2>3, WayQuiet
<1>5. CASE CachedEntry
  <2>1. at = "entries" /\ UNCHANGED <<store, toClient, toServer>>
    BY <1>5 DEF CachedEntry, Running
  <2>2. todo # <<>> /\ todo \in Seq(EntryPieces) /\ Head(todo) \in EntryPieces
    BY <1>5, HeadTail DEF CachedEntry, Running, CacheInv
  <2>3. EntryOf(Head(todo)).blob \in Blobs /\ miss \in Seq(Blobs)
    BY <2>2, EntryTyped DEF Entries, Blobs, CacheInv
  <2>4. ToSet(Append(miss, EntryOf(Head(todo)).blob))
          = ToSet(miss) \cup {EntryOf(Head(todo)).blob}
    BY <2>3, SetAppended
  <2>5. ~failed' => at' = at /\ (miss' = miss \/ miss' = Append(miss, EntryOf(Head(todo)).blob))
    BY <1>5 DEF CachedEntry, Throw
  <2>6. ~failed' /\ Asked(h) => Asked(h)'
    BY <2>1, <2>4, <2>5 DEF Asked
  <2> QED BY <2>1, <2>6, WayQuiet
<1>6. CASE SubChunkStatus
  <2>1. at = "entries" /\ UNCHANGED <<store, toClient>>
    BY <1>6 DEF SubChunkStatus, Over, cache
  <2>2. miss \in Seq(Blobs) /\ miss \in Statuses
    BY StatusType DEF CacheInv
  <2>3. Asked(h) => Asked(h)'
    <3>1. CASE asks
      <4>1. toServer' = Append(toServer, miss)
        BY <1>6, <3>1 DEF SubChunkStatus
      <4>2. ToSet(miss) = Range(miss)
        BY DEF ToSet, Range
      <4> QED BY <2>2, <4>1, <4>2, AskedMore DEF Asked
    <3>2. CASE ~asks
      <4>1. toServer' = toServer /\ miss = <<>>
        BY <1>6, <3>2 DEF SubChunkStatus, StateInv
      <4> QED BY <4>1 DEF Asked, ToSet
    <3> QED BY <3>1, <3>2
  <2> QED BY <2>1, <2>3, WayQuiet
<1>7. CASE HandleClientCacheMissResponse
  <2>1. at = "idle" /\ at' = "blobs" /\ todo' = Head(toClient).blobs
        /\ toClient # <<>> /\ toClient' = Tail(toClient)
    BY <1>7 DEF HandleClientCacheMissResponse, StartLoop
  <2>2. UNCHANGED <<store, toServer>>
    BY <1>7 DEF HandleClientCacheMissResponse, cache
  <2>3. InPackets(h, toClient) => InPackets(h, toClient') \/ h \in ToSet(todo')
    BY <2>1, WayRest
  <2> HIDE DEF InPackets
  <2> QED BY <2>1, <2>2, <2>3 DEF WayKept, Due, OnWay, Asked, Has
<1>8. CASE StoreBlob
  <2>1. todo \in Seq(Blobs) /\ todo # <<>> /\ at = "blobs" /\ Head(todo) \in Blobs
    BY <1>8, HeadTail DEF StoreBlob, Running, StateInv
  <2>2. ToSet(todo) = ToSet(Tail(todo)) \cup {Head(todo)}
    BY <2>1, SetRest
  <2>3. h = Head(todo) => Has(h)'
    <3>1. BiomeInfo # NoInfo
      BY DEF BiomeInfo, NoInfo
    <3>2. store'[Head(todo)] =
            IF meta[Head(todo)] = NoInfo THEN BiomeInfo ELSE meta[Head(todo)]
      BY <1>8, <2>1 DEF StoreBlob, StateInv
    <3> QED BY <3>1, <3>2 DEF Has
  <2>4. h # Head(todo) => (Has(h)' <=> Has(h))
    <3>1. store' = [store EXCEPT ![Head(todo)] =
            IF meta[Head(todo)] = NoInfo THEN BiomeInfo ELSE meta[Head(todo)]]
      BY <1>8 DEF StoreBlob
    <3> QED BY <3>1 DEF Has, StateInv
  <2>5. UNCHANGED <<toClient, toServer, at, miss>> /\ todo' = Tail(todo)
    BY <1>8 DEF StoreBlob, NextRound
  <2>6. OnWay(h) => OnWay(h)' \/ h = Head(todo)
    BY <2>1, <2>2, <2>5 DEF OnWay
  <2>7. Asked(h) => Asked(h)'
    BY <2>5 DEF Asked
  <2> HIDE DEF Has, OnWay, Asked
  <2>8. CASE h = Head(todo)
    BY <2>3, <2>8 DEF WayKept, Due
  <2>9. CASE h # Head(todo)
    BY <2>4, <2>6, <2>7, <2>9 DEF WayKept, Due
  <2> QED BY <2>8, <2>9
<1>9. CASE RetryLevelChunks
  <2>1. at = "blobs" /\ todo = <<>> /\ UNCHANGED <<store, toClient, toServer>>
    BY <1>9 DEF RetryLevelChunks, Over, cache
  <2> QED BY <2>1, WayQuiet DEF Asked
<1>10. CASE RetryLevelChunk
  <2>1. at = "levels" /\ UNCHANGED <<store, toClient>>
    BY <1>10 DEF RetryLevelChunk, Running
  <2>2. Head(todo) \in LevelNos /\ TryLevelChunk(Head(todo))
    BY <1>10, HeadTail DEF RetryLevelChunk, Running, CacheInv
  <2>3. InStatuses(h, toServer) => InStatuses(h, toServer')
    BY <2>2, TryAsks
  <2> QED BY <2>1, <2>3, WayQuiet DEF Asked
<1>11. CASE RetrySubChunks
  BY <1>11, WayQuiet DEF RetrySubChunks, Over, cache, Asked
<1>12. CASE RetrySubChunk
  BY <1>12, WayQuiet DEF RetrySubChunk, Running, Asked
<1>13. CASE RetriesEnd
  BY <1>13, WayQuiet DEF RetriesEnd, Over, cache, Asked
<1>14. CASE UNCHANGED vars
  BY <1>14 DEF vars, cache, loop, WayKept, Due, OnWay, Asked, Has
<1> QED BY <1>1, <1>2, <1>3, <1>4, <1>5, <1>6, <1>7, <1>8, <1>9, <1>10, <1>11,
     <1>12, <1>13, <1>14 DEF Next, Handle

\* The script is fixed; what was sent only grows, and failures and second
\* answers are not taken back.
LEMMA OnlyGrows ==
    ASSUME [Next]_vars
    PROVE  /\ script' = script /\ (sent' = sent \/ sent' = sent + 1)
           /\ failed => failed'
           /\ twice => twice'
<1>1. script' = script /\ (sent' = sent \/ sent' = sent + 1)
  BY DEF Next, Handle, HandleLevelChunk, HandleSubChunk, PlainEntry, CachedEntry,
     SubChunkStatus, HandleClientCacheMissResponse, StoreBlob, RetryLevelChunks,
     RetryLevelChunk, RetrySubChunks, RetrySubChunk, RetriesEnd, Send, Answer, network, vars
<1>2. failed => failed'
  BY DEF Next, Handle, HandleLevelChunk, HandleSubChunk, PlainEntry, CachedEntry,
     SubChunkStatus, HandleClientCacheMissResponse, StoreBlob, RetryLevelChunks,
     RetryLevelChunk, RetrySubChunks, RetrySubChunk, RetriesEnd, Send, Answer, Throw, vars
<1>3. twice => twice'
  BY DEF Next, Handle, HandleLevelChunk, HandleSubChunk, PlainEntry, CachedEntry,
     SubChunkStatus, HandleClientCacheMissResponse, StoreBlob, RetryLevelChunks,
     RetryLevelChunk, RetrySubChunks, RetrySubChunk, RetriesEnd, Send, Answer, network, vars
<1> QED BY <1>1, <1>2, <1>3

\* What is pending after a step was pending before, or was asked for by it.
LEMMA PendingMore ==
    ASSUME CacheInv, StateInv, Fresh, [Next]_vars, ~failed'
    PROVE  /\ script' = script /\ ~failed
           /\ \A n \in ToSet(pendL') : n \in ToSet(pendL) \/ \A h \in ToSet(Hashes(n)) : Due(h)'
           /\ \A p \in ToSet(pendS') : p \in ToSet(pendS) \/ Due(EntryOf(p).blob)'
<1>1. script' = script
  BY OnlyGrows
<1>2. ~failed
  BY OnlyGrows
<1>3. ASSUME NEW n \in ToSet(pendL'), n \notin ToSet(pendL), NEW h \in ToSet(Hashes(n))
      PROVE  Due(h)'
  <2>1. CASE HandleLevelChunk
    <3> DEFINE m == Head(toClient).chunk
    <3>1. m \in LevelNos /\ TryLevelChunk(m) /\ pendL \in Seq(LevelNos)
      BY <2>1, FirstLevel DEF HandleLevelChunk, CacheInv
    <3>2. pendL' # pendL
      BY <1>3
    <3>3. Waits(m) /\ pendL' = Append(pendL, m)
      BY <2>1, <3>2 DEF HandleLevelChunk, Throw, pending
    <3> HIDE DEF m
    <3>4. ToSet(pendL') = ToSet(pendL) \cup {m}
      BY <3>1, <3>3, SetAppended
    <3>5. n = m
      BY <1>3, <3>4
    <3>6. Has(h) \/ InStatuses(h, toServer')
      BY <1>3, <3>1, <3>3, <3>5, TryAsks DEF Waits
    <3>7. store' = store
      BY <2>1 DEF HandleLevelChunk
    <3> QED BY <3>6, <3>7 DEF Due, Asked, Has
  <2>2. CASE RetrySubChunks
    <3>1. at = "levels" /\ pendL' = still
      BY <2>2 DEF RetrySubChunks, Over
    <3>2. ToSet(still) \subseteq ToSet(pendL)
      BY <1>2, <3>1 DEF Fresh, FreshLevels
    <3> QED BY <1>3, <3>1, <3>2
  <2>3. CASE ~HandleLevelChunk /\ ~RetrySubChunks
    <3>1. pendL' = pendL
      BY <2>3 DEF Next, Handle, HandleSubChunk, PlainEntry, CachedEntry,
         SubChunkStatus, HandleClientCacheMissResponse, StoreBlob, RetryLevelChunks,
         RetryLevelChunk, RetrySubChunk, RetriesEnd, Send, Answer, Throw, pending, vars
    <3> QED BY <1>3, <3>1
  <2> QED BY <2>1, <2>2, <2>3
<1>4. ASSUME NEW p \in ToSet(pendS'), p \notin ToSet(pendS)
      PROVE  Due(EntryOf(p).blob)'
  <2>1. CASE CachedEntry
    <3> DEFINE q == Head(todo)
    <3>1. q \in EntryPieces /\ at = "entries"
      BY <2>1, HeadTail DEF CachedEntry, Running, CacheInv
    <3>2. pendS' # pendS
      BY <1>4
    <3>3. /\ pendS' = Append(pendS, q) /\ miss' = Append(miss, EntryOf(q).blob)
          /\ at' = at /\ EntryOf(q).result \in {"ok", "bad"}
      BY <2>1, <3>2 DEF CachedEntry, Throw, pending
    <3> HIDE DEF q
    <3>4. EntryOf(q).blob \in Blobs /\ miss \in Seq(Blobs)
      BY <3>1, EntryTyped DEF Entries, Blobs, CacheInv
    <3>5. q \in FillingPieces /\ pendS \in Seq(FillingPieces)
      BY <3>1, <3>3 DEF FillingPieces, CacheInv
    <3>6. p = q
      BY <1>4, <3>3, <3>5, SetAppended
    <3>7. EntryOf(q).blob \in ToSet(miss')
      BY <3>3, <3>4, SetAppended
    <3>8. at' = "entries" /\ EntryOf(p).blob \in ToSet(miss')
      BY <3>1, <3>3, <3>6, <3>7
    <3>9. EntryOf(p)' = EntryOf(p)
      BY <1>1 DEF EntryOf
    <3> QED BY <3>8, <3>9 DEF Due, Asked
  <2>2. CASE RetriesEnd
    <3>1. at = "subs" /\ pendS' = still
      BY <2>2 DEF RetriesEnd, Over
    <3>2. ToSet(still) \subseteq ToSet(pendS)
      BY <1>2, <3>1 DEF Fresh, FreshSubs
    <3> QED BY <1>4, <3>1, <3>2
  <2>3. CASE ~CachedEntry /\ ~RetriesEnd
    <3>1. pendS' = pendS
      BY <2>3 DEF Next, Handle, HandleLevelChunk, HandleSubChunk, PlainEntry,
         SubChunkStatus, HandleClientCacheMissResponse, StoreBlob, RetryLevelChunks,
         RetryLevelChunk, RetrySubChunks, RetrySubChunk, Send, Answer, Throw, pending, vars
    <3> QED BY <1>4, <3>1
  <2> QED BY <2>1, <2>2, <2>3
<1> QED BY <1>1, <1>2, <1>3, <1>4

\* What a step finds pending, and leaves pending, lacks a blob.
LEMMA LacksStep ==
    ASSUME CacheInv, StateInv, PendingLacks, [Next]_vars, ~failed', script' = script
    PROVE  PendingLacks'
<1>1. CASE StoreBlob
  <2>1. at' = "blobs"
    BY <1>1 DEF StoreBlob, Running, NextRound
  <2> QED BY <2>1 DEF PendingLacks
<1>2. CASE ~StoreBlob
  <2>s. store' = store
    BY <1>2 DEF Next, Handle, HandleLevelChunk, HandleSubChunk, PlainEntry, CachedEntry,
     SubChunkStatus, HandleClientCacheMissResponse, RetryLevelChunks,
     RetryLevelChunk, RetrySubChunks, RetrySubChunk, RetriesEnd, Send, Answer, cache, vars
  <2> DEFINE L(n) == Missing(Hashes(n)) # <<>>
             S(p) == ~Has(EntryOf(p).blob)
  <2>w. (\A n : L(n)' <=> L(n)) /\ (\A p : S(p)' <=> S(p))
    BY <2>s, SameStore
  <2>e. \A n : n \notin ToSet(<<>>)
    BY DEF ToSet
  <2>o. PendingLacks <=>
          /\ at \notin {"blobs", "levels"} => \A n \in ToSet(pendL) : L(n)
          /\ at = "levels" => \A n \in ToSet(still) : L(n)
          /\ at \notin {"blobs", "levels", "subs"} => \A p \in ToSet(pendS) : S(p)
          /\ at = "subs" => \A p \in ToSet(still) : S(p)
    BY DEF PendingLacks
  <2>n. PendingLacks' <=>
          /\ at' \notin {"blobs", "levels"} => \A n \in ToSet(pendL') : L(n)
          /\ at' = "levels" => \A n \in ToSet(still') : L(n)
          /\ at' \notin {"blobs", "levels", "subs"} => \A p \in ToSet(pendS') : S(p)
          /\ at' = "subs" => \A p \in ToSet(still') : S(p)
    BY <2>w DEF PendingLacks
  <2>1. CASE HandleLevelChunk
    <3> DEFINE m == Head(toClient).chunk
    <3>1. Waits(m) => L(m)
      BY DEF Waits
    <3>2. UNCHANGED <<at, still, pendS>>
          /\ (pendL' = pendL \/ (Waits(m) /\ pendL' = Append(pendL, m)))
      BY <2>1 DEF HandleLevelChunk, Throw, pending, loop
    <3>3. m \in LevelNos /\ pendL \in Seq(LevelNos) /\ at = "idle"
      BY <2>1, FirstLevel DEF HandleLevelChunk, CacheInv
    <3> HIDE DEF m, L, S
    <3>4. ToSet(Append(pendL, m)) = ToSet(pendL) \cup {m}
      BY <3>3, SetAppended
    <3> QED BY <2>o, <2>n, <3>1, <3>2, <3>3, <3>4
  <2>2. CASE CachedEntry
    <3> DEFINE q == Head(todo)
    <3>1. q \in EntryPieces /\ at = "entries"
      BY <2>2, HeadTail DEF CachedEntry, Running, CacheInv
    <3>2. UNCHANGED <<at, still, pendL>>
          /\ (pendS' = pendS \/ (S(q) /\ pendS' = Append(pendS, q)
                                  /\ EntryOf(q).result \in {"ok", "bad"}))
      BY <2>2 DEF CachedEntry, Throw, pending
    <3> HIDE DEF q, L, S
    <3>3. EntryOf(q).result \in {"ok", "bad"} => q \in FillingPieces
      BY <3>1 DEF FillingPieces
    <3>4. q \in FillingPieces => ToSet(Append(pendS, q)) = ToSet(pendS) \cup {q}
      BY SetAppended DEF CacheInv
    <3> QED BY <2>o, <2>n, <3>1, <3>2, <3>3, <3>4
  <2>3. CASE RetryLevelChunk
    <3> DEFINE m == Head(todo)
    <3>1. m \in LevelNos /\ still \in Seq(LevelNos) /\ at = "levels"
      BY <2>3, HeadTail DEF RetryLevelChunk, Running, CacheInv
    <3>2. UNCHANGED <<at, pendL, pendS>>
          /\ (still' = still \/ (L(m) /\ still' = Append(still, m)))
      BY <2>3 DEF RetryLevelChunk, Waits, KeepForLater, NextRound, Throw, pending
    <3> HIDE DEF m, L, S
    <3>3. ToSet(Append(still, m)) = ToSet(still) \cup {m}
      BY <3>1, SetAppended
    <3> QED BY <2>o, <2>n, <3>1, <3>2, <3>3
  <2>4. CASE RetrySubChunk
    <3> DEFINE q == Head(todo)
    <3>1. q \in FillingPieces /\ still \in Seq(FillingPieces) /\ at = "subs"
      BY <2>4, HeadTail DEF RetrySubChunk, Running, CacheInv
    <3>2. UNCHANGED <<at, pendL, pendS>>
          /\ (still' = still \/ (S(q) /\ still' = Append(still, q)))
      BY <2>4 DEF RetrySubChunk, KeepForLater, NextRound, Throw, pending
    <3> HIDE DEF q, L, S
    <3>3. ToSet(Append(still, q)) = ToSet(still) \cup {q}
      BY <3>1, SetAppended
    <3> QED BY <2>o, <2>n, <3>1, <3>2, <3>3
  <2>5. CASE PlainEntry
    <3>1. UNCHANGED <<at, still, pendL, pendS>>
      BY <2>5 DEF PlainEntry, NextRound, Throw, pending
    <3> HIDE DEF L, S
    <3> QED BY <2>o, <2>n, <3>1
  <2>6. CASE HandleSubChunk \/ SubChunkStatus \/ HandleClientCacheMissResponse
    <3>1. at \in {"idle", "entries"} /\ at' \in {"idle", "entries", "blobs"}
          /\ UNCHANGED <<pendL, pendS>>
      BY <2>6 DEF HandleSubChunk, SubChunkStatus, HandleClientCacheMissResponse, Over,
         Return, StartLoop, pending
    <3> HIDE DEF L, S
    <3> QED BY <2>o, <2>n, <3>1
  <2>7. CASE RetryLevelChunks
    <3>1. at' = "levels" /\ still' = <<>>
      BY <2>7 DEF RetryLevelChunks, StartLoop
    <3> HIDE DEF L, S
    <3> QED BY <2>e, <2>n, <3>1
  <2>8. CASE RetrySubChunks
    <3>1. at = "levels" /\ at' = "subs" /\ still' = <<>> /\ pendL' = still
      BY <2>8 DEF RetrySubChunks, Over, StartLoop
    <3> HIDE DEF L, S
    <3> QED BY <2>e, <2>o, <2>n, <3>1
  <2>9. CASE RetriesEnd
    <3>1. at = "subs" /\ at' = "idle" /\ pendL' = pendL /\ pendS' = still
      BY <2>9 DEF RetriesEnd, Over, Return, StartLoop
    <3> HIDE DEF L, S
    <3> QED BY <2>o, <2>n, <3>1
  <2>10. CASE Send \/ Answer \/ UNCHANGED vars
    <3>1. UNCHANGED <<at, still, pendL, pendS>>
      BY <2>10 DEF Send, Answer, vars, loop, pending
    <3> HIDE DEF L, S
    <3> QED BY <2>o, <2>n, <3>1
  <2> QED BY <1>2, <2>1, <2>2, <2>3, <2>4, <2>5, <2>6, <2>7, <2>8, <2>9, <2>10
        DEF Next, Handle
<1> QED BY <1>1, <1>2

\* Initially nothing is pending.
LEMMA InitDue == Init => DueInv
BY DEF Init, DueInv, GivenInv, PendingDue, PendingLacks, ToSet

\* Every step keeps DueInv.
LEMMA DueStep == ASSUME CacheInv, StateInv, Fresh, DueInv, [Next]_vars PROVE DueInv'
<1>1. GivenInv /\ (~failed => PendingDue /\ PendingLacks)
  BY DEF DueInv
<1>2. GivenInv'
  BY <1>1, WayStep DEF GivenInv
<1>3. ASSUME ~failed' PROVE PendingDue' /\ PendingLacks'
  <2>1. /\ script' = script /\ ~failed
        /\ \A n \in ToSet(pendL') : n \in ToSet(pendL) \/ \A h \in ToSet(Hashes(n)) : Due(h)'
        /\ \A p \in ToSet(pendS') : p \in ToSet(pendS) \/ Due(EntryOf(p).blob)'
    BY <1>3, PendingMore
  <2>2. PendingLacks'
    BY <1>1, <1>3, <2>1, LacksStep
  <2>3. \A h : Due(h) => Due(h)'
    BY <1>1, <1>3, WayStep DEF WayKept
  <2>4. (\A n : Hashes(n)' = Hashes(n)) /\ (\A p : EntryOf(p)' = EntryOf(p))
    BY <2>1 DEF Hashes, EntryOf
  <2>5. \A n \in ToSet(pendL') : \A h \in ToSet(Hashes(n)') : Due(h)'
    <3> HIDE DEF Due
    <3> QED BY <1>1, <2>1, <2>3, <2>4 DEF PendingDue
  <2>6. ASSUME NEW p \in ToSet(pendS') PROVE Due(EntryOf(p).blob)'
    <3>1. CASE p \in ToSet(pendS)
      <4> DEFINE h == EntryOf(p).blob
      <4>1. Due(h)
        BY <1>1, <2>1, <3>1 DEF PendingDue
      <4>2. PICK x : x = h
        OBVIOUS
      <4>3. Due(x)'
        BY <2>3, <4>1, <4>2
      <4>4. h' = x
        BY <2>4, <4>2
      <4> QED BY <4>3, <4>4
    <3> QED BY <2>1, <2>6, <3>1
  <2>7. PendingDue'
    <3> HIDE DEF Due
    <3> QED BY <2>5, <2>6 DEF PendingDue
  <2> QED BY <2>2, <2>7
<1> QED BY <1>2, <1>3 DEF DueInv

\* The invariants give the types, and say what waits between two packets.
LEMMA TypesHold == ASSUME CacheInv, StateInv PROVE TypeOK
<1>1. sent \in Nat
  BY ScriptAssumption DEF CacheInv
<1>2. toClient \in Seq([chunk : 0..sent, blobs : Seq(Blobs)])
  BY DEF CacheInv, Packets
<1>3. UNION {Range(toServer[i]) : i \in DOMAIN toServer} \subseteq Blobs
  <2>1. \A i \in DOMAIN toServer : toServer[i] \in Statuses
    BY DEF CacheInv
  <2>2. \A s \in Statuses : Range(s) \subseteq Blobs
    BY DEF Statuses, Range
  <2> QED BY <2>1, <2>2
<1>4. pendL \in Seq(1..sent)
  <2>1. LevelNos \subseteq 1..sent
    BY DEF LevelNos
  <2> QED BY <2>1, SeqMonotonic DEF CacheInv
<1>5. ToSet(pendS) \subseteq Announced
  BY PiecesAnnounced, ElementsTyped DEF CacheInv
<1>6. script \in Scripts /\ sent \in 0..Len(script) /\ shown \subseteq Announced
  BY DEF CacheInv
<1>7. /\ given \subseteq Blobs
      /\ store \in [Blobs -> Info \cup {NoInfo}] /\ meta \in [Blobs -> Info \cup {NoInfo}]
      /\ at \in {"idle", "entries", "blobs", "levels", "subs"}
      /\ at = "idle" => todo = <<>> /\ still = <<>> /\ miss = <<>> /\ ~asks
      /\ world \in [Cells -> Blobs \cup {Air, Nothing}]
  BY DEF StateInv, Infos, Contents
<1>8. {failed, garbled, twice} \subseteq BOOLEAN
  BY DEF StateInv
<1> QED BY <1>2, <1>3, <1>4, <1>5, <1>6, <1>7, <1>8 DEF TypeOK

\* Between two packets, what is pending waits for blobs that come.
LEMMA PendingHolds == ASSUME CacheInv, StateInv, DueInv PROVE PendingComing
<1> SUFFICES ASSUME ~failed, at = "idle"
             PROVE  /\ \A n \in ToSet(pendL) :
                          /\ Missing(Hashes(n)) # <<>>
                          /\ \A h \in Range(Missing(Hashes(n))) : Coming(h)
                    /\ \A p \in ToSet(pendS) : ~Has(EntryOf(p).blob) /\ Coming(EntryOf(p).blob)
  BY DEF PendingComing
<1>1. PendingDue /\ PendingLacks
  BY DEF DueInv
<1>2. \A h : Due(h) /\ ~Has(h) => Coming(h)
  BY DEF Due, OnWay, Asked, Coming, InPackets, InStatuses
<1>3. ASSUME NEW n \in ToSet(pendL), NEW h \in Range(Missing(Hashes(n)))
      PROVE  Coming(h)
  <2>1. n \in LevelNos
    BY ElementsTyped DEF CacheInv
  <2>2. h \in ToSet(Hashes(n)) /\ ~Has(h)
    BY <1>3, <2>1, LevelTyped, MissingRange
  <2>3. Due(h)
    BY <1>1, <2>2 DEF PendingDue
  <2> QED BY <1>2, <2>2, <2>3
<1>4. \A n \in ToSet(pendL) : Missing(Hashes(n)) # <<>>
  BY <1>1 DEF PendingLacks
<1>5. ASSUME NEW p \in ToSet(pendS)
      PROVE  ~Has(EntryOf(p).blob) /\ Coming(EntryOf(p).blob)
  <2>1. ~Has(EntryOf(p).blob)
    BY <1>1 DEF PendingLacks
  <2>2. Due(EntryOf(p).blob)
    BY <1>1 DEF PendingDue
  <2> QED BY <1>2, <2>1, <2>2
<1> QED BY <1>3, <1>4, <1>5

\* The client's blob cache never waits in vain (handleLevelChunk,
\* handleSubChunk, handleClientCacheMissResponse): between two packets, and
\* until a handler has thrown, every blob that a pending packet lacks is named
\* in a status on its way to the server or is in an answer on its way to the
\* client, whatever the server sends and however it answers.
THEOREM BlobsNotForgotten == Spec => []NoForgottenBlob
<1> DEFINE I == CacheInv /\ StateInv /\ Fresh /\ DueInv
<1>1. Init => I
  BY InitCache, InitState, InitFresh, InitDue
<1>2. I /\ [Next]_vars => I'
  BY CacheStep, StateStep, FreshStep, DueStep
<1>3. I => NoForgottenBlob
  BY TypesHold, PendingHolds DEF NoForgottenBlob
<1> QED BY <1>1, <1>2, <1>3, PTL DEF Spec

-----------------------------------------------------------------------------
(* Blobs that are not answered twice arrive once.                          *)

\* No blob has two places in these packets.
Once(c) ==
    \A i, j \in DOMAIN c : \A k \in DOMAIN c[i].blobs, l \in DOMAIN c[j].blobs :
        c[i].blobs[k] = c[j].blobs[l] => i = j /\ k = l

\* The first packet shares no blob with the rest.
LEMMA OnceRest ==
    ASSUME NEW S, NEW c \in Seq(S), c # <<>>, Once(c)
    PROVE  /\ Once(Tail(c)) /\ Distinct(Head(c).blobs)
           /\ \A h \in ToSet(Head(c).blobs) : ~InPackets(h, Tail(c))
<1> DEFINE u == Tail(c)
           e == Head(c)
<1>1. /\ DOMAIN u = 1..(Len(c) - 1) /\ DOMAIN c = 1..Len(c) /\ Len(c) \in Nat
      /\ \A i \in DOMAIN u : u[i] = c[i + 1] /\ i + 1 \in DOMAIN c
      /\ e = c[1] /\ 1 \in DOMAIN c
  OBVIOUS
<1>2. \A i, j \in DOMAIN u : i + 1 = j + 1 => i = j
  BY <1>1
<1>3. \A i \in DOMAIN u : i + 1 # 1
  BY <1>1
<1> HIDE DEF u, e
<1>4. Once(u)
  BY <1>1, <1>2 DEF Once
<1>5. Distinct(e.blobs)
  BY <1>1 DEF Once, Distinct
<1>6. \A h \in ToSet(e.blobs) : ~InPackets(h, u)
  BY <1>1, <1>3 DEF Once, InPackets, ToSet
<1> QED BY <1>4, <1>5, <1>6 DEF u, e

\* Packets with other blobs are added.
LEMMA OnceJoined ==
    ASSUME NEW S, NEW c \in Seq(S), NEW b \in Seq(S), Once(c), Once(b),
           \A h : ~(InPackets(h, c) /\ InPackets(h, b))
    PROVE  Once(c \o b)
<1> DEFINE a == c \o b
           m == Len(c)
           n == Len(b)
<1>1. /\ m \in Nat /\ n \in Nat /\ DOMAIN c = 1..m /\ DOMAIN b = 1..n
      /\ DOMAIN a = 1..(m + n)
      /\ \A i \in 1..m : a[i] = c[i]
      /\ \A i \in (m + 1)..(m + n) : a[i] = b[i - m]
  OBVIOUS
<1>2. /\ \A i \in (m + 1)..(m + n) : i - m \in 1..n
      /\ \A i \in 1..(m + n) : i \in 1..m \/ i \in (m + 1)..(m + n)
      /\ \A i, j \in (m + 1)..(m + n) : i - m = j - m => i = j
  BY <1>1
<1>3. \A i \in DOMAIN c, j \in DOMAIN b :
        \A k \in DOMAIN c[i].blobs, l \in DOMAIN b[j].blobs : c[i].blobs[k] # b[j].blobs[l]
  BY DEF InPackets, ToSet
<1> HIDE DEF a, m, n
<1> SUFFICES ASSUME NEW i \in DOMAIN a, NEW j \in DOMAIN a,
                    NEW k \in DOMAIN a[i].blobs, NEW l \in DOMAIN a[j].blobs,
                    a[i].blobs[k] = a[j].blobs[l]
             PROVE  i = j /\ k = l
  BY DEF Once, a
<1>4. CASE i \in 1..m /\ j \in 1..m
  BY <1>1, <1>4 DEF Once
<1>5. CASE i \in (m + 1)..(m + n) /\ j \in (m + 1)..(m + n)
  <2>1. i - m \in DOMAIN b /\ j - m \in DOMAIN b /\ a[i] = b[i - m] /\ a[j] = b[j - m]
    BY <1>1, <1>2, <1>5
  <2>2. i - m = j - m /\ k = l
    BY <2>1 DEF Once
  <2> QED BY <1>2, <1>5, <2>2
<1>6. CASE i \in 1..m /\ j \in (m + 1)..(m + n)
  <2>1. i \in DOMAIN c /\ j - m \in DOMAIN b /\ a[i] = c[i] /\ a[j] = b[j - m]
    BY <1>1, <1>2, <1>6
  <2> QED BY <1>3, <2>1
<1>7. CASE j \in 1..m /\ i \in (m + 1)..(m + n)
  <2>1. j \in DOMAIN c /\ i - m \in DOMAIN b /\ a[j] = c[j] /\ a[i] = b[i - m]
    BY <1>1, <1>2, <1>7
  <2> QED BY <1>3, <2>1
<1> QED BY <1>1, <1>2, <1>4, <1>5, <1>6, <1>7

\* A packet without blobs is added.
LEMMA OnceAppended ==
    ASSUME NEW S, NEW c \in Seq(S), NEW e \in S, Once(c), e.blobs = <<>>
    PROVE  Once(Append(c, e))
<1> DEFINE a == Append(c, e)
<1>1. /\ DOMAIN a = 1..(Len(c) + 1) /\ DOMAIN c = 1..Len(c) /\ Len(c) \in Nat
      /\ \A i \in 1..Len(c) : a[i] = c[i]
      /\ a[Len(c) + 1] = e
  OBVIOUS
<1>2. \A i \in DOMAIN a : i \in DOMAIN c \/ i = Len(c) + 1
  BY <1>1
<1>3. DOMAIN e.blobs = {}
  OBVIOUS
<1> HIDE DEF a
<1> QED BY <1>1, <1>2, <1>3 DEF Once, a

\* The packets of an answer that repeats no blob.
LEMMA OncePackets ==
    ASSUME NEW a, ~Repeats(a)
    PROVE  Once([i \in DOMAIN a |-> [chunk |-> 0, blobs |-> a[i]]])
<1> DEFINE b == [i \in DOMAIN a |-> [chunk |-> 0, blobs |-> a[i]]]
<1>1. DOMAIN b = DOMAIN a /\ \A i \in DOMAIN a : b[i].blobs = a[i]
  OBVIOUS
<1> HIDE DEF b
<1> QED BY <1>1 DEF Once, Repeats, b

\* While no blob is answered twice, what arrives is not there yet.
ArrivesOnce ==
    /\ Once(toClient)
    /\ at = "blobs" => Distinct(todo) /\ \A h \in ToSet(todo) : ~InPackets(h, toClient)
    /\ \A h \in Blobs : OnWay(h) => ~Has(h) /\ h \in given
    /\ \A h \in Blobs : Has(h) => h \in given
OnceInv == ~twice => ArrivesOnce

\* Initially no blob is on its way.
LEMMA InitOnce == Init => OnceInv
<1> SUFFICES ASSUME Init PROVE OnceInv
  OBVIOUS
<1>1. \A h \in Blobs : ~Has(h) /\ ~OnWay(h)
  BY DEF Init, Has, OnWay, InPackets
<1>2. Once(toClient) /\ at # "blobs"
  BY DEF Init, Once
<1> QED BY <1>1, <1>2 DEF OnceInv, ArrivesOnce

\* Every step keeps OnceInv.
LEMMA OnceStep == ASSUME CacheInv, StateInv, OnceInv, [Next]_vars PROVE OnceInv'
<1> SUFFICES ASSUME ~twice' PROVE ArrivesOnce'
  BY DEF OnceInv
<1>w. ~twice
  BY OnlyGrows
<1>a. ArrivesOnce
  BY <1>w DEF OnceInv
<1>c. toClient \in Seq(Packets)
  BY DEF CacheInv
<1>1. CASE Send
  <2> DEFINE e == [chunk |-> sent', blobs |-> <<>>]
  <2>1. toClient \in Seq(Packets \cup {e}) /\ e \in Packets \cup {e}
    BY <1>c, SeqMonotonic
  <2>2. toClient' = Append(toClient, e) /\ e.blobs = <<>>
    BY <1>1 DEF Send
  <2> HIDE DEF e
  <2>3. Once(toClient')
    BY <1>a, <2>1, <2>2, OnceAppended DEF ArrivesOnce
  <2>4. \A h : InPackets(h, toClient') <=> InPackets(h, toClient)
    <3>1. ToSet(toClient') = ToSet(toClient) \cup {e}
      BY <2>1, <2>2, SetAppended
    <3>2. ToSet(<<>>) = {}
      BY DEF ToSet
    <3> QED BY <2>2, <3>1, <3>2, InLists
  <2>5. UNCHANGED <<store, at, todo, given>>
    BY <1>1 DEF Send, cache, loop
  <2> HIDE DEF InPackets, Once, Distinct
  <2> QED BY <1>a, <2>3, <2>4, <2>5 DEF ArrivesOnce, OnWay, Has
<1>2. CASE Answer
  <2>1. toServer # <<>> /\ Head(toServer) \in Statuses
    BY <1>2, HeadTail DEF Answer, CacheInv
  <2>2. PICK a \in Answers(Head(toServer)) :
          /\ toClient' = toClient \o [i \in DOMAIN a |-> [chunk |-> 0, blobs |-> a[i]]]
          /\ given' = given \cup Answered(a)
          /\ twice' = (twice \/ Repeats(a) \/ Answered(a) \cap given # {})
    BY <1>2 DEF Answer
  <2>3. ~Repeats(a) /\ Answered(a) \cap given = {}
    BY <2>2
  <2>4. a \in Seq(Seq(Blobs))
    BY <2>1, AnswersType
  <2> DEFINE b == [i \in DOMAIN a |-> [chunk |-> 0, blobs |-> a[i]]]
  <2>5. b \in Seq(Packets) /\ Once(b) /\ toClient' = toClient \o b
    BY <2>2, <2>3, <2>4, AnswerPackets, OncePackets
  <2>6. \A h : InPackets(h, b) <=> h \in Answered(a)
    BY AnswerHolds
  <2> HIDE DEF b
  <2>7. \A h : InPackets(h, toClient') <=> InPackets(h, toClient) \/ h \in Answered(a)
    <3>1. ToSet(toClient') = ToSet(toClient) \cup ToSet(b)
      BY <1>c, <2>5, SetJoined
    <3> QED BY <2>6, <3>1, InLists
  <2>8. Answered(a) \subseteq Blobs
    <3>1. \A i \in DOMAIN a : Range(a[i]) \subseteq Blobs
      BY <2>4 DEF Range
    <3> QED BY <3>1 DEF Answered
  <2>9. \A h \in Answered(a) : ~OnWay(h) /\ ~Has(h)
    BY <1>a, <2>3, <2>8 DEF ArrivesOnce
  <2>10. Once(toClient')
    <3>1. \A h : ~(InPackets(h, toClient) /\ InPackets(h, b))
      BY <2>6, <2>9 DEF OnWay
    <3> QED BY <1>a, <1>c, <2>5, <3>1, OnceJoined DEF ArrivesOnce
  <2>11. UNCHANGED <<store, at, todo>>
    BY <1>2 DEF Answer, cache, loop
  <2>12. \A h : (Has(h)' <=> Has(h)) /\ (OnWay(h)' <=> OnWay(h) \/ h \in Answered(a))
    BY <2>7, <2>11 DEF OnWay, Has
  <2>13. at = "blobs" => \A h \in ToSet(todo) : ~InPackets(h, toClient')
    BY <1>a, <2>7, <2>9 DEF ArrivesOnce, OnWay
  <2> HIDE DEF InPackets, Once, Distinct, OnWay, Has
  <2> QED BY <1>a, <2>2, <2>9, <2>10, <2>11, <2>12, <2>13 DEF ArrivesOnce
<1>3. CASE HandleLevelChunk \/ HandleSubChunk
  <2>1. toClient # <<>> /\ toClient' = Tail(toClient) /\ Head(toClient).chunk # 0
        /\ UNCHANGED <<store, given>> /\ at = "idle"
    BY <1>3 DEF HandleLevelChunk, HandleSubChunk, network, cache
  <2>2. at' # "blobs"
    BY <1>3, <2>1 DEF HandleLevelChunk, HandleSubChunk, Throw, Return, StartLoop, loop
  <2>3. Once(toClient')
    BY <1>a, <1>c, <2>1, OnceRest DEF ArrivesOnce
  <2>4. \A h : InPackets(h, toClient') => InPackets(h, toClient)
    BY <2>1, WayRest
  <2> HIDE DEF InPackets, Once, Distinct
  <2> QED BY <1>a, <2>1, <2>2, <2>3, <2>4 DEF ArrivesOnce, OnWay, Has
<1>4. CASE HandleClientCacheMissResponse
  <2>1. toClient # <<>> /\ toClient' = Tail(toClient) /\ todo' = Head(toClient).blobs
        /\ UNCHANGED <<store, given>> /\ at = "idle" /\ at' = "blobs"
    BY <1>4 DEF HandleClientCacheMissResponse, StartLoop, network, cache
  <2>2. /\ Once(toClient') /\ Distinct(todo')
        /\ \A h \in ToSet(todo') : ~InPackets(h, toClient')
    BY <1>a, <1>c, <2>1, OnceRest DEF ArrivesOnce
  <2>3. \A h : InPackets(h, toClient) <=> InPackets(h, toClient') \/ h \in ToSet(todo')
    BY <2>1, WayRest
  <2> HIDE DEF InPackets, Once, Distinct
  <2> QED BY <1>a, <2>1, <2>2, <2>3 DEF ArrivesOnce, OnWay, Has
<1>5. CASE StoreBlob
  <2>1. todo \in Seq(Blobs) /\ todo # <<>> /\ at = "blobs" /\ Distinct(todo)
    BY <1>5, <1>a DEF StoreBlob, Running, StateInv, ArrivesOnce
  <2>2. /\ Head(todo) \in Blobs
        /\ ToSet(todo) = ToSet(Tail(todo)) \cup {Head(todo)}
        /\ Head(todo) \notin ToSet(Tail(todo)) /\ Distinct(Tail(todo))
    BY <2>1, FirstAndRest
  <2>3. UNCHANGED <<toClient, at, given>> /\ todo' = Tail(todo)
    BY <1>5 DEF StoreBlob, NextRound, network
  <2>4. \A h \in Blobs : h # Head(todo) => (Has(h)' <=> Has(h))
    <3>1. store' = [store EXCEPT ![Head(todo)] =
            IF meta[Head(todo)] = NoInfo THEN BiomeInfo ELSE meta[Head(todo)]]
      BY <1>5 DEF StoreBlob
    <3> QED BY <3>1 DEF Has, StateInv
  <2>5. OnWay(Head(todo)) /\ ~InPackets(Head(todo), toClient)
    BY <1>a, <2>1, <2>2 DEF OnWay, ArrivesOnce
  <2>6. \A h : OnWay(h)' <=> OnWay(h) /\ h # Head(todo)
    <3> HIDE DEF InPackets
    <3> QED BY <2>1, <2>2, <2>3, <2>5 DEF OnWay
  <2>7. Head(todo) \in given
    BY <1>a, <2>2, <2>5 DEF ArrivesOnce
  <2>8. at' = "blobs" => Distinct(todo') /\ \A h \in ToSet(todo') : ~InPackets(h, toClient')
    BY <1>a, <2>1, <2>2, <2>3 DEF ArrivesOnce
  <2> HIDE DEF InPackets, Once, Distinct, OnWay, Has
  <2>9. \A h \in Blobs : OnWay(h)' => ~Has(h)' /\ h \in given
    BY <1>a, <2>4, <2>6 DEF ArrivesOnce
  <2>10. \A h \in Blobs : Has(h)' => h \in given
    BY <1>a, <2>4, <2>7 DEF ArrivesOnce
  <2>11. Once(toClient')
    BY <1>a, <2>3 DEF ArrivesOnce
  <2> QED BY <2>3, <2>8, <2>9, <2>10, <2>11 DEF ArrivesOnce
<1>6. CASE \/ PlainEntry \/ CachedEntry \/ SubChunkStatus \/ RetryLevelChunks
           \/ RetryLevelChunk \/ RetrySubChunks \/ RetrySubChunk \/ RetriesEnd
           \/ UNCHANGED vars
  <2>1. UNCHANGED <<toClient, store, given>>
    BY <1>6 DEF PlainEntry, CachedEntry, SubChunkStatus, RetryLevelChunks,
       RetryLevelChunk, RetrySubChunks, RetrySubChunk, RetriesEnd, vars, network, cache
  <2>2. at' # "blobs" \/ UNCHANGED <<at, todo>>
    BY <1>6 DEF PlainEntry, CachedEntry, SubChunkStatus, RetryLevelChunks,
       RetryLevelChunk, RetrySubChunks, RetrySubChunk, RetriesEnd, vars, loop, Running,
       NextRound, KeepForLater, Throw, Return, StartLoop
  <2> HIDE DEF InPackets, Once, Distinct
  <2> QED BY <1>a, <2>1, <2>2 DEF ArrivesOnce, OnWay, Has
<1> QED BY <1>1, <1>2, <1>3, <1>4, <1>5, <1>6 DEF Next, Handle

-----------------------------------------------------------------------------
(* What is noted of a section is what the packets say of it.               *)

Fits(h, info) == info.type = "section" /\ info.y \in HeightsOf(h)
Noticed(h) == OnWay(h) \/ Asked(h)

\* A note of a section fits.  While no blob is answered twice, a section is
\* stored with a note that fits, and has one before it is stored.
NotesFit == \A h \in SectionBlobs : meta[h] # NoInfo => Fits(h, meta[h])
StoredFit ==
    \A h \in SectionBlobs :
        /\ Has(h) => Fits(h, store[h])
        /\ ~Has(h) /\ Noticed(h) => meta[h] # NoInfo
NoteInv == NotesFit /\ (~twice => StoredFit)

\* Sending names blobs at more heights.
LEMMA HeightsGrow ==
    ASSUME CacheInv, [Next]_vars, NEW h
    PROVE  HeightsOf(h) \subseteq HeightsOf(h)' /\ \A i : Fits(h, i) => Fits(h, i)'
<1>1. sent \in Nat
  BY ScriptAssumption DEF CacheInv
<1>2. script' = script /\ (sent' = sent \/ sent' = sent + 1)
  BY OnlyGrows
<1>3. 1..sent \subseteq 1..sent'
  BY <1>1, <1>2
<1>4. HeightsOf(h) \subseteq HeightsOf(h)'
  BY <1>2, <1>3 DEF HeightsOf
<1> QED BY <1>4 DEF Fits

\* The notes of a level chunk fit the sections it names.
LEMMA NotedFits ==
    ASSUME CacheInv, NEW n \in LevelNos, script[n].cached, NEW h \in SectionBlobs
    PROVE  IF h \in ToSet(Hashes(n))
           THEN Noted(n)[h] # NoInfo /\ Fits(h, Noted(n)[h])
           ELSE Noted(n)[h] = meta[h]
<1> DEFINE sections == script[n].sections
           k == Len(sections)
           S == {i \in DOMAIN Hashes(n) : Hashes(n)[i] = h}
<1>1. /\ sections \in Seq(SectionBlobs) /\ script[n].biomes \in BiomeBlobs
      /\ script[n].kind = "level" /\ n \in 1..sent
  BY LevelTyped DEF LevelNos
<1>2. sections \in Seq(Blobs) /\ script[n].biomes \in Blobs /\ h \in Blobs
  BY <1>1, SeqMonotonic DEF Blobs
<1>3. /\ k \in Nat /\ DOMAIN sections = 1..k /\ DOMAIN Hashes(n) = 1..(k + 1)
      /\ \A i \in 1..k : Hashes(n)[i] = sections[i]
      /\ Hashes(n)[k + 1] = script[n].biomes
  BY <1>2 DEF Hashes
<1>4. h # script[n].biomes
  BY <1>1, BlobAssumption
<1>5. S \subseteq 1..k /\ \A i \in S : sections[i] = h
  <2> SUFFICES ASSUME NEW i \in S PROVE i \in 1..k /\ sections[i] = h
    OBVIOUS
  <2>1. i \in 1..(k + 1) /\ Hashes(n)[i] = h
    BY <1>3
  <2> HIDE DEF S, k, sections
  <2>2. i # k + 1
    BY <2>1, <1>3, <1>4
  <2> QED BY <2>1, <2>2, <1>3
<1>6. Noted(n)[h] = IF S = {} THEN meta[h]
                    ELSE IF Max(S) <= k THEN Section(Max(S) - 1) ELSE BiomeInfo
  BY <1>2 DEF Noted
<1>7. h \in ToSet(Hashes(n)) <=> S # {}
  BY DEF ToSet
<1> HIDE DEF S, k
<1>8. CASE S = {}
  BY <1>6, <1>7, <1>8
<1>9. CASE S # {}
  <2>1. Max(S) \in S
    BY <1>3, <1>5, <1>9, LastPlace
  <2>2. Max(S) \in 1..k /\ Max(S) <= k /\ sections[Max(S)] = h
    <3>1. Max(S) \in 1..k /\ sections[Max(S)] = h
      BY <1>5, <2>1
    <3>2. \A m \in 1..k : m <= k
      BY <1>3
    <3> QED BY <3>1, <3>2
  <2>3. Noted(n)[h] = Section(Max(S) - 1)
    BY <1>6, <1>9, <2>2
  <2>4. Max(S) - 1 \in HeightsOf(h)
    <3>1. Max(S) - 1 \in {i - 1 : i \in {j \in DOMAIN sections : sections[j] = h}}
      BY <1>3, <2>2
    <3> QED BY <1>1, <3>1 DEF HeightsOf
  <2>5. Section(Max(S) - 1) # NoInfo /\ Fits(h, Section(Max(S) - 1))
    BY <2>4 DEF Section, NoInfo, Fits
  <2> QED BY <1>7, <1>9, <2>3, <2>5
<1> QED BY <1>8, <1>9

\* The note of an entry of a subchunk packet fits its blob.
LEMMA EntryFits ==
    ASSUME CacheInv, NEW p \in EntryPieces, script[p[1]].cached,
           EntryOf(p).result \in {"ok", "bad"}
    PROVE  /\ EntryOf(p).blob \in SectionBlobs
           /\ Fits(EntryOf(p).blob, Section(EntryOf(p).y)) /\ Section(EntryOf(p).y) # NoInfo
<1> DEFINE e == EntryOf(p)
           n == p[1]
<1>1. /\ n \in {m \in 1..sent : script[m].cached} /\ script[n].kind = "sub"
      /\ e \in {f \in ToSet(script[n].entries) :
                  f.blob = e.blob /\ f.result \in {"ok", "bad"}}
  BY DEF EntryPieces, EntryOf, ToSet
<1>2. e \in Entries
  BY EntryTyped
<1> HIDE DEF e, n
<1>3. e.y \in HeightsOf(e.blob)
  <2>1. e.y \in {f.y : f \in {g \in ToSet(script[n].entries) :
                                g.blob = e.blob /\ g.result \in {"ok", "bad"}}}
    BY <1>1
  <2> QED BY <1>1, <2>1 DEF HeightsOf
<1>4. e.blob \in SectionBlobs
  BY <1>2 DEF Entries
<1>5. Fits(e.blob, Section(e.y)) /\ Section(e.y) # NoInfo
  BY <1>3 DEF Fits, Section, NoInfo
<1> QED BY <1>4, <1>5 DEF e

\* A step that stores no blob, notes what fits, and forgets notes of stored blobs.
LEMMA NoteKept ==
    ASSUME CacheInv, [Next]_vars, NoteInv, UNCHANGED store, ~twice' => ~twice,
           \A h \in SectionBlobs :
             \/ meta'[h] = meta[h] \/ (meta'[h] = NoInfo /\ Has(h))
             \/ meta'[h] # NoInfo /\ Fits(h, meta'[h]),
           \A h \in SectionBlobs : ~Has(h) /\ Noticed(h)' => Noticed(h) \/ meta'[h] # NoInfo
    PROVE  NoteInv'
<1>1. \A h \in SectionBlobs : (Has(h)' <=> Has(h)) /\ store'[h] = store[h]
  BY DEF Has
<1>2. \A h, i : Fits(h, i) => Fits(h, i)'
  BY HeightsGrow
<1> HIDE DEF Has, Fits, Noticed
<1>3. NotesFit'
  <2> SUFFICES ASSUME NEW h \in SectionBlobs, meta'[h] # NoInfo PROVE Fits(h, meta[h])'
    BY DEF NotesFit
  <2>1. Fits(h, meta'[h])
    BY DEF NoteInv, NotesFit
  <2>2. PICK x : x = meta'[h]
    OBVIOUS
  <2>3. Fits(h, x)'
    BY <1>2, <2>1, <2>2
  <2> QED BY <2>2, <2>3
<1>4. ASSUME ~twice' PROVE StoredFit'
  <2>1. StoredFit
    BY <1>4 DEF NoteInv
  <2> SUFFICES ASSUME NEW h \in SectionBlobs
               PROVE  /\ Has(h)' => Fits(h, store[h])'
                      /\ ~Has(h)' /\ Noticed(h)' => meta'[h] # NoInfo
    BY DEF StoredFit
  <2>2. ~Has(h)' /\ Noticed(h)' => meta'[h] # NoInfo
    BY <1>1, <2>1 DEF StoredFit
  <2>3. ASSUME Has(h)' PROVE Fits(h, store[h])'
    <3>1. Fits(h, store[h])
      BY <1>1, <2>1, <2>3 DEF StoredFit
    <3>2. PICK x : x = store[h]
      OBVIOUS
    <3>3. Fits(h, x)'
      BY <1>2, <3>1, <3>2
    <3> QED BY <1>1, <3>2, <3>3
  <2> QED BY <2>2, <2>3
<1> QED BY <1>3, <1>4 DEF NoteInv

\* A try of a level chunk.
LEMMA TryNotes ==
    ASSUME CacheInv, StateInv, NEW n \in LevelNos, TryLevelChunk(n), NEW h \in SectionBlobs
    PROVE  /\ meta'[h] = meta[h] \/ (meta'[h] # NoInfo /\ Fits(h, meta'[h]))
           /\ InStatuses(h, toServer') => InStatuses(h, toServer) \/ meta'[h] # NoInfo
<1>1. CASE script[n].cached
  <2>1. meta' = Noted(n) /\ toServer' = Append(toServer, Missing(Hashes(n)))
    BY <1>1 DEF TryLevelChunk
  <2>2. Hashes(n) \in Seq(Blobs) /\ Missing(Hashes(n)) \in Statuses
    BY LevelTyped, StatusType
  <2>3. h \in Range(Missing(Hashes(n))) => h \in ToSet(Hashes(n))
    BY <2>2, MissingRange
  <2>4. InStatuses(h, toServer') <=> InStatuses(h, toServer) \/ h \in Range(Missing(Hashes(n)))
    BY <2>1, <2>2, AskedMore
  <2> HIDE DEF Fits, InStatuses
  <2> QED BY <1>1, <2>1, <2>3, <2>4, NotedFits
<1>2. CASE ~script[n].cached
  BY <1>2 DEF TryLevelChunk
<1> QED BY <1>1, <1>2

\* Initially nothing is noted.
LEMMA InitNotes == Init => NoteInv
<1> SUFFICES ASSUME Init PROVE NoteInv
  OBVIOUS
<1>1. \A h \in SectionBlobs : meta[h] = NoInfo /\ ~Has(h)
  BY DEF Init, Has, Blobs
<1>2. \A h : ~Noticed(h)
  BY DEF Init, Noticed, OnWay, Asked, InPackets, InStatuses
<1> QED BY <1>1, <1>2 DEF NoteInv, NotesFit, StoredFit

\* Every step keeps NoteInv.
LEMMA NoteStep == ASSUME CacheInv, StateInv, OnceInv, NoteInv, [Next]_vars PROVE NoteInv'
<1>w. ~twice' => ~twice
  BY OnlyGrows
<1>b. SectionBlobs \subseteq Blobs
  BY DEF Blobs
<1>e. ToSet(<<>>) = {}
  BY DEF ToSet
<1>1. CASE Send
  <2> DEFINE e == [chunk |-> sent', blobs |-> <<>>]
  <2>1. toClient \in Seq(Packets \cup {e}) /\ e \in Packets \cup {e}
    BY SeqMonotonic DEF CacheInv
  <2>2. toClient' = Append(toClient, e) /\ e.blobs = <<>>
    BY <1>1 DEF Send
  <2> HIDE DEF e
  <2>3. \A h : InPackets(h, toClient') => InPackets(h, toClient)
    BY <1>e, <2>1, <2>2, SetAppended, InLists
  <2>4. UNCHANGED <<store, meta, at, todo, miss, toServer>>
    BY <1>1 DEF Send, cache, loop
  <2>5. \A h : Noticed(h)' => Noticed(h)
    <3> HIDE DEF InPackets, InStatuses
    <3> QED BY <2>3, <2>4 DEF Noticed, OnWay, Asked
  <2> QED BY <1>w, <2>4, <2>5, NoteKept
<1>2. CASE Answer
  <2>1. toServer # <<>> /\ Head(toServer) \in Statuses /\ toServer' = Tail(toServer)
    BY <1>2, HeadTail DEF Answer, CacheInv
  <2>2. PICK a \in Answers(Head(toServer)) :
          toClient' = toClient \o [i \in DOMAIN a |-> [chunk |-> 0, blobs |-> a[i]]]
    BY <1>2 DEF Answer
  <2>3. a \in Seq(Seq(Blobs)) /\ Answered(a) \subseteq Range(Head(toServer))
    BY <2>1, AnswersType, AnswersCover
  <2> DEFINE b == [i \in DOMAIN a |-> [chunk |-> 0, blobs |-> a[i]]]
  <2>4. b \in Seq(Packets) /\ toClient' = toClient \o b
    BY <2>2, <2>3, AnswerPackets
  <2>5. \A h : InPackets(h, b) <=> h \in Answered(a)
    BY AnswerHolds
  <2> HIDE DEF b
  <2>6. \A h : InPackets(h, toClient') => InPackets(h, toClient) \/ h \in Answered(a)
    <3>1. ToSet(toClient') = ToSet(toClient) \cup ToSet(b)
      BY <2>4, SetJoined DEF CacheInv
    <3> QED BY <2>5, <3>1, InLists
  <2>7. \A h : InStatuses(h, toServer) <=>
                 InStatuses(h, toServer') \/ h \in Range(Head(toServer))
    <3>1. ToSet(toServer) = ToSet(toServer') \cup {Head(toServer)}
      BY <2>1, SetRest DEF CacheInv
    <3> QED BY <3>1, InLists
  <2>8. UNCHANGED <<store, meta, at, todo, miss>>
    BY <1>2 DEF Answer, cache, loop
  <2>9. \A h : Noticed(h)' => Noticed(h)
    <3> HIDE DEF InPackets, InStatuses
    <3> QED BY <2>3, <2>6, <2>7, <2>8 DEF Noticed, OnWay, Asked
  <2> QED BY <1>w, <2>8, <2>9, NoteKept
<1>3. CASE HandleLevelChunk
  <2> DEFINE n == Head(toClient).chunk
  <2>1. n \in LevelNos /\ TryLevelChunk(n) /\ toClient # <<>> /\ toClient' = Tail(toClient)
    BY <1>3, FirstLevel DEF HandleLevelChunk
  <2>2. at = "idle" /\ at' = "idle" /\ store' = store
    BY <1>3 DEF HandleLevelChunk, loop, Throw, Return, StartLoop
  <2>3. \A h : InPackets(h, toClient') => InPackets(h, toClient)
    BY <2>1, WayRest
  <2> HIDE DEF n
  <2>4. \A h \in SectionBlobs :
          /\ meta'[h] = meta[h] \/ (meta'[h] # NoInfo /\ Fits(h, meta'[h]))
          /\ InStatuses(h, toServer') => InStatuses(h, toServer) \/ meta'[h] # NoInfo
    BY <2>1, TryNotes
  <2>5. \A h \in SectionBlobs : Noticed(h)' => Noticed(h) \/ meta'[h] # NoInfo
    <3> HIDE DEF InPackets, InStatuses, Fits
    <3> QED BY <2>2, <2>3, <2>4 DEF Noticed, OnWay, Asked
  <2> QED BY <1>w, <2>2, <2>4, <2>5, NoteKept
<1>4. CASE HandleSubChunk
  <2>1. /\ toClient # <<>> /\ toClient' = Tail(toClient) /\ UNCHANGED <<store, meta, toServer>>
        /\ at' = "entries" /\ miss' = <<>>
    BY <1>4 DEF HandleSubChunk, StartLoop, cache
  <2>2. \A h : InPackets(h, toClient') => InPackets(h, toClient)
    BY <2>1, WayRest
  <2>3. \A h : Noticed(h)' => Noticed(h)
    <3> HIDE DEF InPackets, InStatuses
    <3> QED BY <1>e, <2>1, <2>2 DEF Noticed, OnWay, Asked
  <2> QED BY <1>w, <2>1, <2>3, NoteKept
<1>5. CASE PlainEntry
  <2>1. at = "entries" /\ UNCHANGED <<store, meta, toClient, toServer>>
    BY <1>5 DEF PlainEntry, Running, cache
  <2>2. at' = "idle" \/ UNCHANGED <<at, miss>>
    BY <1>5 DEF PlainEntry, NextRound, Throw, Return, StartLoop
  <2>3. \A h : Noticed(h)' => Noticed(h)
    <3> HIDE DEF InPackets, InStatuses
    <3> QED BY <2>1, <2>2 DEF Noticed, OnWay, Asked
  <2> QED BY <1>w, <2>1, <2>3, NoteKept
<1>6. CASE CachedEntry
  <2> DEFINE p == Head(todo)
             b == EntryOf(p).blob
  <2>1. p \in EntryPieces /\ at = "entries" /\ UNCHANGED <<store, toClient, toServer>>
    BY <1>6, HeadTail DEF CachedEntry, Running, CacheInv
  <2>2. b \in SectionBlobs /\ Fits(b, Section(EntryOf(p).y)) /\ Section(EntryOf(p).y) # NoInfo
    BY <1>6, <2>1, EntryFits DEF CachedEntry
  <2>3. \/ /\ meta' = [meta EXCEPT ![b] = Section(EntryOf(p).y)]
           /\ at' = at /\ miss' = Append(miss, b)
        \/ Has(b) /\ meta' = [meta EXCEPT ![b] = NoInfo] /\ UNCHANGED <<at, miss>>
        \/ meta' = [meta EXCEPT ![b] = Section(EntryOf(p).y)] /\ at' = "idle"
    BY <1>6 DEF CachedEntry, Throw, Return, StartLoop
  <2>4. ToSet(Append(miss, b)) = ToSet(miss) \cup {b}
    BY <1>b, <2>2, SetAppended DEF CacheInv
  <2>5. DOMAIN meta = Blobs
    BY DEF StateInv
  <2> HIDE DEF p, b
  <2>6. \A h \in SectionBlobs :
          \/ meta'[h] = meta[h] \/ (meta'[h] = NoInfo /\ Has(h))
          \/ meta'[h] # NoInfo /\ Fits(h, meta'[h])
    <3> HIDE DEF Fits, Has, Section, NoInfo
    <3> QED BY <1>b, <2>2, <2>3, <2>5
  <2>7. \A h \in SectionBlobs : ~Has(h) /\ Noticed(h)' => Noticed(h) \/ meta'[h] # NoInfo
    <3> HIDE DEF InPackets, InStatuses, Has, Fits, Section, NoInfo
    <3>1. CASE meta' = [meta EXCEPT ![b] = Section(EntryOf(p).y)]
               /\ at' = at /\ miss' = Append(miss, b)
      <4>1. meta'[b] # NoInfo
        BY <1>b, <2>2, <2>5, <3>1
      <4>2. \A h : Noticed(h)' => Noticed(h) \/ h = b
        BY <2>1, <2>4, <3>1 DEF Noticed, OnWay, Asked
      <4> QED BY <4>1, <4>2
    <3>2. CASE UNCHANGED <<at, miss>> \/ at' = "idle"
      BY <2>1, <3>2 DEF Noticed, OnWay, Asked
    <3> QED BY <2>3, <3>1, <3>2
  <2> QED BY <1>w, <2>1, <2>6, <2>7, NoteKept
<1>7. CASE SubChunkStatus
  <2>1. at = "entries" /\ at' = "idle" /\ UNCHANGED <<store, meta, toClient>>
        /\ toServer' \in {toServer, Append(toServer, miss)}
    BY <1>7 DEF SubChunkStatus, Over, Return, StartLoop, cache
  <2>2. miss \in Statuses /\ ToSet(miss) = Range(miss)
    BY StatusType DEF CacheInv, ToSet, Range
  <2>3. \A h : InStatuses(h, toServer') => InStatuses(h, toServer) \/ h \in ToSet(miss)
    BY <2>1, <2>2, AskedMore
  <2>4. \A h : Noticed(h)' => Noticed(h)
    <3> HIDE DEF InPackets, InStatuses
    <3> QED BY <2>1, <2>3 DEF Noticed, OnWay, Asked
  <2> QED BY <1>w, <2>1, <2>4, NoteKept
<1>8. CASE HandleClientCacheMissResponse
  <2>1. /\ toClient # <<>> /\ toClient' = Tail(toClient) /\ todo' = Head(toClient).blobs
        /\ UNCHANGED <<store, meta, toServer>> /\ at' = "blobs"
    BY <1>8 DEF HandleClientCacheMissResponse, StartLoop, cache
  <2>2. \A h : InPackets(h, toClient) <=> InPackets(h, toClient') \/ h \in ToSet(todo')
    BY <2>1, WayRest
  <2>3. \A h : Noticed(h)' => Noticed(h)
    <3> HIDE DEF InPackets, InStatuses
    <3> QED BY <2>1, <2>2 DEF Noticed, OnWay, Asked
  <2> QED BY <1>w, <2>1, <2>3, NoteKept
<1>9. CASE StoreBlob
  <2> DEFINE b == Head(todo)
             i == IF meta[b] = NoInfo THEN BiomeInfo ELSE meta[b]
  <2>1. todo \in Seq(Blobs) /\ todo # <<>> /\ at = "blobs"
    BY <1>9 DEF StoreBlob, Running, StateInv
  <2>2. b \in Blobs /\ ToSet(todo) = ToSet(Tail(todo)) \cup {b}
    BY <2>1, HeadTail, SetRest
  <2>3. /\ store' = [store EXCEPT ![b] = i] /\ meta' = [meta EXCEPT ![b] = NoInfo]
        /\ UNCHANGED <<toClient, toServer, at, miss>> /\ todo' = Tail(todo)
    BY <1>9 DEF StoreBlob, NextRound
  <2>4. store \in [Blobs -> Infos] /\ meta \in [Blobs -> Infos]
    BY DEF StateInv
  <2>5. \A h, x : Fits(h, x) => Fits(h, x)'
    BY HeightsGrow
  <2>6. Noticed(b) /\ \A h : Noticed(h)' => Noticed(h)
    <3> HIDE DEF InPackets, InStatuses
    <3> QED BY <2>1, <2>2, <2>3 DEF Noticed, OnWay, Asked
  <2>7. ~twice => ~Has(b)
    BY <2>1, <2>2 DEF OnceInv, ArrivesOnce, OnWay
  <2>8. i # NoInfo
    BY DEF BiomeInfo, NoInfo
  <2>9. meta[b] # NoInfo => i = meta[b]
    OBVIOUS
  <2> HIDE DEF b, i
  <2>10. NotesFit'
    <3> SUFFICES ASSUME NEW h \in SectionBlobs, meta'[h] # NoInfo PROVE Fits(h, meta[h])'
      BY DEF NotesFit
    <3>1. PICK x : x = meta[h]
      OBVIOUS
    <3>2. meta'[h] = x
      BY <1>b, <2>2, <2>3, <2>4, <3>1
    <3>3. Fits(h, x)
      BY <3>1, <3>2 DEF NoteInv, NotesFit
    <3> QED BY <2>5, <3>2, <3>3
  <2>11. ASSUME ~twice' PROVE StoredFit'
    <3>1. StoredFit /\ ~Has(b)
      BY <1>w, <2>7, <2>11 DEF NoteInv
    <3> SUFFICES ASSUME NEW h \in SectionBlobs
                 PROVE  /\ Has(h)' => Fits(h, store[h])'
                        /\ ~Has(h)' /\ Noticed(h)' => meta'[h] # NoInfo
      BY DEF StoredFit
    <3>2. CASE h = b
      <4>1. store'[h] = i /\ Has(h)'
        BY <2>2, <2>3, <2>4, <2>8, <3>2 DEF Has
      <4>2. meta[h] # NoInfo
        BY <2>6, <3>1, <3>2 DEF StoredFit
      <4>3. Fits(h, meta[h]) /\ i = meta[h]
        BY <2>9, <3>2, <4>2 DEF NoteInv, NotesFit
      <4>4. PICK x : x = i
        OBVIOUS
      <4>5. Fits(h, x)' /\ store'[h] = x
        BY <2>5, <4>1, <4>3, <4>4
      <4> QED BY <4>1, <4>5
    <3>3. CASE h # b
      <4>1. store'[h] = store[h] /\ meta'[h] = meta[h]
        BY <1>b, <2>3, <2>4, <3>3
      <4>2. Has(h)' <=> Has(h)
        BY <4>1 DEF Has
      <4>3. Has(h) => Fits(h, store[h])'
        <5>1. PICK x : x = store[h]
          OBVIOUS
        <5>2. Has(h) => Fits(h, x)
          BY <3>1, <5>1 DEF StoredFit
        <5> QED BY <2>5, <4>1, <5>1, <5>2
      <4>4. ~Has(h) /\ Noticed(h)' => meta'[h] # NoInfo
        BY <2>6, <3>1, <4>1 DEF StoredFit
      <4> QED BY <4>2, <4>3, <4>4
    <3> QED BY <3>2, <3>3
  <2> QED BY <2>10, <2>11 DEF NoteInv
<1>10. CASE RetryLevelChunk
  <2> DEFINE n == Head(todo)
  <2>1. n \in LevelNos /\ TryLevelChunk(n)
    BY <1>10, HeadTail DEF RetryLevelChunk, Running, CacheInv
  <2>2. at = "levels" /\ at' \in {"levels", "idle"} /\ UNCHANGED <<store, toClient>>
    BY <1>10 DEF RetryLevelChunk, Running, KeepForLater, NextRound, Throw, Return, StartLoop
  <2> HIDE DEF n
  <2>3. \A h \in SectionBlobs :
          /\ meta'[h] = meta[h] \/ (meta'[h] # NoInfo /\ Fits(h, meta'[h]))
          /\ InStatuses(h, toServer') => InStatuses(h, toServer) \/ meta'[h] # NoInfo
    BY <2>1, TryNotes
  <2>4. \A h \in SectionBlobs : Noticed(h)' => Noticed(h) \/ meta'[h] # NoInfo
    <3> HIDE DEF InPackets, InStatuses, Fits
    <3> QED BY <2>2, <2>3 DEF Noticed, OnWay, Asked
  <2> QED BY <1>w, <2>2, <2>3, <2>4, NoteKept
<1>11. CASE RetrySubChunk
  <2> DEFINE b == EntryOf(Head(todo)).blob
  <2>1. at = "subs" /\ at' \in {"subs", "idle"} /\ UNCHANGED <<store, toClient, toServer>>
    BY <1>11 DEF RetrySubChunk, Running, KeepForLater, NextRound, Throw, Return, StartLoop
  <2>2. meta' = meta \/ (Has(b) /\ meta' = [meta EXCEPT ![b] = NoInfo])
    BY <1>11 DEF RetrySubChunk
  <2> HIDE DEF b
  <2>3. \A h \in SectionBlobs : meta'[h] = meta[h] \/ (meta'[h] = NoInfo /\ Has(h))
    <3>1. DOMAIN meta = Blobs
      BY DEF StateInv
    <3> HIDE DEF Has, NoInfo
    <3> QED BY <1>b, <2>2, <3>1
  <2>4. \A h : Noticed(h)' => Noticed(h)
    <3> HIDE DEF InPackets, InStatuses
    <3> QED BY <2>1 DEF Noticed, OnWay, Asked
  <2> QED BY <1>w, <2>1, <2>3, <2>4, NoteKept
<1>12. CASE RetryLevelChunks \/ RetrySubChunks \/ RetriesEnd \/ UNCHANGED vars
  <2>1. /\ UNCHANGED <<store, meta, toClient, toServer>>
        /\ at' \in {"levels", "subs", "idle"} \/ UNCHANGED <<at, todo, miss>>
    BY <1>12 DEF RetryLevelChunks, RetrySubChunks, RetriesEnd, Return, StartLoop,
       cache, vars, loop
  <2>2. \A h : Noticed(h)' => Noticed(h)
    <3> HIDE DEF InPackets, InStatuses
    <3> QED BY <2>1 DEF Noticed, OnWay, Asked
  <2> QED BY <1>w, <2>1, <2>2, NoteKept
<1> QED BY <1>1, <1>2, <1>3, <1>4, <1>5, <1>6, <1>7, <1>8, <1>9, <1>10, <1>11,
     <1>12 DEF Next, Handle

-----------------------------------------------------------------------------
(* Nothing fails by itself.                                                *)

Calm == ~BadSent /\ ~twice
InPlace == ~twice /\ ~SharedSection /\ ~Misplaced

\* Trouble does not go away.
LEMMA CalmBefore ==
    ASSUME CacheInv, [Next]_vars PROVE (Calm' => Calm) /\ (InPlace' => InPlace)
<1>1. twice => twice'
  BY OnlyGrows
<1>2. sent \in Nat
  BY ScriptAssumption DEF CacheInv
<1>3. script' = script /\ (sent' = sent \/ sent' = sent + 1)
  BY OnlyGrows
<1>4. 1..sent \subseteq 1..sent'
  BY <1>2, <1>3
<1>5. (BadSent => BadSent') /\ (Misplaced => Misplaced')
  BY <1>3, <1>4 DEF BadSent, Misplaced
<1>6. SharedSection => SharedSection'
  <2>1. \A h : HeightsOf(h) \subseteq HeightsOf(h)'
    BY HeightsGrow
  <2> HIDE DEF HeightsOf
  <2> QED BY <2>1 DEF SharedSection
<1> QED BY <1>1, <1>5, <1>6 DEF Calm, InPlace

\* The sections of a level chunk whose blobs are there are stored as such.
LEMMA SectionsFit ==
    ASSUME CacheInv, NoteInv, ~twice, NEW n \in LevelNos, Missing(Hashes(n)) = <<>>
    PROVE  /\ \A h \in ToSet(script[n].sections) : Fits(h, store[h]) /\ h \in SectionBlobs
           /\ KnownSections(n) = ToSet(script[n].sections)
<1> DEFINE s == script[n].sections
<1>1. /\ s \in Seq(SectionBlobs) /\ script[n].biomes \in BiomeBlobs
      /\ Hashes(n) \in Seq(Blobs)
  BY LevelTyped DEF LevelNos
<1>2. \A h \in ToSet(s) : Has(h)
  <2>1. \A h \in ToSet(Hashes(n)) : Has(h)
    BY <1>1, MissingNone
  <2>2. ToSet(Hashes(n)) = ToSet(s) \cup {script[n].biomes}
    <3>1. s \in Seq(Blobs) /\ script[n].biomes \in Blobs
      BY <1>1, SeqMonotonic DEF Blobs
    <3> QED BY <3>1, SetAppended DEF Hashes
  <2> QED BY <2>1, <2>2
<1>3. \A h \in ToSet(s) : Fits(h, store[h]) /\ h \in SectionBlobs
  BY <1>1, <1>2, ElementsTyped DEF NoteInv, StoredFit
<1>4. KnownSections(n) = ToSet(s)
  BY <1>3 DEF KnownSections, Fits
<1> QED BY <1>3, <1>4

\* A level chunk whose blobs are there decodes to what it is meant to fill.
LEMMA DecodesWell ==
    ASSUME CacheInv, NoteInv, InPlace, NEW n \in LevelNos,
           script[n].cached, Missing(Hashes(n)) = <<>>
    PROVE  Decoded(n) = Meant(<<n, 1>>)
<1> DEFINE s == script[n].sections
           places == DOMAIN s
           K == KnownSections(n)
           height(h) == IF OwnHeight[h] = NoHeight THEN store[h].y ELSE OwnHeight[h]
           f == [y \in {height(h) : h \in K} |-> CHOOSE h \in K : height(h) = y]
           g == [y \in {HeightAt(s, i) : i \in places} |->
                    s[CHOOSE i \in places : HeightAt(s, i) = y]]
<1>1. /\ s \in Seq(SectionBlobs) /\ script[n].biomes \in BiomeBlobs
      /\ script[n].kind = "level" /\ n \in {m \in 1..sent : script[m].cached}
  BY LevelTyped DEF LevelNos
<1>3. \A h \in ToSet(s) : Fits(h, store[h]) /\ h \in SectionBlobs
  BY SectionsFit DEF InPlace
<1>4. K = ToSet(s)
  BY SectionsFit DEF InPlace
<1>5. ASSUME NEW i \in places PROVE height(s[i]) = HeightAt(s, i)
  <2>1. s[i] \in ToSet(s) /\ Fits(s[i], store[s[i]]) /\ s[i] \in SectionBlobs
    BY <1>3, <1>5 DEF ToSet
  <2>2. i - 1 \in HeightsOf(s[i])
    <3>1. i - 1 \in {j - 1 : j \in {k \in DOMAIN s : s[k] = s[i]}}
      BY <1>5
    <3> QED BY <1>1, <3>1 DEF HeightsOf
  <2>3. OwnHeight[s[i]] = NoHeight => store[s[i]].y = i - 1
    BY <2>1, <2>2 DEF InPlace, SharedSection, Fits
  <2> QED BY <2>3 DEF HeightAt
<1>6. \A i, j \in places : HeightAt(s, i) = HeightAt(s, j) => s[i] = s[j]
  <2>1. script \in Scripts /\ n \in DOMAIN script
    BY <1>1, ScriptAssumption DEF CacheInv
  <2> QED BY <1>1, <2>1, ColumnAssumption
<1>7. \A h \in K : \E i \in places : h = s[i]
  BY <1>4 DEF ToSet
<1>8. \A i \in places : s[i] \in K
  BY <1>4 DEF ToSet
<1> HIDE DEF K, s, height
<1>9. {height(h) : h \in K} = {HeightAt(s, i) : i \in places}
  BY <1>5, <1>7, <1>8
<1>10. ASSUME NEW y \in {HeightAt(s, i) : i \in places} PROVE f[y] = g[y]
  <2> DEFINE j == CHOOSE i \in places : HeightAt(s, i) = y
             h == CHOOSE x \in K : height(x) = y
  <2>1. j \in places /\ HeightAt(s, j) = y
    OBVIOUS
  <2>2. \E x \in K : height(x) = y
    BY <1>9
  <2>3. h \in K /\ height(h) = y
    BY <2>2
  <2>4. f[y] = h /\ g[y] = s[j]
    BY <1>9
  <2> HIDE DEF h, j, f, g
  <2>5. PICK i \in places : h = s[i]
    BY <1>7, <2>3
  <2>6. HeightAt(s, i) = y
    BY <1>5, <2>3, <2>5
  <2> QED BY <1>6, <2>1, <2>4, <2>5, <2>6
<1>11. f = g
  <2>1. f = [y \in DOMAIN f |-> f[y]] /\ g = [y \in DOMAIN g |-> g[y]]
    OBVIOUS
  <2>2. DOMAIN f = {height(h) : h \in K} /\ DOMAIN g = {HeightAt(s, i) : i \in places}
    OBVIOUS
  <2> HIDE DEF f, g
  <2> QED BY <1>9, <1>10, <2>1, <2>2
<1>12. Decoded(n) = ColumnOf(script[n].col, f, script[n].biomes)
  BY DEF Decoded, K, height
<1>13. Meant(<<n, 1>>) = ColumnOf(script[n].col, g, script[n].biomes)
  BY <1>1 DEF Meant, LevelFills, s
<1> HIDE DEF f, g
<1> QED BY <1>11, <1>12, <1>13

\* So no level chunk fails whose blobs are there, and it is written as it is meant.
LEMMA LevelWorks ==
    ASSUME CacheInv, NoteInv, NEW n \in LevelNos, ~Waits(n)
    PROVE  /\ Calm => ~MayThrow(n)
           /\ InPlace /\ MayStore(n) /\ StoreLevelChunk(n) => (garbled' <=> garbled)
<1>1. n \in 1..sent /\ script[n].kind = "level" /\ script[n].cached \in BOOLEAN
  BY LevelTyped DEF LevelNos
<1>2. Calm => MayStore(n)
  BY <1>1 DEF Calm, BadSent, MayStore
<1>3. ASSUME MayStore(n), script[n].cached PROVE Missing(Hashes(n)) = <<>>
  BY <1>3 DEF MayStore, Waits
<1>4. ASSUME Calm PROVE ~MayThrow(n)
  <2>1. script[n].cached => KnownSections(n) = ToSet(script[n].sections)
    BY <1>2, <1>3, <1>4, SectionsFit DEF Calm
  <2> QED BY <1>2, <1>4, <2>1 DEF MayThrow, MayStore
<1>5. ASSUME InPlace, MayStore(n), StoreLevelChunk(n) PROVE garbled' <=> garbled
  <2>1. script[n].cached => Decoded(n) = Meant(<<n, 1>>)
    BY <1>3, <1>5, DecodesWell
  <2> QED BY <1>5, <2>1 DEF StoreLevelChunk, Write
<1> QED BY <1>4, <1>5

\* No entry fails whose blob is there, and it is written where it is meant to be.
LEMMA EntryWorks ==
    ASSUME CacheInv, NoteInv, NEW p \in EntryPieces
    PROVE  /\ Calm => EntryOf(p).result # "bad"
           /\ Calm /\ Has(EntryOf(p).blob) => ~SubChunkFails(p)
           /\ InPlace /\ EntryOf(p).result # "bad" /\ p \in FillingPieces
              /\ StoreSubChunk(p) => (garbled' <=> garbled)
<1> DEFINE e == EntryOf(p)
<1>1. /\ p[1] \in 1..sent /\ script[p[1]].kind = "sub"
      /\ p[2] \in DOMAIN script[p[1]].entries
  BY DEF EntryPieces
<1>2. e \in Entries
  BY EntryTyped
<1>3. Calm => e.result # "bad"
  BY <1>1 DEF Calm, BadSent, EntryOf
<1>4. Calm /\ Has(e.blob) => store[e.blob].type = "section"
  <2>1. e.blob \in SectionBlobs
    BY <1>2 DEF Entries
  <2> QED BY <2>1 DEF NoteInv, StoredFit, Calm, Fits
<1>5. ASSUME InPlace, e.result # "bad", p \in FillingPieces, StoreSubChunk(p)
      PROVE  garbled' <=> garbled
  <2>1. e.result \in {"air", "ok"}
    BY <1>1, <1>2, <1>5 DEF FillingPieces, Entries
  <2>2. e.result = "ok" => OwnHeight[e.blob] \in {NoHeight, e.y}
    BY <1>1, <1>5 DEF InPlace, Misplaced, EntryOf
  <2>3. DecodedY(e) = e.y
    BY <2>1, <2>2 DEF DecodedY
  <2>4. Meant(p) = EntryFills(e, e.y)
    BY <1>1 DEF Meant
  <2> QED BY <1>5, <2>3, <2>4 DEF StoreSubChunk, Write
<1> QED BY <1>3, <1>4, <1>5 DEF SubChunkFails

\* Every step keeps OnlyKnownFailures.
LEMMA KnownStep ==
    ASSUME CacheInv, StateInv, NoteInv, OnlyKnownFailures, [Next]_vars
    PROVE  OnlyKnownFailures'
<1> SUFFICES /\ Calm' => ~failed'
             /\ InPlace' => ~garbled'
  BY DEF OnlyKnownFailures, Calm, InPlace
<1>c. (Calm' => Calm /\ ~failed) /\ (InPlace' => InPlace /\ ~garbled)
  BY CalmBefore DEF OnlyKnownFailures, Calm, InPlace
<1>t. Throw => garbled' = garbled
  BY DEF Throw, chunks
<1>1. CASE HandleLevelChunk
  <2> DEFINE n == Head(toClient).chunk
  <2>1. n \in LevelNos
    BY <1>1, FirstLevel DEF HandleLevelChunk
  <2>2. \/ UNCHANGED <<chunks, failed>>
        \/ ~Waits(n) /\ MayStore(n) /\ StoreLevelChunk(n) /\ UNCHANGED failed
        \/ ~Waits(n) /\ MayThrow(n) /\ Throw
    BY <1>1 DEF HandleLevelChunk
  <2> HIDE DEF n
  <2> QED BY <1>c, <1>t, <2>1, <2>2, LevelWorks DEF chunks
<1>2. CASE RetryLevelChunk
  <2> DEFINE n == Head(todo)
  <2>1. n \in LevelNos
    BY <1>2, HeadTail DEF RetryLevelChunk, Running, CacheInv
  <2>2. \/ UNCHANGED <<chunks, failed>>
        \/ ~Waits(n) /\ MayStore(n) /\ StoreLevelChunk(n) /\ UNCHANGED failed
        \/ ~Waits(n) /\ MayThrow(n) /\ Throw
    BY <1>2 DEF RetryLevelChunk
  <2> HIDE DEF n
  <2> QED BY <1>c, <1>t, <2>1, <2>2, LevelWorks DEF chunks
<1>3. CASE PlainEntry
  <2> DEFINE p == Head(todo)
  <2>1. p \in EntryPieces
    BY <1>3, HeadTail DEF PlainEntry, Running, CacheInv
  <2>2. \/ UNCHANGED <<chunks, failed>>
        \/ EntryOf(p).result \in {"air", "ok"} /\ StoreSubChunk(p) /\ UNCHANGED failed
        \/ EntryOf(p).result = "bad" /\ Throw
    BY <1>3 DEF PlainEntry
  <2>3. EntryOf(p).result \in {"air", "ok"} => p \in FillingPieces
    BY <2>1 DEF FillingPieces
  <2> HIDE DEF p
  <2> QED BY <1>c, <1>t, <2>1, <2>2, <2>3, EntryWorks DEF chunks
<1>4. CASE CachedEntry
  <2> DEFINE p == Head(todo)
  <2>1. p \in EntryPieces
    BY <1>4, HeadTail DEF CachedEntry, Running, CacheInv
  <2>2. \/ UNCHANGED <<chunks, failed>>
        \/ ~SubChunkFails(p) /\ StoreSubChunk(p) /\ UNCHANGED failed
        \/ Has(EntryOf(p).blob) /\ SubChunkFails(p) /\ Throw
    BY <1>4 DEF CachedEntry
  <2>3. p \in FillingPieces
    BY <1>4, <2>1 DEF CachedEntry, FillingPieces
  <2>4. ~SubChunkFails(p) => EntryOf(p).result # "bad"
    BY DEF SubChunkFails
  <2> HIDE DEF p
  <2> QED BY <1>c, <1>t, <2>1, <2>2, <2>3, <2>4, EntryWorks DEF chunks
<1>5. CASE RetrySubChunk
  <2> DEFINE p == Head(todo)
  <2>1. p \in EntryPieces /\ p \in FillingPieces
    BY <1>5, HeadTail DEF RetrySubChunk, Running, CacheInv, FillingPieces
  <2>2. \/ UNCHANGED <<chunks, failed>>
        \/ ~SubChunkFails(p) /\ StoreSubChunk(p) /\ UNCHANGED failed
        \/ Has(EntryOf(p).blob) /\ SubChunkFails(p) /\ Throw
    BY <1>5 DEF RetrySubChunk
  <2>3. ~SubChunkFails(p) => EntryOf(p).result # "bad"
    BY DEF SubChunkFails
  <2> HIDE DEF p
  <2> QED BY <1>c, <1>t, <2>1, <2>2, <2>3, EntryWorks DEF chunks
<1>6. CASE \/ HandleSubChunk \/ SubChunkStatus \/ HandleClientCacheMissResponse
           \/ StoreBlob \/ RetryLevelChunks \/ RetrySubChunks \/ RetriesEnd
           \/ Send \/ Answer \/ UNCHANGED vars
  <2>1. UNCHANGED <<chunks, failed>>
    BY <1>6 DEF HandleSubChunk, SubChunkStatus, HandleClientCacheMissResponse,
       StoreBlob, RetryLevelChunks, RetrySubChunks, RetriesEnd, Send, Answer, vars
  <2> QED BY <1>c, <2>1 DEF chunks
<1> QED BY <1>1, <1>2, <1>3, <1>4, <1>5, <1>6 DEF Next, Handle

\* A chunk handler throws only after a packet that cannot be decoded or a blob
\* that the server answered twice, and writes a column or a section that is not
\* what its packet meant only after such an answer, when a section without a
\* height of its own is named at two heights, or when a subchunk packet names a
\* section at another height than its own: networkDecodeCached() and
\* tryStoreCachedSubChunk() read what the cache noted of each blob, however
\* notes, statuses and answers interleave.
THEOREM FailuresExplained == Spec => []OnlyKnownFailures
<1> DEFINE I == CacheInv /\ StateInv /\ OnceInv /\ NoteInv /\ OnlyKnownFailures
<1>1. Init => I
  BY InitCache, InitState, InitOnce, InitNotes DEF Init, OnlyKnownFailures
<1>2. I /\ [Next]_vars => I'
  BY CacheStep, StateStep, OnceStep, NoteStep, KnownStep
<1> QED BY <1>1, <1>2, PTL DEF Spec
=============================================================================
