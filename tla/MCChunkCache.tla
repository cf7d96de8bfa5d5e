---------------------------- MODULE MCChunkCache ----------------------------
(* ChunkCache under short scripts, each about one way to share blobs:      *)
(* columns of one and two sections, subchunks that share a blob or follow  *)
(* their column, packets that cannot be decoded, and subchunks at another  *)
(* height than their blob's own.                                           *)
EXTENDS ChunkCache

Level(col, sections, biomes) ==
    [kind |-> "level", cached |-> TRUE, bad |-> FALSE, col |-> col,
     sections |-> sections, biomes |-> biomes]
Sub(entries) == [kind |-> "sub", cached |-> TRUE, entries |-> entries]
Entry(col, y, blob) == [col |-> col, y |-> y, result |-> "ok", blob |-> blob]
Result(entry, r) == [entry EXCEPT !.result = r]

\* s8 is of version 8, s9 of version 9 and belongs to height 1.
MCOwnHeight == [b \in {"s8", "t8", "s9"} |-> IF b = "s9" THEN 1 ELSE NoHeight]

MCScripts == {
    <<Level("c", <<"s8", "s9">>, "b"), Level("d", <<"s8">>, "b"),
      Level("c", <<"t8", "s9">>, "b")>>,
    <<Level("c", <<"s8", "s8">>, "b"), Level("d", <<"t8", "s8">>, "b")>>,
    <<Level("c", <<"s8">>, "b"), Sub(<<Entry("d", 1, "s8")>>)>>,
    <<Sub(<<Entry("c", 0, "s8"), Entry("d", 0, "s8")>>), Level("c", <<"s8">>, "b"),
      Sub(<<Entry("d", 1, "s9")>>)>>,
    <<Level("c", <<>>, "b"), Sub(<<Entry("c", 0, "s8"), Entry("c", 1, "s9")>>),
      Sub(<<Entry("d", 0, "s8"), Result(Entry("d", 1, "s8"), "air")>>)>>,
    <<Sub(<<Entry("c", 0, "s8"), Result(Entry("c", 1, "t8"), "bad"),
            Entry("d", 0, "s8")>>),
      Sub(<<Result(Entry("d", 1, "s8"), "other"), Entry("d", 0, "t8")>>)>>,
    <<[Level("c", <<"s8">>, "b") EXCEPT !.bad = TRUE], Level("d", <<"s8">>, "b"),
      [Level("c", <<"t8">>, "b") EXCEPT !.cached = FALSE],
      [Sub(<<Entry("c", 1, "s9")>>) EXCEPT !.cached = FALSE]>>,
    <<Level("c", <<"s8">>, "b"), Sub(<<Entry("c", 0, "s9"), Entry("d", 1, "s9")>>),
      [Sub(<<Entry("d", 0, "s9")>>) EXCEPT !.cached = FALSE]>>}
=============================================================================
