--------------------------- MODULE MCCacheControl ---------------------------
(* CacheControl for TLC: a small ring and one or two questions and         *)
(* chapters.  On the linear stream the one chapter is its end.             *)
EXTENDS CacheControl

MCAsks        == {"num_chapters", "angle"}
MCChapters    == {0, 2}
MCSeekTargets == {0}
MCOneAsk      == {"angle"}
MCLastChapter == {FileSize}
MCForward     == 0 .. FileSize
=============================================================================
