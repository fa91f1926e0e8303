--------------------------- MODULE MCStreamCache ---------------------------
(* Instances of StreamCache small enough for TLC: a ring of 8 bytes in     *)
(* sectors of 2, of which 4 are kept for seeking back and 4 are the least  *)
(* room for a fill - the proportions of the smallest ring of cache2.c.     *)
EXTENDS StreamCache

MCSeekTargets == {0, 3, 6, 11}
MCSeekTargetsBack == {0, 4}

(* FairSpec where Resets is FALSE: the reader's calls but for stream_reset. *)
MCFairSpec ==
    /\ Init /\ [][FillerNext \/ ReaderStep \/ NewCall]_vars
    /\ WF_vars(FillerNext) /\ WF_vars(ReaderStep)
============================================================================
