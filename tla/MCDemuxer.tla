------------------------------ MODULE MCDemuxer ------------------------------
(* Instances of Demuxer: interleaved files with two sound tracks, one whose   *)
(* sound comes late, one with an empty packet, and a raw DV file.             *)
EXTENDS Demuxer, TLC

CONSTANTS a1, a2, v1, s1, dv

Len1 == (a1 :> 2) @@ (a2 :> 1) @@ (v1 :> 1) @@ (s1 :> 1) @@ (dv :> 2)
FileOf(tracks) == [p \in 1 .. Size |-> [track |-> tracks[p], len |-> Len1[tracks[p]]]]

MCTracksOf == [s \in Streams |->
    CASE s = "audio" -> {a1, a2, dv} [] s = "video" -> {v1, dv} [] s = "sub" -> {s1}]
MCFiles == {
    FileOf(<<a1, s1, v1, a2>>),
    FileOf(<<v1, v1, v1, a1>>),
    [FileOf(<<v1, a1, v1, a1>>) EXCEPT ![2].len = 0, ![3].len = 0],
    FileOf(<<dv, dv, dv, dv>>) }
=============================================================================
