------------------------------ MODULE MCPlayLoop ------------------------------
(* Instances of PlayLoop: a film, a film without sound and sound alone.       *)
EXTENDS PlayLoop

Setup(k, s, d, r) == [kind |-> k, seekable |-> s, doubling |-> d, redraws |-> r]
MCSetups == {
    Setup("both", TRUE, FALSE, TRUE),
    Setup("video", TRUE, FALSE, FALSE),
    Setup("sound", TRUE, FALSE, TRUE),
    Setup("both", FALSE, TRUE, TRUE) }
MCOffsets == {-1, 2}
MCLoops == {-1, 1}
=============================================================================
