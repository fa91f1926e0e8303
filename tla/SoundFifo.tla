----------------------------- MODULE SoundFifo -----------------------------
(***************************************************************************)
(* What an audio driver with a buffer promises the player: sound is heard  *)
(* in the order it was written in, with no sample missing, twice or out of *)
(* place, until a reset throws away what has not been heard.  A reset that *)
(* falls into a read breaks the promise, until the next one that does not. *)
(* Samples are numbered 1, 2, ... as they are written.                     *)
(***************************************************************************)
EXTENDS Integers, Sequences

CONSTANT Size    \* how many samples the buffer holds

VARIABLES
    queued,      \* the samples written and not yet heard
    written,     \* the number of the last sample written
    heard,       \* that of the last sample heard
    broken       \* is nothing promised?

fifoVars == <<queued, written, heard, broken>>

FifoInit == queued = <<>> /\ written = 0 /\ heard = 0 /\ broken = FALSE

Write ==
    /\ ~broken /\ ~broken'
    /\ \E n \in 1 .. Size - Len(queued) :
          /\ queued' = queued \o [i \in 1 .. n |-> written + i]
          /\ written' = written + n
          /\ heard' = heard

Hear ==
    /\ ~broken /\ ~broken'
    /\ \E n \in 1 .. Len(queued) :
          /\ heard' = queued[n]
          /\ queued' = SubSeq(queued, n + 1, Len(queued))
          /\ written' = written

Reset == queued' = <<>> /\ ~broken' /\ UNCHANGED <<written, heard>>

(* A reset that falls into a read, and what happens after it.              *)
Break == broken' /\ (broken \/ UNCHANGED <<written, heard>>)

FifoNext == Write \/ Hear \/ Reset \/ Break

FifoSpec == FifoInit /\ [][FifoNext]_fifoVars
=============================================================================
