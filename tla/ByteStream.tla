----------------------------- MODULE ByteStream -----------------------------
(***************************************************************************)
(* What the player sees of a stream_t when it reads through the cache: a   *)
(* position, the sector before it, and an end flag.  This is the abstract  *)
(* specification that StreamCache implements for a reader that does not    *)
(* seek back; there is no cache in it, only the file.                      *)
(***************************************************************************)
EXTENDS Integers, Sequences

CONSTANTS SectorSize, FileSize, SeekTargets

VARIABLES pos, buf, s_eof

bvars == <<pos, buf, s_eof>>

ByteInit == pos = 0 /\ buf = <<>> /\ s_eof = FALSE

(* The consumer has used up the sector it holds.                           *)
Consume == buf' = <<>> /\ UNCHANGED <<pos, s_eof>>

(* The next bytes of the file, a sector at most, in order and with no gap. *)
Deliver ==
    \E n \in 1 .. SectorSize :
        /\ buf = <<>> /\ pos + n <= FileSize
        /\ buf' = [i \in 1 .. n |-> pos + i - 1]
        /\ pos' = pos + n /\ s_eof' = FALSE

(* No bytes: the end of the file, or a read given up.                      *)
End == buf' = <<>> /\ s_eof' = TRUE /\ pos' = pos

(* To the start of a sector that holds a target at or past it.             *)
Seek ==
    \E t \in SeekTargets :
        /\ pos' = (t \div SectorSize) * SectorSize
        /\ buf' = <<>> /\ s_eof' = s_eof

(* Back inside the sector at hand: it is not read again.                   *)
SeekInSector == s_eof' = FALSE /\ UNCHANGED <<pos, buf>>

ByteNext == Consume \/ Deliver \/ End \/ Seek \/ SeekInSector

ByteSpec == ByteInit /\ [][ByteNext]_bvars
=============================================================================
