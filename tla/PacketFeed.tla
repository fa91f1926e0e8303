----------------------------- MODULE PacketFeed -----------------------------
(* What the packet queues of the demuxer promise to the decoders, told        *)
(* without queues: the reader of a stream is given the packets of the track   *)
(* it has selected, in file order, each of them once and byte after byte,     *)
(* beginning at the place of the last seek or switch.  Demuxer implements it. *)
EXTENDS Integers

CONSTANTS Streams, Tracks, NoTrack, Size, Files

VARIABLES file,     \* the packet at each place of the file: its track and length
          id,       \* the track each stream has selected
          nextU,    \* the first place whose packet the reader has not been given
          nextB     \* the bytes of that packet it has been given already

feedVars == <<file, id, nextU, nextB>>

Units == 1 .. Size

\* p is the packet that comes next: the one begun, or the first of the track.
Comes(s, p) ==
    /\ p >= nextU[s]
    /\ file[p].track = id[s]
    /\ nextB[s] > 0 => p = nextU[s]
    /\ \A q \in nextU[s] .. p - 1 : file[q].track # id[s]

Reach(s, u, b) ==
    /\ nextU' = [nextU EXCEPT ![s] = u]
    /\ nextB' = [nextB EXCEPT ![s] = b]

FeedInit ==
    /\ file \in Files
    /\ id \in [Streams -> Tracks \union {NoTrack}]
    /\ nextU = [s \in Streams |-> 1]
    /\ nextB = [s \in Streams |-> 0]

\* The reader is given the bytes of the next packet up to the b-th.
Hand(s) ==
    \E p \in Units : \E b \in nextB[s] .. file[p].len :
        /\ Comes(s, p)
        /\ IF b = file[p].len THEN Reach(s, p + 1, 0) ELSE Reach(s, p, b)
        /\ UNCHANGED <<file, id>>

\* The reader has the rest of a packet thrown away.
Skip(s) ==
    \E p \in Units :
        /\ Comes(s, p)
        /\ Reach(s, p + 1, 0)
        /\ UNCHANGED <<file, id>>

Reposition ==
    \E p \in 1 .. Size + 1 :
        /\ nextU' = [s \in Streams |-> p]
        /\ nextB' = [s \in Streams |-> 0]
        /\ UNCHANGED <<file, id>>

\* Another track: it begins no earlier than the reader has got to.
Select(s) ==
    \E t \in Tracks \union {NoTrack} : \E p \in nextU[s] .. Size + 1 :
        /\ id' = [id EXCEPT ![s] = t]
        /\ Reach(s, p, 0)
        /\ UNCHANGED file

FeedNext == Reposition \/ \E s \in Streams : Hand(s) \/ Skip(s) \/ Select(s)

Feed == FeedInit /\ [][FeedNext]_feedVars
=============================================================================
