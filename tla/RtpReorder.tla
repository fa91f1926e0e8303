----------------------------- MODULE RtpReorder -----------------------------
(***************************************************************************)
(* The RTP reorder cache of stream/rtp.c.  Datagrams carry 16-bit sequence *)
(* numbers and come late, twice, or not at all.  rtpbuf is "a circular     *)
(* array where rtpbuf.first points to next sequence slot and keeps track   *)
(* of expected sequence"; rtp_get_next reads the socket a number of times  *)
(* for the packet expected next, then gives it up as lost and takes the    *)
(* first one it has.                                                       *)
(*                                                                         *)
(* Packets are numbered 0, 1, ... as the sender sends them; the sequence   *)
(* number of packet p is FirstSeq + p, in SeqMod.  A slot that holds no    *)
(* packet (len 0) holds Empty.                                             *)
(***************************************************************************)
EXTENDS Integers, Sequences, FiniteSets

CONSTANTS
    Slots,      \* MAXRTPPACKETSIN
    SeqMod,     \* 2^16, the range of a sequence number
    FirstSeq,   \* the sequence number of packet 0
    Packets,    \* how many packets are sent (bounds the model)
    Displace,   \* how many later packets may overtake one
    WrapSwaps,  \* whether a packet may come late across the wrap of the numbers
    Bursts,     \* how many packets in a row the network may lose
    MaxBursts,  \* how often it does so
    Apart,      \* how many packets are sent from one loss to the next
    MaxRepeat,  \* how many packets it may deliver once more
    RepeatLag,  \* how far behind the newest a repeated packet may be
    MaxBad      \* how many reads may fail or be too short

ASSUME RtpAssumption ==
    /\ Slots \in Nat /\ Slots > 3
    /\ SeqMod \in Nat /\ SeqMod > Slots
    /\ FirstSeq \in 0 .. SeqMod - 1
    /\ Packets \in Nat /\ Displace \in Nat /\ WrapSwaps \in BOOLEAN
    /\ Bursts \subseteq Nat \ {0}
    /\ MaxBursts \in Nat /\ Apart \in Nat
    /\ MaxRepeat \in Nat /\ RepeatLag \in Nat /\ MaxBad \in Nat

VARIABLES
    \* the network
    sent, flight, lost, bursts, repeats, bad,
    \* rtpbuf, and rtp_cache's is_first
    data, seq, first, is_first,
    \* the call of read_rtp_from_server, and what all calls returned
    pc, tries, delivered

net    == <<sent, flight, lost, bursts, repeats, bad>>
rtpbuf == <<data, seq, first>>
vars   == <<net, rtpbuf, is_first, pc, tries, delivered>>

Empty     == -1
SlotNos     == 0 .. Slots - 1
SeqOf(p)    == (FirstSeq + p) % SeqMod
NextSlot(k) == (k + 1) % Slots

NextSeq(n) == (n + 1) % SeqMod

Init ==
    /\ sent = 0 /\ flight = {} /\ lost = {} /\ bursts = 0 /\ repeats = 0 /\ bad = 0
    /\ data = [k \in SlotNos |-> Empty] /\ seq = [k \in SlotNos |-> 0]
    /\ first = 0 /\ is_first = TRUE
    /\ pc = "idle" /\ tries = 0 /\ delivered = <<>>

----------------------------------------------------------------------------
(* The network.  A packet is overtaken by Displace others at most.         *)

\* Packet p may come after the packet before q.
MayLag(p, q) == WrapSwaps \/ SeqOf(p) < SeqOf(q)

Send ==
    /\ sent < Packets
    /\ \A p \in flight : p + Displace >= sent /\ MayLag(p, sent + 1)
    /\ sent' = sent + 1 /\ flight' = flight \cup {sent}
    /\ UNCHANGED <<lost, bursts, repeats, bad,
                   rtpbuf, is_first, pc, tries, delivered>>

Lose(n) ==
    /\ bursts < MaxBursts /\ sent + n <= Packets
    /\ \A p \in lost : p + Apart < sent
    /\ bursts' = bursts + 1
    /\ sent' = sent + n /\ lost' = lost \cup (sent .. sent + n - 1)
    /\ UNCHANGED <<flight, repeats, bad,
                   rtpbuf, is_first, pc, tries, delivered>>

(* recv returns packet p, for the first time or once more.                 *)
Fresh(p) ==
    /\ p \in flight
    /\ flight' = flight \ {p} /\ UNCHANGED <<sent, lost, bursts, repeats, bad>>

Again(p) ==
    /\ p \in 0 .. sent - 1 /\ p \notin flight /\ p \notin lost
    /\ repeats < MaxRepeat /\ p + RepeatLag >= sent /\ MayLag(p, sent)
    /\ repeats' = repeats + 1 /\ UNCHANGED <<sent, flight, lost, bursts, bad>>

----------------------------------------------------------------------------
(* rtp_get_next's loop, and one read of the socket by rtp_cache in it.     *)

(* Mutant: the expected packet is given up as soon as another comes.       *)
Tries_One == 1

Tries == Slots - 3

Call ==
    /\ pc = "idle"
    /\ pc' = "loop" /\ tries' = 0
    /\ UNCHANGED <<net, rtpbuf, is_first, delivered>>

Reading == pc = "loop" /\ tries < Tries /\ data[first] = Empty

(* newseq, an int: the difference of two unsigned shorts, not taken in     *)
(* their width.                                                            *)
Newseq(p) == SeqOf(p) - seq[first]

(* goto feed: the packet goes to the caller, past the cache.               *)
Feed(p) == pc' = "idle" /\ tries' = 0 /\ delivered' = Append(delivered, p)

(* The read brought the caller nothing.                                    *)
TryOn == pc' = "loop" /\ tries' = tries + 1 /\ delivered' = delivered

InSequence(p) ==
    /\ Newseq(p) = 0 \/ is_first
    /\ is_first' = FALSE
    /\ first' = NextSlot(first)
    /\ seq' = [seq EXCEPT ![NextSlot(first)] = NextSeq(SeqOf(p))]
    /\ UNCHANGED data
    /\ Feed(p)

NoData == [k \in SlotNos |-> Empty]

(* rtp_cache_reset: forget everything, and go on from packet p.            *)
ResetTo(p) ==
    /\ first' = 0 /\ seq' = [seq EXCEPT ![0] = NextSeq(SeqOf(p))]
    /\ data' = NoData
    /\ UNCHANGED is_first
    /\ Feed(p)

Overrun(p) == Newseq(p) > Slots /\ ~is_first /\ ResetTo(p)

(* Mutant: no packet is too old, each one restarts the cache.              *)
TooOld_Never(p) == FALSE

(* A packet sent again, or behind what was delivered: dropped.             *)
TooOld(p) == (\E k \in SlotNos : seq[k] = SeqOf(p)) \/ Newseq(p) > -(3 * Slots)

Drop(p) ==
    /\ Newseq(p) < 0 /\ ~is_first /\ TooOld(p)
    /\ TryOn
    /\ UNCHANGED <<rtpbuf, is_first>>

Underrun(p) == Newseq(p) < 0 /\ ~is_first /\ ~TooOld(p) /\ ResetTo(p)

(* Out of sequence: into the slot at its distance from the expected one.   *)
Store(p) ==
    LET k == (Newseq(p) + first) % Slots IN
    /\ Newseq(p) \in 1 .. Slots /\ ~is_first
    /\ data' = [data EXCEPT ![k] = p] /\ seq' = [seq EXCEPT ![k] = SeqOf(p)]
    /\ TryOn
    /\ UNCHANGED <<first, is_first>>

Receive(p) ==
    /\ Reading
    /\ Fresh(p) \/ Again(p)
    /\ InSequence(p) \/ Overrun(p) \/ Drop(p) \/ Underrun(p) \/ Store(p)

(* recv fails, or the datagram is too short for a header.                  *)
BadRead ==
    /\ Reading /\ bad < MaxBad
    /\ bad' = bad + 1 /\ tries' = tries + 1
    /\ UNCHANGED <<sent, flight, lost, bursts, repeats,
                   rtpbuf, is_first, pc, delivered>>

----------------------------------------------------------------------------
(* The rest of rtp_get_next: skip the slots whose packets are lost, hand   *)
(* out the first packet there is, and expect the one after it.  With no    *)
(* packet at all the result is empty, and read_rtp_from_server calls again.*)

(* How many slots from first on are empty; 0 when all are.                 *)
Gap ==
    LET held == {n \in SlotNos : data[(first + n) % Slots] # Empty}
    IN  IF held = {} THEN 0 ELSE CHOOSE n \in held : \A m \in held : n <= m

After(k) == NextSeq(seq[k])

Take ==
    LET k == (first + Gap) % Slots IN
    /\ pc = "loop" /\ ~Reading
    /\ data' = [data EXCEPT ![k] = Empty]
    /\ seq' = [seq EXCEPT ![NextSlot(k)] = After(k)]
    /\ first' = NextSlot(k)
    /\ tries' = 0
    /\ IF data[k] = Empty
       THEN pc' = "loop" /\ UNCHANGED delivered
       ELSE pc' = "idle" /\ delivered' = Append(delivered, data[k])
    /\ UNCHANGED <<net, is_first>>

Next ==
    \/ Send \/ Call \/ BadRead \/ Take
    \/ \E n \in Bursts : Lose(n)
    \/ \E p \in 0 .. sent - 1 : Receive(p)

Spec == Init /\ [][Next]_vars

----------------------------------------------------------------------------
(* "get rtp packets reordered": however they come, the caller gets packets *)
(* in the order they were sent in, and none twice.                         *)
InOrder ==
    \A i, j \in 1 .. Len(delivered) : i < j => delivered[i] < delivered[j]

LongLoss == \E p \in lost : \A n \in 1 .. Slots : p + n \in lost

SkippedAreLost(i) ==
    \A p \in delivered[i] + 1 .. delivered[i + 1] - 1 : p \in lost

(* "Handling of repeated packets", "Lost packet": once the stream is under *)
(* way, and as long as no loss was longer than the cache, a packet that    *)
(* the caller does not get is one the network did not bring, not one that  *)
(* was late, or overwritten, or forgotten in a restart.                    *)
SkipsOnlyLost ==
    LongLoss \/ \A i \in 1 .. Len(delivered) - 1 : SkippedAreLost(i)

(* The same between two packets in whose numbers no wrap lies.             *)
SkipsOnlyLostUnwrapped ==
    LongLoss \/ \A i \in 1 .. Len(delivered) - 1 :
        SeqOf(delivered[i]) < SeqOf(delivered[i + 1]) => SkippedAreLost(i)
============================================================================
