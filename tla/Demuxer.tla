------------------------------- MODULE Demuxer -------------------------------
(* The packet queues between a demuxer and the decoders (libmpdemux/          *)
(* demuxer.c): one queue for each of audio, video and subtitles, filled from  *)
(* one file by the demuxer that is asked for more of any of them.  The        *)
(* demuxers are libavformat's (demux_lavf.c) and raw DV's (demux_rawdv.c),    *)
(* whose frames are one packet shared by two streams.                         *)
(*                                                                            *)
(* A packet is named by its place in the file.  All this runs in one thread;  *)
(* a call that loops takes one step for each turn of its loop.                *)
EXTENDS Integers, Sequences, FiniteSets

CONSTANTS
    Tracks, NoTrack,    \* the file's tracks; NoTrack is the id -2
    TracksOf,           \* the tracks that a stream can select
    Size, Files,        \* the number of packets in a file, and the files
    MaxPacks,           \* MAX_PACKS
    MaxBytes,           \* MAX_PACK_BYTES
    Whole,              \* the streams whose decoder takes whole packets
    Filled,             \* the streams that the format fills or skips directly
    MaxRead,            \* the most bytes a decoder asks for at once
    MaxTurns            \* bound on seeks and switches of tracks

Streams == {"audio", "video", "sub"}
Units == 1 .. Size

ASSUME SizeAssumption == Size \in Nat
ASSUME LimitAssumption == MaxPacks \in Nat \ {0} /\ MaxBytes \in Nat \ {0}
ASSUME TrackAssumption ==
    /\ NoTrack \notin Tracks
    /\ TracksOf \in [Streams -> SUBSET Tracks]
ASSUME FileAssumption == Files \subseteq [Units -> [track : Tracks, len : Nat]]
ASSUME ReaderAssumption ==
    /\ Whole \subseteq Streams /\ Filled \subseteq Streams
    /\ MaxRead \in Nat /\ MaxTurns \in Nat

VARIABLES
    file, filepos,      \* the file, and the place the demuxer reads next
    id, sh,             \* ds->id: the selected track; ds->sh: the one it is decoded as
    queue,              \* ds->first .. ds->last
    packs, bytes,       \* ds->packs, ds->bytes
    current,            \* ds->current: a packet, or 0 for NULL
    pos, size,          \* ds->buffer_pos, ds->buffer_size
    eof,                \* ds->eof
    refs,               \* refcount of each packet's master; 0: not allocated
    call,               \* the call in progress, or what the last one returned
    told,               \* the packet ds_get_next_pts announced last, or 0
    nextU, nextB,       \* how far the reader has got: see PacketFeed
    turns               \* seeks and switches so far

dsVars == <<queue, packs, bytes, current, pos, size, eof>>
fileVars == <<file, filepos, refs>>
readerVars == <<told, nextU, nextB>>
vars == <<file, filepos, id, sh, queue, packs, bytes, current, pos, size, eof,
          refs, call, told, nextU, nextB, turns>>

Elems(q) == {q[i] : i \in DOMAIN q}
Holds(s, p) == p \in Elems(queue[s]) \/ current[s] = p
Holders(p) == {s \in Streams : Holds(s, p)}

-----------------------------------------------------------------------------
(* Helpers of more than one call.                                             *)

\* Mutant: only the queue of the pictures is limited.
Limited_Video == packs["video"] >= MaxPacks \/ bytes["video"] >= MaxBytes

\* Mutant: a stream marked as ended counts as full until it has a packet.
Limited_Sticky ==
    \E s \in {"audio", "video"} :
        packs[s] >= MaxPacks \/ bytes[s] >= MaxBytes \/ eof[s]

Limited ==
    \E s \in {"audio", "video"} : packs[s] >= MaxPacks \/ bytes[s] >= MaxBytes

\* The tracks among T that the file has, and what can be selected of them.
Present(T) == T \cap {file[p].track : p \in Units}
Selectable(s) == Present(TracksOf[s]) \union {NoTrack}

\* The streams that get the packet at p: for raw DV there may be two.
Receivers(p) == {s \in Streams : id[s] = file[p].track}

\* desc->fill_buffer: one packet is read; it is appended to the streams that
\* have selected its track (ds_add_packet), or freed when there is none.  Left
\* out are lavf's internet_radio_hack, where every packet is the audio stream's,
\* and raw DV's last frame, which is dropped if it is cut short.
DemuxOne ==
    LET p  == filepos
        to == Receivers(p)
    IN  /\ filepos <= Size
        /\ filepos' = filepos + 1
        /\ queue' = [s \in Streams |-> IF s \in to THEN Append(queue[s], p) ELSE queue[s]]
        /\ packs' = [s \in Streams |-> IF s \in to THEN packs[s] + 1 ELSE packs[s]]
        /\ bytes' = [s \in Streams |-> IF s \in to THEN bytes[s] + file[p].len ELSE bytes[s]]
        /\ refs' = [refs EXCEPT ![p] = Cardinality(to)]
        /\ UNCHANGED file

\* Mutant: the byte counter is not reset.
FreePacks_BytesKept(S) ==
    /\ queue' = [s \in Streams |-> IF s \in S THEN <<>> ELSE queue[s]]
    /\ packs' = [s \in Streams |-> IF s \in S THEN 0 ELSE packs[s]]
    /\ current' = [s \in Streams |-> IF s \in S THEN 0 ELSE current[s]]
    /\ pos' = [s \in Streams |-> IF s \in S THEN size[s] ELSE pos[s]]
    /\ refs' = [p \in Units |-> refs[p] - Cardinality(S \cap Holders(p))]
    /\ told' = [s \in Streams |-> IF s \in S THEN 0 ELSE told[s]]
    /\ UNCHANGED <<size, bytes>>

\* Mutant: the current packet is forgotten and not freed.
FreePacks_CurrentLeaks(S) ==
    /\ queue' = [s \in Streams |-> IF s \in S THEN <<>> ELSE queue[s]]
    /\ packs' = [s \in Streams |-> IF s \in S THEN 0 ELSE packs[s]]
    /\ bytes' = [s \in Streams |-> IF s \in S THEN 0 ELSE bytes[s]]
    /\ current' = [s \in Streams |-> IF s \in S THEN 0 ELSE current[s]]
    /\ pos' = [s \in Streams |-> IF s \in S THEN size[s] ELSE pos[s]]
    /\ refs' = [p \in Units |-> refs[p] - Cardinality({s \in S : p \in Elems(queue[s])})]
    /\ told' = [s \in Streams |-> IF s \in S THEN 0 ELSE told[s]]
    /\ UNCHANGED size

\* ds_free_packs on the streams in S: the eof flags are left alone.
FreePacks(S) ==
    /\ queue' = [s \in Streams |-> IF s \in S THEN <<>> ELSE queue[s]]
    /\ packs' = [s \in Streams |-> IF s \in S THEN 0 ELSE packs[s]]
    /\ bytes' = [s \in Streams |-> IF s \in S THEN 0 ELSE bytes[s]]
    /\ current' = [s \in Streams |-> IF s \in S THEN 0 ELSE current[s]]
    /\ pos' = [s \in Streams |-> IF s \in S THEN size[s] ELSE pos[s]]
    /\ refs' = [p \in Units |-> refs[p] - Cardinality(S \cap Holders(p))]
    /\ told' = [s \in Streams |-> IF s \in S THEN 0 ELSE told[s]]
    /\ UNCHANGED size

Calls == {"get", "get2", "data", "pattern", "fill", "peek"}
Idle == call.op = "none"
Return(s, p, said) == call' = [op |-> "none", s |-> s, unit |-> p, said |-> said]
Running(op, s, at, want) == [op |-> op, s |-> s, at |-> at, want |-> want]

\* The reader is given the bytes of s's current packet up to the b-th.
Give(s, b) ==
    LET p == current[s]
    IN  /\ pos' = [pos EXCEPT ![s] = b]
        /\ nextU' = [nextU EXCEPT ![s] = IF b = size[s] THEN p + 1 ELSE p]
        /\ nextB' = [nextB EXCEPT ![s] = IF b = size[s] THEN 0 ELSE b]

\* What was announced for the packet that is now begun.
Said(s) == IF pos[s] = 0 THEN told[s] ELSE 0
Forget(s) == told' = [told EXCEPT ![s] = IF pos[s] = 0 THEN 0 ELSE @]

-----------------------------------------------------------------------------
(* The calls of the decoders and of the play loop.                            *)

\* ds_get_packet and ds_get_packet_pts; ds_get_packet_sub, which reads no file
\* (nor is anything queued before a track was selected for the first time);
\* ds_get_packet2; demux_read_data; demux_pattern_3; and a direct
\* ds_fill_buffer, by which a format is opened or a block of sound skipped.
Begin(op, s, want) ==
    /\ Idle
    /\ call' = Running(op, s, "start", want)
    /\ UNCHANGED <<fileVars, id, sh, dsVars, readerVars, turns>>

Bytewise(s) == s \notin Whole \union {"sub"}

GetPacket(s) == Bytewise(s) /\ Begin("get", s, 0)
GetPacket2(s) == s \in Whole /\ Begin("get2", s, 0)
ReadData(s) == Bytewise(s) /\ \E n \in 1 .. MaxRead : Begin("data", s, n)
Pattern3(s) == Bytewise(s) /\ \E n \in 1 .. MaxRead : Begin("pattern", s, n)
FillDirectly(s) == s \in Filled /\ Begin("fill", s, 0)
GetNextPts(s) == Begin("peek", s, 0)

GetPacketSub ==
    /\ sh["sub"] # NoTrack
    /\ IF pos["sub"] >= size["sub"] /\ packs["sub"] = 0
       THEN /\ Idle
            /\ Return("sub", -1, 0)
            /\ UNCHANGED <<fileVars, id, sh, dsVars, readerVars, turns>>
       ELSE Begin("get", "sub", 0)

\* ds_get_packet2 with repeat_last, for a decoder that has data left over.
RepeatLast(s) ==
    /\ Idle
    /\ s \in Whole
    /\ current[s] > 0 /\ nextU[s] = current[s] + 1
    /\ pos' = [pos EXCEPT ![s] = size[s]]
    /\ Return(s, current[s], 0)
    /\ UNCHANGED <<fileVars, id, sh, queue, packs, bytes, current, size, eof, readerVars, turns>>

-----------------------------------------------------------------------------
(* ds_fill_buffer, and the loops around it.                                   *)

\* Whether what the call wants is still in the packet in hand.
InHand(s) == call.op \in {"get", "data", "pattern"} /\ pos[s] < size[s]

\* ds_fill_buffer begins: the packet in hand is freed.
StartFill ==
    /\ ~Idle /\ call.at = "start" /\ call.op # "peek"
    /\ LET s == call.s
           skipped == call.op = "fill" /\ pos[s] < size[s]
       IN  /\ ~InHand(s)
           /\ refs' = [p \in Units |-> IF p = current[s] THEN refs[p] - 1 ELSE refs[p]]
           /\ current' = [current EXCEPT ![s] = 0]
           /\ nextU' = [nextU EXCEPT ![s] = IF skipped THEN current[s] + 1 ELSE @]
           /\ nextB' = [nextB EXCEPT ![s] = IF skipped THEN 0 ELSE @]
           /\ told' = [told EXCEPT ![s] = IF skipped THEN 0 ELSE @]
    /\ call' = [call EXCEPT !.at = "fill"]
    /\ UNCHANGED <<file, filepos, id, sh, queue, packs, bytes, pos, size, eof, turns>>

\* The queue has a packet: it becomes the current one.
FillTake ==
    /\ ~Idle /\ call.at = "fill"
    /\ LET s == call.s
           p == Head(queue[s])
       IN  /\ packs[s] > 0
           /\ current' = [current EXCEPT ![s] = p]
           /\ pos' = [pos EXCEPT ![s] = 0]
           /\ size' = [size EXCEPT ![s] = file[p].len]
           /\ queue' = [queue EXCEPT ![s] = Tail(@)]
           /\ packs' = [packs EXCEPT ![s] = @ - 1]
           /\ bytes' = [bytes EXCEPT ![s] = @ - file[p].len]
           /\ eof' = [eof EXCEPT ![s] = FALSE]
           /\ IF call.op = "fill"
              THEN Return(s, -1, 0)
              ELSE call' = [call EXCEPT !.at = "filled"]
           \* an empty packet leaves nothing for the reader to be given
           /\ nextU' = [nextU EXCEPT ![s] = IF call.op = "fill" /\ file[p].len = 0 THEN p + 1 ELSE @]
    /\ UNCHANGED <<fileVars, id, sh, told, nextB, turns>>

\* It has none and the file has: ds_fill_buffer and ds_get_next_pts read on.
Hungry ==
    /\ ~Idle
    /\ packs[call.s] = 0
    /\ \/ call.at = "fill"
       \/ call.op = "peek" /\ (current[call.s] = 0 \/ pos[call.s] # 0)

FillDemux ==
    /\ Hungry /\ ~Limited
    /\ DemuxOne
    /\ UNCHANGED <<id, sh, current, pos, size, eof, call, readerVars, turns>>

\* Mutant: the last packet of the file is never asked for.
NoMore_Early == Hungry /\ (Limited \/ filepos >= Size)

\* Or there is no more to be had: a queue is full, or the file is at its end.
NoMore == Hungry /\ (Limited \/ filepos > Size)

FillEof ==
    /\ NoMore /\ call.at = "fill"
    /\ LET s == call.s
       IN  /\ pos' = [pos EXCEPT ![s] = 0]
           /\ size' = [size EXCEPT ![s] = 0]
           /\ eof' = [eof EXCEPT ![s] = TRUE]
           /\ Return(s, 0, 0)
    /\ UNCHANGED <<fileVars, id, sh, queue, packs, bytes, current, readerVars, turns>>

\* The whole of the packet, or of what is left of it, is handed over.
GiveRest ==
    /\ ~Idle
    /\ \/ call.op \in {"get", "get2"} /\ call.at = "filled"
       \/ call.op = "get" /\ call.at = "start" /\ InHand(call.s)
    /\ LET s == call.s
       IN  Give(s, size[s]) /\ Forget(s) /\ Return(s, current[s], Said(s))
    /\ UNCHANGED <<fileVars, id, sh, queue, packs, bytes, current, size, eof, turns>>

\* demux_read_data copies what it can and goes round its loop.
GiveData ==
    /\ ~Idle /\ call.op = "data"
    /\ \/ call.at = "filled"
       \/ call.at = "start" /\ InHand(call.s)
    /\ LET s == call.s
           n == IF size[s] - pos[s] < call.want THEN size[s] - pos[s] ELSE call.want
       IN  /\ Give(s, pos[s] + n) /\ Forget(s)
           /\ IF n = call.want
              THEN Return(s, current[s], Said(s))
              ELSE call' = Running("data", s, "start", call.want - n)
    /\ UNCHANGED <<fileVars, id, sh, queue, packs, bytes, current, size, eof, turns>>

\* demux_pattern_3 reads as far as the pattern, or all there is; it stops when
\* it has found it, has read its limit, or the stream is marked as ended.
GivePattern ==
    /\ ~Idle /\ call.op = "pattern"
    /\ \/ call.at = "filled"
       \/ call.at = "start" /\ InHand(call.s)
    /\ LET s == call.s
           most == IF size[s] - pos[s] < call.want THEN size[s] - pos[s] ELSE call.want
       IN  \E n \in 0 .. most : \E found \in BOOLEAN :
             /\ n > 0 \/ pos[s] = size[s]
             /\ n < most => found
             /\ Give(s, pos[s] + n) /\ Forget(s)
             /\ IF n = call.want \/ (found /\ n > 0) \/ eof[s]
                THEN Return(s, current[s], Said(s))
                ELSE call' = Running("pattern", s, "start", call.want - n)
    /\ UNCHANGED <<fileVars, id, sh, queue, packs, bytes, current, size, eof, turns>>

\* Mutant: the queue is looked at before the current packet.
PeekDone_QueueFirst ==
    /\ ~Idle /\ call.op = "peek"
    /\ LET s == call.s
       IN  \/ /\ ~Hungry
              /\ told' = [told EXCEPT ![s] = IF packs[s] > 0
                                             THEN Head(queue[s]) ELSE current[s]]
              /\ Return(s, -1, 0)
           \/ /\ NoMore
              /\ UNCHANGED told
              /\ Return(s, -1, 0)
    /\ UNCHANGED <<fileVars, id, sh, dsVars, nextU, nextB, turns>>

\* ds_get_next_pts answers: the current packet's pts when none of it was read,
\* or else the first packet's in the queue; nothing when there is no more.
PeekDone ==
    /\ ~Idle /\ call.op = "peek"
    /\ LET s == call.s
       IN  \/ /\ ~Hungry
              /\ told' = [told EXCEPT ![s] = IF current[s] > 0 /\ pos[s] = 0
                                             THEN current[s] ELSE Head(queue[s])]
              /\ Return(s, -1, 0)
           \/ /\ NoMore
              /\ UNCHANGED told
              /\ Return(s, -1, 0)
    /\ UNCHANGED <<fileVars, id, sh, dsVars, nextU, nextB, turns>>

-----------------------------------------------------------------------------
(* Seeks and switches of tracks.                                              *)

Turn == Idle /\ turns < MaxTurns /\ turns' = turns + 1

\* The demuxer goes on from some place of the file: where av_seek_frame or the
\* stream's driver put it, or where it was when that failed.
MoveTo(p) ==
    /\ filepos' = p
    /\ nextU' = [s \in Streams |-> p]
    /\ nextB' = [s \in Streams |-> 0]

\* demux_seek.
Seek ==
    /\ Turn
    /\ \E p \in 1 .. Size + 1 : MoveTo(p)
    /\ FreePacks(Streams)
    /\ eof' = [s \in Streams |-> FALSE]
    /\ Return("video", -1, 0)
    /\ UNCHANGED <<file, id, sh>>

\* demuxer_seek_chapter and demuxer_set_angle, left to the stream's driver.
SeekChapter ==
    /\ Turn
    /\ \E p \in 1 .. Size + 1 : MoveTo(p)
    /\ FreePacks(Streams)
    /\ Return("video", -1, 0)
    /\ UNCHANGED <<file, id, sh, eof>>

\* Mutant: the packets of the old track stay in the queue.
Switch_Kept(s) ==
    /\ Turn
    /\ Present(TracksOf["audio"] \cap TracksOf["video"]) = {}
    /\ \E t \in Selectable(s) \ {id[s]} : id' = [id EXCEPT ![s] = t] /\ sh' = [sh EXCEPT ![s] = t]
    /\ nextU' = [nextU EXCEPT ![s] = filepos]
    /\ nextB' = [nextB EXCEPT ![s] = 0]
    /\ Return(s, -1, 0)
    /\ UNCHANGED <<fileVars, dsVars, told>>

\* DEMUXER_CTRL_SWITCH_AUDIO and _VIDEO of demux_lavf; raw DV has no such thing.
Switch(s) ==
    /\ Turn
    /\ Present(TracksOf["audio"] \cap TracksOf["video"]) = {}
    /\ \E t \in Selectable(s) \ {id[s]} : id' = [id EXCEPT ![s] = t] /\ sh' = [sh EXCEPT ![s] = t]
    /\ FreePacks({s})
    /\ nextU' = [nextU EXCEPT ![s] = filepos]
    /\ nextB' = [nextB EXCEPT ![s] = 0]
    /\ Return(s, -1, 0)
    /\ UNCHANGED <<file, filepos, eof>>

\* mp_property_sub: a track of the file, by which the queue is emptied.
SubOn ==
    /\ Turn
    /\ \E t \in Selectable("sub") \ {NoTrack} :
          id' = [id EXCEPT !["sub"] = t] /\ sh' = [sh EXCEPT !["sub"] = t]
    /\ FreePacks({"sub"})
    /\ nextU' = [nextU EXCEPT !["sub"] = filepos]
    /\ nextB' = [nextB EXCEPT !["sub"] = 0]
    /\ Return("sub", -1, 0)
    /\ UNCHANGED <<file, filepos, eof>>

\* No subtitles, or some from a file: the queue and the header stay as they are,
\* and what is queued is still read.
SubOff ==
    /\ Turn
    /\ id["sub"] # NoTrack
    /\ id' = [id EXCEPT !["sub"] = NoTrack]
    /\ Return("sub", -1, 0)
    /\ UNCHANGED <<sh, fileVars, dsVars, readerVars>>

-----------------------------------------------------------------------------

Init ==
    /\ file \in Files
    /\ filepos = 1
    /\ id \in [Streams -> Tracks \union {NoTrack}]
    /\ \A s \in Streams : id[s] \in Selectable(s)
    /\ id["video"] # NoTrack
    /\ sh = id
    /\ queue = [s \in Streams |-> <<>>]
    /\ packs = [s \in Streams |-> 0] /\ bytes = [s \in Streams |-> 0]
    /\ current = [s \in Streams |-> 0]
    /\ pos = [s \in Streams |-> 0] /\ size = [s \in Streams |-> 0]
    /\ eof = [s \in Streams |-> FALSE]
    /\ refs = [p \in Units |-> 0]
    /\ call = [op |-> "none", s |-> "video", unit |-> -1, said |-> 0]
    /\ told = [s \in Streams |-> 0]
    /\ nextU = [s \in Streams |-> 1] /\ nextB = [s \in Streams |-> 0]
    /\ turns = 0

\* What a decoder does with the stream it decodes.
Read(s) == sh[s] # NoTrack /\
    (\/ GetPacket(s) \/ GetPacket2(s) \/ RepeatLast(s)
     \/ ReadData(s) \/ Pattern3(s) \/ FillDirectly(s) \/ GetNextPts(s))

Continue ==
    \/ StartFill \/ FillTake \/ FillDemux \/ FillEof
    \/ GiveRest \/ GiveData \/ GivePattern \/ PeekDone

Next ==
    \/ \E s \in Streams : Read(s)
    \/ GetPacketSub
    \/ Continue
    \/ Seek \/ SeekChapter
    \/ \E s \in {"audio", "video"} : Switch(s)
    \/ SubOn \/ SubOff

\* A call runs on; and the play loop asks for sound and for pictures again and
\* again (fill_audio_out_buffers and update_video, once a turn of run_playloop).
Fairness ==
    /\ WF_vars(Continue)
    /\ \A s \in {"audio", "video"} : 
         SF_vars(id[s] # NoTrack /\ (GetPacket(s) \/ GetPacket2(s)))

Spec == Init /\ [][Next]_vars /\ Fairness

-----------------------------------------------------------------------------
CallOK ==
    \/ call \in [op : {"none"}, s : Streams, unit : -1 .. Size, said : 0 .. Size]
    \/ /\ call \in [op : Calls, s : Streams, at : {"start", "fill", "filled"}, want : Nat]
       /\ call.op = "peek" => call.at = "start"
       /\ call.op = "fill" => call.at # "filled"

TypeOK ==
    /\ file \in Files /\ filepos \in 1 .. Size + 1
    /\ id \in [Streams -> Tracks \union {NoTrack}]
    /\ sh \in [Streams -> Tracks \union {NoTrack}]
    /\ queue \in [Streams -> Seq(Units)]
    /\ packs \in [Streams -> Nat] /\ bytes \in [Streams -> Int]
    /\ current \in [Streams -> 0 .. Size]
    /\ pos \in [Streams -> Nat] /\ size \in [Streams -> Nat]
    /\ \A s \in Streams : pos[s] <= size[s]
    /\ eof \in [Streams -> BOOLEAN]
    /\ refs \in [Units -> Int]
    /\ told \in [Streams -> 0 .. Size]
    /\ nextU \in [Streams -> 1 .. Size + 1] /\ nextB \in [Streams -> Nat]
    /\ turns \in Nat
    /\ CallOK

SumLen(q) == LET sum[i \in 0 .. Len(q)] ==
                   IF i = 0 THEN 0 ELSE sum[i - 1] + file[q[i]].len
             IN  sum[Len(q)]

\* The two counters that decide when a queue is full count what is in it,
\* whatever seeks, switches and ends of file came between.
CountersMatch ==
    \A s \in Streams : packs[s] = Len(queue[s]) /\ bytes[s] = SumLen(queue[s])

\* A packet shared by two streams (raw DV) is freed when the second lets go of
\* it and not before, and none is left behind.
RefsMatch ==
    \A p \in Units : refs[p] = Cardinality(Holders(p))

\* A stream nobody reads cannot grow without bound while another is read.
QueuesBounded ==
    \A s \in {"audio", "video"} : Len(queue[s]) <= MaxPacks

\* The end that a read reports is the end: either nothing of the track is left
\* in the file, or the other queue is so full that nothing can be read.
EofMeansEnd ==
    Idle /\ call.unit = 0 /\ ~Limited =>
        \A p \in Units : p >= nextU[call.s] => file[p].track # id[call.s]

\* The packet that ds_get_next_pts gave the time of is the next that is begun.
AnnouncedIsNext ==
    Idle /\ call.unit > 0 /\ call.said > 0 =>
        call.said = call.unit \/ file[call.said].len = 0

\* Each reader is given its track's packets in order, none lost or repeated.
Feed == INSTANCE PacketFeed WITH id <- sh
FeedKept == Feed!Feed

\* A stream that was told of an end because the other's queue was full gets
\* its packets later: the file is played to its end.
AllPlayed ==
    <>[](\A s \in {"audio", "video"} : \A p \in Units :
          p >= nextU[s] => file[p].track # id[s])
=============================================================================
