------------------------------- MODULE TvRing -------------------------------
(***************************************************************************)
(* The second-level video buffers of a capture card (stream/tvi_v4l2.c):   *)
(* video_grabber, a thread, puts the frames it captures into a ring that   *)
(* the demuxer empties with grab_video_frame.  The ring starts with no     *)
(* buffer at all and gets one more, at its tail, each time it is full and  *)
(* may still grow.  video_buffer_mutex is held while it grows and while a  *)
(* frame is taken; the grabber writes a frame, moves the tail and counts   *)
(* the frame up outside of it.  So video_cnt++ and video_cnt-- can fall    *)
(* into one another, and one of them be lost.                              *)
(*                                                                         *)
(* Frames are numbered 1, 2, ... as they are captured.  An entry of the    *)
(* ring has a pointer to its buffer, and a timestamp and a size, of which  *)
(* only the frame they belong to is kept.                                  *)
(***************************************************************************)
EXTENDS Integers, Sequences

CONSTANTS
    MaxSize,      \* what -tv buffersize leaves room for, in frames (2 or more)
    Frames,       \* how many frames are captured (bounds the model)
    MaxLoop       \* how often grab_video_frame looks for a frame (50)

ASSUME RingAssumption ==
    /\ MaxSize \in Nat /\ MaxSize >= 2
    /\ Frames \in Nat /\ MaxLoop \in Nat

VARIABLES
    \* the ring, its entries' buffers and frames, and what the buffers hold
    data, stamp, memory, size, head, tail, cnt,
    \* shutdown, and immediate_mode: wait in place of dropping frames
    shutdown, immediate_mode,
    \* the grabber: where it is, the frame at hand, what it dropped, its cnt
    gpc, frame, dropped, g_cnt,
    \* the demuxer: where it is, loop_cnt, its cnt, the frames it got
    dpc, loops, d_cnt, out,
    \* history, no state of the program: has an update of video_cnt been lost?
    lost

entries == <<data, stamp, memory>>
ring    == <<entries, size, head, tail, cnt>>
flags   == <<shutdown, immediate_mode, lost>>
grabber == <<gpc, frame, dropped, g_cnt>>
demuxer == <<dpc, loops, d_cnt, out>>
vars    == <<ring, flags, grabber, demuxer>>

(* video_buffer_size_max                                                   *)
BufferMax == IF immediate_mode THEN 2 ELSE MaxSize

Slots  == 0 .. MaxSize - 1
NoData == 0                \* a null pointer
Torn   == -1               \* what a buffer holds while it is written

(* The thread is started by the first grab_video_frame.                    *)
Init ==
    /\ data = [k \in Slots |-> NoData] /\ stamp = [k \in Slots |-> 0]
    /\ memory = [b \in 1 .. MaxSize |-> 0]
    /\ size = 0 /\ head = 0 /\ tail = 0 /\ cnt = 0
    /\ shutdown = FALSE /\ immediate_mode \in BOOLEAN
    /\ gpc = "off" /\ frame = 0 /\ dropped = {} /\ g_cnt = 0
    /\ dpc = "idle" /\ loops = 0 /\ d_cnt = 0 /\ out = <<>>
    /\ lost = FALSE

Locked == dpc \in {"copy", "uncount", "advance"}

----------------------------------------------------------------------------
(* The grabber.                                                            *)

(* Mutant: the wait for room does not look at shutdown.                    *)
Stopped_Waiting == shutdown /\ ~(immediate_mode /\ cnt = BufferMax)

Stopped == shutdown

Capture ==
    /\ gpc = "wait" /\ ~shutdown /\ frame < Frames
    /\ immediate_mode => cnt # BufferMax
    /\ frame' = frame + 1
    /\ gpc' = "grow"
    /\ UNCHANGED <<ring, flags, dropped, g_cnt, demuxer>>

(* It was asked to stop, or the device fails for good.                     *)
Stop ==
    /\ gpc = "wait" /\ Stopped
    /\ gpc' = "gone"
    /\ UNCHANGED <<ring, flags, frame, dropped, g_cnt, demuxer>>

Fail ==
    /\ gpc \in {"wait", "requeue"}
    /\ gpc' = "gone"
    /\ UNCHANGED <<ring, flags, frame, dropped, g_cnt, demuxer>>

(* Mutant: one entry too few is moved.                                     *)
MovedTo_Short == size - 1

MovedTo == size

(* The entries from the tail on are moved up by one.                       *)
Moved(f) == [k \in Slots |->
                IF k \in tail + 1 .. MovedTo THEN f[k - 1] ELSE f[k]]

(* Mutant: only the pointers are moved.                                    *)
NewStamp_Kept == stamp

NewStamp == Moved(stamp)

(* Mutant: the head stays with the entry that is the tail now.             *)
NewHead_Kept == head

NewHead == IF head >= tail /\ cnt > 0 THEN head + 1 ELSE head

(* "allocate a new buffer, if needed", unless malloc fails.                *)
Grow ==
    /\ gpc = "grow" /\ ~Locked
    /\ \/ /\ size < BufferMax /\ cnt = size
          /\ data' = [Moved(data) EXCEPT ![tail] = size + 1]
          /\ stamp' = NewStamp
          /\ head' = NewHead
          /\ size' = size + 1
       \/ UNCHANGED <<data, stamp, head, size>>
    /\ gpc' = "check"
    /\ UNCHANGED <<memory, tail, cnt, flags, frame, dropped, g_cnt, demuxer>>

Full == cnt = size

(* "video buffer full - dropping frame"                                    *)
Drop ==
    /\ gpc = "check" /\ Full
    /\ dropped' = dropped \cup {frame}
    /\ gpc' = "requeue"
    /\ UNCHANGED <<ring, flags, frame, g_cnt, demuxer>>

(* The timestamp, and copy_frame: size, then the contents.                 *)
Write ==
    /\ gpc = "check" /\ ~Full
    /\ stamp' = [stamp EXCEPT ![tail] = frame]
    /\ memory' = [memory EXCEPT ![data[tail]] = Torn]
    /\ gpc' = "writing"
    /\ UNCHANGED <<data, size, head, tail, cnt, flags, frame, dropped, g_cnt,
                   demuxer>>

Written ==
    /\ gpc = "writing"
    /\ memory' = [memory EXCEPT ![data[tail]] = frame]
    /\ gpc' = "tail"
    /\ UNCHANGED <<data, stamp, size, head, tail, cnt, flags, frame, dropped,
                   g_cnt, demuxer>>

Following(k) == (k + 1) % size

MoveTail ==
    /\ gpc = "tail"
    /\ tail' = Following(tail)
    /\ gpc' = "count"
    /\ UNCHANGED <<entries, size, head, cnt, flags, frame, dropped, g_cnt,
                   demuxer>>

(* video_cnt++, with no lock: a load, and a store that undoes what the     *)
(* demuxer stored since.                                                   *)
LoadCount ==
    /\ gpc = "count"
    /\ g_cnt' = cnt
    /\ gpc' = "count_up"
    /\ UNCHANGED <<ring, flags, frame, dropped, demuxer>>

StoreCount ==
    /\ gpc = "count_up"
    /\ cnt' = g_cnt + 1 /\ lost' = (lost \/ cnt # g_cnt)
    /\ gpc' = "requeue"
    /\ UNCHANGED <<entries, size, head, tail, shutdown, immediate_mode, frame,
                   dropped, g_cnt, demuxer>>

(* VIDIOC_QBUF, and on to the next frame.                                  *)
Requeue ==
    /\ gpc = "requeue"
    /\ gpc' = "wait" /\ g_cnt' = 0
    /\ UNCHANGED <<ring, flags, frame, dropped, demuxer>>

Grabber ==
    \/ Capture \/ Stop \/ Fail \/ Grow \/ Drop \/ Write \/ Written \/ MoveTail
    \/ LoadCount \/ StoreCount \/ Requeue

----------------------------------------------------------------------------
(* The demuxer: grab_video_frame, again and again, and uninit.             *)

Grab ==
    /\ dpc = "idle"
    /\ gpc' = IF gpc = "off" THEN "wait" ELSE gpc
    /\ dpc' = "look" /\ loops' = 0
    /\ UNCHANGED <<ring, flags, frame, dropped, g_cnt, d_cnt, out>>

(* Mutant: it looks until there is a frame.                                *)
LookAgain_Ever == TRUE

LookAgain == loops <= MaxLoop

(* No frame: look again later, or give it up and return 0.                 *)
NoFrame ==
    /\ dpc = "look" /\ cnt = 0
    /\ loops' = IF loops <= MaxLoop THEN loops + 1 ELSE loops
    /\ dpc' = IF LookAgain THEN "look" ELSE "idle"
    /\ UNCHANGED <<ring, flags, grabber, d_cnt, out>>

(* A frame: take the lock, ...                                             *)
Take ==
    /\ dpc = "look" /\ cnt # 0
    /\ dpc' = "copy"
    /\ UNCHANGED <<ring, flags, grabber, loops, d_cnt, out>>

(* ... copy it, with its timestamp, begin to count it down, ...            *)
Copy ==
    /\ dpc = "copy"
    /\ out' = Append(out, [stamp   |-> stamp[head],
                           picture |-> memory[data[head]]])
    /\ dpc' = "uncount"
    /\ UNCHANGED <<ring, flags, grabber, loops, d_cnt>>

Uncount ==
    /\ dpc = "uncount"
    /\ d_cnt' = cnt
    /\ dpc' = "advance"
    /\ UNCHANGED <<ring, flags, grabber, loops, out>>

(* ... store the count, which undoes what the grabber stored since, move   *)
(* the head, and let the lock go.                                          *)
Advance ==
    /\ dpc = "advance"
    /\ cnt' = d_cnt - 1 /\ lost' = (lost \/ cnt # d_cnt)
    /\ head' = Following(head)
    /\ dpc' = "idle" /\ loops' = 0 /\ d_cnt' = 0
    /\ UNCHANGED <<entries, size, tail, shutdown, immediate_mode, grabber, out>>

(* shutdown = 1 and pthread_join.                                          *)
Uninit ==
    /\ dpc = "idle"
    /\ shutdown' = TRUE
    /\ dpc' = "join" /\ loops' = 0
    /\ UNCHANGED <<ring, immediate_mode, lost, grabber, d_cnt, out>>

Joined ==
    /\ dpc = "join" /\ gpc \in {"off", "gone"}
    /\ dpc' = "closed"
    /\ UNCHANGED <<ring, flags, grabber, loops, d_cnt, out>>

DemuxerStep == NoFrame \/ Take \/ Copy \/ Uncount \/ Advance \/ Joined

Next == Grabber \/ DemuxerStep \/ Grab \/ Uninit

Spec == Init /\ [][Next]_vars

(* The threads run on; the device need not capture anything.               *)
FairSpec ==
    /\ Spec /\ WF_vars(DemuxerStep)
    /\ WF_vars(Grabber /\ gpc # "wait") /\ WF_vars(Stop)

----------------------------------------------------------------------------
(* The demuxer gets the frames in the order they were captured in, each    *)
(* once and whole, with its own timestamp, and only those are missing that *)
(* were dropped - however often the ring grows meanwhile, and whatever the *)
(* threads do at once, until the store of one count undoes the other's.    *)
InOrder ==
    LET Frame(i) == IF i = 0 THEN 0 ELSE out[i].stamp
    IN  \A i \in 1 .. Len(out) :
            /\ out[i].picture = out[i].stamp
            /\ Frame(i - 1) < Frame(i)
            /\ Frame(i - 1) + 1 .. Frame(i) - 1 \subseteq dropped

FramesInOrder == ~lost => InOrder

(* The grabber never writes the frame that the demuxer copies, unless the  *)
(* two counted at once before and one of the counts was lost.              *)
NoTornFrame == ~lost => ~(gpc = "writing" /\ dpc = "copy" /\ data[tail] = data[head])

(* Growing the ring neither loses a buffer nor leaves it in two entries.   *)
BuffersDistinct ==
    \A k, l \in 0 .. size - 1 :
        data[k] # NoData /\ (k # l => data[k] # data[l])

(* grab_video_frame comes back, with or without a frame, ...               *)
GrabReturns == dpc = "look" ~> dpc = "idle"

(* ... and so does uninit: the grabber is never left waiting for room.     *)
UninitReturns == dpc = "join" ~> dpc = "closed"
=============================================================================
