---------------------------- MODULE TvRingProofs ----------------------------
(***************************************************************************)
(* Theorems about TvRing, for every size of the ring:                      *)
(*   - BuffersStayDistinct: growing the ring neither loses a buffer nor    *)
(*     leaves it in two entries, even if updates of video_cnt are lost;    *)
(*   - NoFrameTorn: as long as none is lost, the grabber never writes the  *)
(*     frame that the demuxer copies;                                      *)
(*   - FramesAlwaysInOrder: nor does it lose, repeat or reorder one.       *)
(***************************************************************************)
EXTENDS TvRing, SequenceTheorems, TLAPS

(* (video_head + 1) % video_buffer_size_current, for a head in the ring.   *)
LEMMA FollowingInRing ==
    ASSUME size \in Nat, NEW k \in Nat, k < size
    PROVE  Following(k) = IF k + 1 = size THEN 0 ELSE k + 1
<1>1. \A n \in Nat : n > 0 => n % n = 0
  OBVIOUS
<1>2. \A n, j \in Nat : j < n => j % n = j
  OBVIOUS
<1>3. QED BY <1>1, <1>2 DEF Following

LEMMA MaxIsPositive == immediate_mode \in BOOLEAN =>
                           BufferMax \in Nat /\ BufferMax <= MaxSize
BY RingAssumption DEF BufferMax

-----------------------------------------------------------------------------
(* The entries in use have buffers of their own.  Nothing is written into  *)
(* or taken from a ring of no buffers, where the next position would be    *)
(* undefined; and the tail, where the next buffer goes, is in the ring.    *)

Positions ==
    /\ immediate_mode \in BOOLEAN
    /\ size \in Nat /\ size <= BufferMax
    /\ head \in Nat /\ head <= size /\ (size > 0 => head < size)
    /\ tail \in Nat /\ tail <= size /\ (size > 0 => tail < size)
    /\ cnt \in Int /\ g_cnt \in Int /\ d_cnt \in Int

Buffers ==
    /\ data \in [Slots -> Nat]
    /\ \A k \in Slots : k < size => 1 <= data[k] /\ data[k] <= size
    /\ \A k, l \in Slots : k < size /\ l < size /\ k # l => data[k] # data[l]

Storing == gpc \in {"writing", "tail", "count", "count_up"}
Taking  == dpc \in {"copy", "uncount", "advance"}

EmptyRing == size = 0 => cnt = 0 /\ ~Storing /\ ~Taking

RingInv == Positions /\ Buffers /\ EmptyRing

LEMMA RingInit == Init => RingInv
<1> SUFFICES ASSUME Init PROVE RingInv
  OBVIOUS
<1>1. Positions
  BY RingAssumption DEF Init, Positions, BufferMax
<1>2. Buffers
  BY DEF Init, Buffers, NoData, Slots
<1>3. EmptyRing
  BY DEF Init, EmptyRing, Storing, Taking
<1>4. QED BY <1>1, <1>2, <1>3 DEF RingInv

(* The one step that moves entries: a new buffer goes to the tail, and     *)
(* what was there or behind moves up by one.                               *)
LEMMA GrowStep ==
    ASSUME RingInv, Grow
    PROVE  RingInv'
<1>1. /\ immediate_mode \in BOOLEAN
      /\ size \in Nat /\ size <= BufferMax
      /\ head \in Nat /\ head <= size /\ (size > 0 => head < size)
      /\ tail \in Nat /\ tail <= size /\ (size > 0 => tail < size)
      /\ cnt \in Int /\ g_cnt \in Int /\ d_cnt \in Int
  BY DEF RingInv, Positions
<1>2. BufferMax \in Nat /\ BufferMax <= MaxSize /\ MaxSize \in Nat
  BY <1>1, MaxIsPositive, RingAssumption
<1>3. /\ data \in [Slots -> Nat]
      /\ \A k \in Slots : k < size => 1 <= data[k] /\ data[k] <= size
      /\ \A k, l \in Slots :
            k < size /\ l < size /\ k # l => data[k] # data[l]
  BY DEF RingInv, Buffers
<1>4. /\ gpc' = "check" /\ gpc = "grow" /\ dpc' = dpc /\ ~Taking
      /\ UNCHANGED <<tail, cnt, immediate_mode, g_cnt, d_cnt>>
  BY DEF Grow, Locked, Taking, flags, demuxer
<1>5. BufferMax' = BufferMax
  BY <1>4 DEF BufferMax
<1>6. EmptyRing'
  <2>1. size' = size \/ size' = size + 1
    BY DEF Grow
  <2>2. ~Storing' /\ ~Taking'
    BY <1>4 DEF Storing, Taking
  <2>3. size' = 0 => cnt' = 0
    BY <1>1, <1>4, <2>1 DEF RingInv, EmptyRing
  <2>4. QED BY <2>2, <2>3 DEF EmptyRing
<1>7. CASE UNCHANGED <<data, stamp, head, size>>
  <2>1. Positions'
    BY <1>1, <1>4, <1>5, <1>7 DEF Positions
  <2>2. Buffers'
    BY <1>3, <1>7 DEF Buffers
  <2>3. QED BY <1>6, <2>1, <2>2 DEF RingInv
<1>8. CASE /\ size < BufferMax /\ cnt = size
           /\ data' = [Moved(data) EXCEPT ![tail] = size + 1]
           /\ head' = NewHead
           /\ size' = size + 1
  <2>1. head' = head \/ (head' = head + 1 /\ size > 0)
    BY <1>1, <1>8 DEF NewHead
  <2>2. Positions'
    BY <1>1, <1>2, <1>4, <1>5, <1>8, <2>1 DEF Positions
  <2>3. tail \in Slots /\ \A k \in Slots : k \in Nat
    BY <1>1, <1>2, <1>8, RingAssumption DEF Slots
  <2>4. \A k \in Slots :
           /\ k < tail => data'[k] = data[k]
           /\ k = tail => data'[k] = size + 1
           /\ tail < k /\ k <= size => data'[k] = data[k - 1]
           /\ size < k => data'[k] = data[k]
    <3>1. Moved(data) = [k \in Slots |-> IF k \in tail + 1 .. size
                                         THEN data[k - 1] ELSE data[k]]
      BY DEF Moved, MovedTo
    <3>2. QED BY <1>1, <1>8, <2>3, <3>1
  <2>5. \A k \in Slots : tail < k /\ k <= size => k - 1 \in Slots
    BY <1>1, <1>2, RingAssumption DEF Slots
  <2>6. data' \in [Slots -> Nat]
    <3>1. \A k \in Slots : data'[k] \in Nat
      <4> SUFFICES ASSUME NEW k \in Slots PROVE data'[k] \in Nat
        OBVIOUS
      <4>1. CASE k < tail \/ size < k
        BY <1>3, <2>4, <4>1
      <4>2. CASE k = tail
        BY <1>1, <2>4, <4>2
      <4>3. CASE tail < k /\ k <= size
        BY <1>3, <2>4, <2>5, <4>3
      <4>4. QED BY <1>1, <2>3, <4>1, <4>2, <4>3
    <3>2. data' = [[k \in Slots |-> Moved(data)[k]] EXCEPT ![tail] = size + 1]
      BY <1>8 DEF Moved
    <3>3. data' = [k \in Slots |-> data'[k]]
      BY <3>2
    <3>4. QED BY <3>1, <3>3
  (* Where the buffer of an entry comes from.                              *)
  <2> DEFINE Source(k) == IF k < tail THEN k ELSE k - 1
  <2>7. \A k \in Slots : k < size + 1 /\ k # tail =>
           /\ Source(k) \in Slots /\ Source(k) < size
           /\ data'[k] = data[Source(k)]
    <3> SUFFICES ASSUME NEW k \in Slots, k < size + 1, k # tail
                 PROVE  /\ Source(k) \in Slots /\ Source(k) < size
                        /\ data'[k] = data[Source(k)]
      OBVIOUS
    <3>1. CASE k < tail
      BY <1>1, <2>3, <2>4, <3>1
    <3>2. CASE tail < k
      BY <1>1, <2>3, <2>4, <2>5, <3>2
    <3>3. k < tail \/ tail < k
      BY <1>1, <2>3
    <3> HIDE DEF Source
    <3>4. QED BY <3>1, <3>2, <3>3
  <2>8. \A k \in Slots : k < size + 1 => 1 <= data'[k] /\ data'[k] <= size + 1
    <3> SUFFICES ASSUME NEW k \in Slots, k < size + 1
                 PROVE  1 <= data'[k] /\ data'[k] <= size + 1
      OBVIOUS
    <3>1. CASE k = tail
      BY <1>1, <2>4, <3>1
    <3>2. CASE k # tail
      <4>1. /\ Source(k) \in Slots /\ Source(k) < size
            /\ data'[k] = data[Source(k)]
        BY <2>7, <3>2
      <4>2. 1 <= data[Source(k)] /\ data[Source(k)] <= size
        BY <1>3, <4>1
      <4>3. data[Source(k)] \in Nat
        BY <1>3, <4>1
      <4> HIDE DEF Source
      <4>4. QED BY <1>1, <4>1, <4>2, <4>3
    <3>3. QED BY <3>1, <3>2
  <2>9. \A k, l \in Slots : k < size + 1 /\ l < size + 1 /\ k # l
                               => data'[k] # data'[l]
    <3>1. \A k \in Slots : k < size + 1 /\ k # tail => data'[k] # size + 1
      <4> SUFFICES ASSUME NEW k \in Slots, k < size + 1, k # tail
                   PROVE  data'[k] # size + 1
        OBVIOUS
      <4>1. /\ Source(k) \in Slots /\ Source(k) < size
            /\ data'[k] = data[Source(k)]
        BY <2>7
      <4>2. data[Source(k)] <= size /\ data[Source(k)] \in Nat
        BY <1>3, <4>1
      <4> HIDE DEF Source
      <4>3. QED BY <1>1, <4>1, <4>2
    <3>2. data'[tail] = size + 1
      BY <2>3, <2>4
    <3> SUFFICES ASSUME NEW k \in Slots, NEW l \in Slots,
                        k < size + 1, l < size + 1, k # l
                 PROVE  data'[k] # data'[l]
      OBVIOUS
    <3>3. CASE k = tail \/ l = tail
      BY <3>1, <3>2, <3>3
    <3>4. CASE k # tail /\ l # tail
      <4>1. Source(k) # Source(l)
        BY <1>1, <2>3, <3>4
      <4>2. /\ Source(k) \in Slots /\ Source(k) < size
            /\ Source(l) \in Slots /\ Source(l) < size
            /\ data'[k] = data[Source(k)] /\ data'[l] = data[Source(l)]
        BY <2>7, <3>4
      <4> HIDE DEF Source
      <4>3. QED BY <1>3, <4>1, <4>2
    <3>5. QED BY <3>3, <3>4
  <2>10. Buffers'
    BY <1>8, <2>6, <2>8, <2>9 DEF Buffers, Slots
  <2>11. QED BY <1>6, <2>2, <2>10 DEF RingInv
<1>9. QED BY <1>7, <1>8 DEF Grow

(* All other steps leave the entries alone.                                *)
LEMMA OtherStep ==
    ASSUME RingInv,
           \/ Capture \/ Stop \/ Fail \/ Drop \/ Write \/ Written \/ MoveTail
           \/ LoadCount \/ StoreCount \/ Requeue \/ DemuxerStep \/ Grab \/ Uninit
           \/ UNCHANGED vars
    PROVE  RingInv'
<1>1. /\ size \in Nat /\ size <= BufferMax
      /\ head \in Nat /\ head <= size /\ (size > 0 => head < size)
      /\ tail \in Nat /\ tail <= size /\ (size > 0 => tail < size)
      /\ cnt \in Int /\ g_cnt \in Int /\ d_cnt \in Int
  BY DEF RingInv, Positions
<1>2. UNCHANGED <<data, size, immediate_mode>>
  BY DEF Capture, Stop, Fail, Drop, Write, Written, MoveTail, LoadCount,
         StoreCount, Requeue, DemuxerStep, NoFrame, Take, Copy, Uncount, Advance,
         Joined, Grab, Uninit, vars, ring, entries, flags
<1>3. Buffers'
  BY <1>2 DEF RingInv, Buffers
<1>4. BufferMax' = BufferMax
  BY <1>2 DEF BufferMax
<1>5. SUFFICES Positions' /\ EmptyRing'
  BY <1>3 DEF RingInv
<1>6. CASE \/ Capture \/ Stop \/ Fail \/ Drop \/ LoadCount \/ Requeue
           \/ NoFrame \/ Joined \/ Grab \/ Uninit \/ UNCHANGED vars
  <2>1. /\ UNCHANGED <<head, tail, cnt>>
        /\ g_cnt' \in {g_cnt, cnt, 0} /\ d_cnt' = d_cnt
    BY <1>6 DEF Capture, Stop, Fail, Drop, LoadCount, Requeue, NoFrame, Joined,
                Grab, Uninit, vars, ring, entries, flags, grabber, demuxer
  <2>2. Storing' => Storing
    BY <1>6 DEF Capture, Stop, Fail, Drop, LoadCount, Requeue, NoFrame, Joined,
                Grab, Uninit, vars, grabber, demuxer, Storing
  <2>3. Taking' => Taking
    BY <1>6 DEF Capture, Stop, Fail, Drop, LoadCount, Requeue, NoFrame, Joined,
                Grab, Uninit, vars, grabber, demuxer, Taking
  <2>4. Positions'
    BY <1>1, <1>2, <1>4, <2>1 DEF RingInv, Positions
  <2>5. EmptyRing'
    BY <1>2, <2>1, <2>2, <2>3 DEF RingInv, EmptyRing
  <2>6. QED BY <2>4, <2>5
<1>7. CASE Write \/ Written \/ MoveTail \/ StoreCount
  <2>1. UNCHANGED <<head, d_cnt, g_cnt, dpc>>
    BY <1>7 DEF Write, Written, MoveTail, StoreCount, flags, demuxer
  <2>2. size > 0
    <3>1. CASE Write
      BY <1>1, <3>1 DEF Write, Full, RingInv, EmptyRing
    <3>2. CASE Written \/ MoveTail \/ StoreCount
      BY <1>1, <3>2 DEF Written, MoveTail, StoreCount, RingInv, EmptyRing, Storing
    <3>3. QED BY <1>7, <3>1, <3>2
  <2>3. tail' \in Nat /\ tail' < size
    <3>1. CASE MoveTail
      <4>1. tail' = IF tail + 1 = size THEN 0 ELSE tail + 1
        BY <1>1, <2>2, <3>1, FollowingInRing DEF MoveTail
      <4>2. QED BY <1>1, <2>2, <4>1
    <3>2. CASE Write \/ Written \/ StoreCount
      <4>1. tail' = tail
        BY <3>2 DEF Write, Written, StoreCount
      <4>2. QED BY <1>1, <2>2, <4>1
    <3>3. QED BY <1>7, <3>1, <3>2
  <2>4. cnt' \in Int
    BY <1>1, <1>7 DEF Write, Written, MoveTail, StoreCount
  <2>5. Positions'
    BY <1>1, <1>2, <1>4, <2>1, <2>2, <2>3, <2>4 DEF RingInv, Positions
  <2>6. EmptyRing'
    BY <1>1, <1>2, <2>2 DEF EmptyRing
  <2>7. QED BY <2>5, <2>6
<1>8. CASE Take \/ Copy \/ Uncount \/ Advance
  <2>1. UNCHANGED <<tail, g_cnt>>
    BY <1>8 DEF Take, Copy, Uncount, Advance, ring, flags, grabber
  <2>2. size > 0
    <3>1. CASE Take
      BY <1>1, <3>1 DEF Take, RingInv, EmptyRing
    <3>2. CASE Copy \/ Uncount \/ Advance
      BY <1>1, <3>2 DEF Copy, Uncount, Advance, RingInv, EmptyRing, Taking
    <3>3. QED BY <1>8, <3>1, <3>2
  <2>3. head' \in Nat /\ head' < size
    <3>1. CASE Advance
      <4>1. head' = IF head + 1 = size THEN 0 ELSE head + 1
        BY <1>1, <2>2, <3>1, FollowingInRing DEF Advance
      <4>2. QED BY <1>1, <2>2, <4>1
    <3>2. CASE Take \/ Copy \/ Uncount
      <4>1. head' = head
        BY <3>2 DEF Take, Copy, Uncount, ring
      <4>2. QED BY <1>1, <2>2, <4>1
    <3>3. QED BY <1>8, <3>1, <3>2
  <2>4. cnt' \in Int /\ d_cnt' \in Int
    BY <1>1, <1>8 DEF Take, Copy, Uncount, Advance, ring
  <2>5. Positions'
    BY <1>1, <1>2, <1>4, <2>1, <2>2, <2>3, <2>4 DEF RingInv, Positions
  <2>6. EmptyRing'
    BY <1>1, <1>2, <2>2 DEF EmptyRing
  <2>7. QED BY <2>5, <2>6
<1>9. QED BY <1>6, <1>7, <1>8 DEF DemuxerStep

LEMMA RingStep == RingInv /\ [Next]_vars => RingInv'
BY GrowStep, OtherStep DEF Next, Grabber

LEMMA RingAlways == Spec => []RingInv
BY RingInit, RingStep, PTL DEF Spec

(* Growing the ring neither loses a buffer nor leaves it in two entries,   *)
(* whatever the two threads do to video_cnt.                               *)
THEOREM BuffersStayDistinct == Spec => []BuffersDistinct
<1>1. RingInv => BuffersDistinct
  <2> SUFFICES ASSUME RingInv, NEW k \in 0 .. size - 1, NEW l \in 0 .. size - 1
               PROVE  data[k] # NoData /\ (k # l => data[k] # data[l])
    BY DEF BuffersDistinct
  <2>1. /\ size \in Nat /\ size <= MaxSize
    BY MaxIsPositive, RingAssumption DEF RingInv, Positions
  <2>2. k \in Slots /\ l \in Slots /\ k < size /\ l < size
    BY <2>1, RingAssumption DEF Slots
  <2>3. QED BY <2>2 DEF RingInv, Buffers, NoData
<1>2. QED BY <1>1, RingAlways, PTL

-----------------------------------------------------------------------------
(* As long as no update of video_cnt is lost, it says how far the tail is  *)
(* ahead of the head, but for the frame that is written and not counted    *)
(* yet; there is room for the frame being written, and one to be taken.    *)

Occupied == IF gpc \in {"count", "count_up"} THEN cnt + 1 ELSE cnt

CountInv ==
    /\ 0 <= cnt /\ Occupied <= size
    /\ gpc \in {"writing", "tail"} => cnt < size
    /\ Taking => 1 <= cnt
    /\ tail = IF head + Occupied < size THEN head + Occupied
              ELSE head + Occupied - size

LEMMA CountInit == Init => CountInv
BY DEF Init, CountInv, Occupied, Taking

LEMMA CountStep ==
    ASSUME RingInv, CountInv, [Next]_vars, ~lost'
    PROVE  CountInv'
<1>1. /\ size \in Nat
      /\ head \in Nat /\ head <= size /\ (size > 0 => head < size)
      /\ tail \in Nat /\ tail <= size /\ (size > 0 => tail < size)
      /\ cnt \in Int /\ g_cnt \in Int /\ d_cnt \in Int
  BY DEF RingInv, Positions
<1>2. Occupied \in Int
  BY <1>1 DEF Occupied
<1>3. CASE Grow
  <2>1. /\ gpc = "grow" /\ gpc' = "check" /\ UNCHANGED <<dpc, d_cnt, tail, cnt>>
        /\ ~Taking
    BY <1>3 DEF Grow, Locked, Taking, demuxer
  <2>2. Occupied = cnt /\ Occupied' = cnt
    BY <2>1 DEF Occupied
  <2>3. ~Taking'
    BY <2>1 DEF Taking
  <2>4. /\ 0 <= cnt /\ cnt <= size
        /\ tail = IF head + cnt < size THEN head + cnt ELSE head + cnt - size
    BY <2>2 DEF CountInv
  <2>5. /\ cnt <= size'
        /\ tail' = IF head' + cnt < size' THEN head' + cnt
                   ELSE head' + cnt - size'
    <3>1. CASE UNCHANGED <<data, stamp, head, size>>
      BY <1>1, <2>1, <2>4, <3>1
    <3>2. CASE cnt = size /\ head' = NewHead /\ size' = size + 1
      BY <1>1, <2>1, <2>4, <3>2 DEF NewHead
    <3>3. QED BY <1>3, <3>1, <3>2 DEF Grow
  <2>6. QED BY <2>1, <2>2, <2>3, <2>4, <2>5 DEF CountInv
<1>4. CASE \/ Capture \/ Stop \/ Fail \/ Drop \/ Write \/ Written \/ Requeue
  <2>1. UNCHANGED <<size, head, tail, cnt, dpc, d_cnt>>
    BY <1>4 DEF Capture, Stop, Fail, Drop, Write, Written, Requeue, ring, demuxer
  <2>2. /\ gpc \notin {"count", "count_up"} /\ gpc' \notin {"count", "count_up"}
        /\ gpc' \in {"writing", "tail"} => cnt < size
    <3>1. CASE Write
      BY <1>1, <3>1 DEF Write, Full, CountInv, Occupied
    <3>2. CASE Written
      BY <3>2 DEF Written, CountInv
    <3>3. CASE Capture \/ Stop \/ Fail \/ Drop \/ Requeue
      BY <3>3 DEF Capture, Stop, Fail, Drop, Requeue
    <3>4. QED BY <1>4, <3>1, <3>2, <3>3
  <2>3. Occupied' = Occupied
    BY <2>1, <2>2 DEF Occupied
  <2>4. Taking' = Taking
    BY <2>1 DEF Taking
  <2>5. QED BY <2>1, <2>2, <2>3, <2>4 DEF CountInv
<1>5. CASE MoveTail
  <2>1. /\ gpc = "tail" /\ gpc' = "count" /\ tail' = Following(tail)
        /\ UNCHANGED <<size, head, cnt, dpc, d_cnt>>
    BY <1>5 DEF MoveTail, demuxer
  <2>2. cnt < size /\ 0 <= cnt
    BY <2>1 DEF CountInv
  <2>3. tail' = IF tail + 1 = size THEN 0 ELSE tail + 1
    BY <1>1, <2>1, <2>2, FollowingInRing
  <2>4. Occupied = cnt /\ Occupied' = cnt + 1
    BY <2>1 DEF Occupied
  <2>5. tail = IF head + cnt < size THEN head + cnt ELSE head + cnt - size
    BY <2>4 DEF CountInv
  <2>6. tail' = IF head + (cnt + 1) < size THEN head + (cnt + 1)
                ELSE head + (cnt + 1) - size
    BY <1>1, <2>2, <2>3, <2>5
  <2>7. Taking' = Taking
    BY <2>1 DEF Taking
  <2>8. cnt + 1 <= size
    BY <1>1, <2>2
  <2>9. QED BY <2>1, <2>2, <2>4, <2>6, <2>7, <2>8 DEF CountInv
<1>6. CASE LoadCount
  <2>1. /\ gpc = "count" /\ gpc' = "count_up" /\ g_cnt' = cnt
        /\ UNCHANGED <<size, head, tail, cnt, dpc, d_cnt>>
    BY <1>6 DEF LoadCount, ring, demuxer
  <2>2. Occupied' = Occupied /\ Taking' = Taking
    BY <2>1 DEF Occupied, Taking
  <2>3. QED BY <2>1, <2>2 DEF CountInv
<1>7. CASE StoreCount
  <2>1. /\ gpc = "count_up" /\ gpc' = "requeue" /\ cnt' = g_cnt + 1
        /\ UNCHANGED <<size, head, tail, dpc, d_cnt>>
    BY <1>7 DEF StoreCount, demuxer
  <2>2. g_cnt = cnt
    BY <1>7 DEF StoreCount
  <2>3. Occupied' = Occupied
    BY <1>1, <2>1, <2>2 DEF Occupied
  <2>4. Taking' = Taking
    BY <2>1 DEF Taking
  <2>5. 0 <= cnt' /\ (Taking => 1 <= cnt')
    BY <1>1, <2>1, <2>2 DEF CountInv
  <2>6. QED BY <2>1, <2>2, <2>3, <2>4, <2>5 DEF CountInv
<1>8. CASE NoFrame \/ Take \/ Copy \/ Uncount \/ Joined \/ Grab \/ Uninit
  <2>1. UNCHANGED <<size, head, tail, cnt, g_cnt>>
    BY <1>8 DEF NoFrame, Take, Copy, Uncount, Joined, Grab, Uninit, ring, grabber
  <2>2. gpc' = gpc \/ (gpc = "off" /\ gpc' = "wait")
    BY <1>8 DEF NoFrame, Take, Copy, Uncount, Joined, Grab, Uninit, grabber
  <2>3. Occupied' = Occupied
    BY <2>1, <2>2 DEF Occupied
  <2>4. Taking' => 1 <= cnt
    <3>1. CASE Take
      BY <1>1, <3>1 DEF Take, CountInv
    <3>2. CASE Copy \/ Uncount
      BY <3>2 DEF Copy, Uncount, CountInv, Taking
    <3>3. CASE NoFrame \/ Joined \/ Grab \/ Uninit
      BY <3>3 DEF NoFrame, Joined, Grab, Uninit, Taking
    <3>4. QED BY <1>8, <3>1, <3>2, <3>3
  <2>5. QED BY <2>1, <2>2, <2>3, <2>4 DEF CountInv
<1>9. CASE Advance
  <2>1. /\ dpc = "advance" /\ dpc' = "idle" /\ cnt' = d_cnt - 1
        /\ head' = Following(head) /\ UNCHANGED <<size, tail, gpc, g_cnt>>
    BY <1>9 DEF Advance, grabber
  <2>2. 1 <= cnt /\ d_cnt = cnt
    BY <1>9, <2>1 DEF Advance, CountInv, Taking
  <2>3. cnt <= Occupied /\ Occupied <= size /\ Occupied' = Occupied - 1
    BY <1>1, <2>1, <2>2 DEF CountInv, Occupied
  <2>4. head' = IF head + 1 = size THEN 0 ELSE head + 1
    BY <1>1, <1>2, <2>1, <2>2, <2>3, FollowingInRing
  <2>5. tail = IF head + Occupied < size THEN head + Occupied
               ELSE head + Occupied - size
    BY DEF CountInv
  <2> HIDE DEF Occupied
  <2>6. tail' = IF head' + Occupied' < size' THEN head' + Occupied'
                ELSE head' + Occupied' - size'
    BY <1>1, <1>2, <2>1, <2>2, <2>3, <2>4, <2>5
  <2>7. 0 <= cnt' /\ Occupied' <= size' /\ cnt' < cnt
    BY <1>1, <1>2, <2>1, <2>2, <2>3
  <2>8. gpc \in {"writing", "tail"} => cnt' < size'
    BY <1>1, <1>2, <2>1, <2>3, <2>7
  <2>9. ~Taking'
    BY <2>1 DEF Taking
  <2>10. QED BY <2>1, <2>2, <2>6, <2>7, <2>8, <2>9 DEF CountInv
<1>10. CASE UNCHANGED vars
  <2>1. UNCHANGED <<size, head, tail, cnt, g_cnt, gpc, dpc, d_cnt>>
    BY <1>10 DEF vars, ring, grabber, demuxer
  <2>2. Occupied' = Occupied /\ Taking' = Taking
    BY <2>1 DEF Occupied, Taking
  <2>3. QED BY <2>1, <2>2 DEF CountInv
<1>11. QED
  BY <1>3, <1>4, <1>5, <1>6, <1>7, <1>8, <1>9, <1>10
     DEF Next, Grabber, DemuxerStep

LEMMA LostForGood == [Next]_vars /\ ~lost' => ~lost
BY DEF Next, Grabber, DemuxerStep, Capture, Stop, Fail, Grow, Drop, Write,
       Written, MoveTail, LoadCount, StoreCount, Requeue, NoFrame, Take, Copy,
       Uncount, Advance, Joined, Grab, Uninit, vars, flags

(* The count stays right until one thread's store undoes the other's; it   *)
(* is not assumed that none ever does.                                     *)
LEMMA CountUntilLost == Spec => [](~lost => CountInv)
<1>1. RingInv /\ (~lost => CountInv) /\ [Next]_vars => (~lost => CountInv)'
  BY CountStep, LostForGood
<1>2. Init => (~lost => CountInv)
  BY CountInit
<1>3. QED BY <1>1, <1>2, RingAlways, PTL DEF Spec

(* The grabber writes outside of the lock under which the demuxer copies,  *)
(* and still not the frame that is being copied, in every behaviour up to  *)
(* the store that loses an update of video_cnt: the ++ of tvi_v4l2.c line  *)
(* 1757 or the -- of line 1787.                                            *)
THEOREM NoFrameTorn == Spec => []NoTornFrame
<1>1. RingInv /\ (~lost => CountInv) => NoTornFrame
  <2> SUFFICES ASSUME RingInv, CountInv, gpc = "writing", dpc = "copy"
               PROVE  data[tail] # data[head]
    BY DEF NoTornFrame
  <2>1. /\ size \in Nat /\ size <= MaxSize
        /\ head \in Nat /\ (size > 0 => head < size)
        /\ tail \in Nat /\ (size > 0 => tail < size) /\ cnt \in Int
    BY MaxIsPositive, RingAssumption DEF RingInv, Positions
  <2>2. /\ 1 <= cnt /\ cnt < size /\ Occupied = cnt
        /\ tail = IF head + cnt < size THEN head + cnt ELSE head + cnt - size
    BY DEF CountInv, Occupied, Taking
  <2>3. tail # head /\ tail < size /\ head < size
    BY <2>1, <2>2
  <2>4. tail \in Slots /\ head \in Slots
    BY <2>1, <2>3, RingAssumption DEF Slots
  <2>5. QED BY <2>3, <2>4 DEF RingInv, Buffers
<1>2. QED BY <1>1, CountUntilLost, RingAlways, PTL

-----------------------------------------------------------------------------
(* What is in the ring: the frames from the head on, in order and whole,   *)
(* all of them later than the last one taken, and with none missing but    *)
(* those that were dropped.                                                *)

Pos(i)     == IF head + i < size THEN head + i ELSE head + i - size
Shown(i)   == stamp[Pos(i)]
Picture(i) == memory[data[Pos(i)]]

\* The frame at hand is captured and not in the ring yet.
AtHand == gpc \in {"grow", "check", "writing", "tail"}

\* The head has been copied and is still in the ring.
HeadTaken == dpc \in {"uncount", "advance"}

LastOut == IF out = <<>> THEN 0 ELSE out[Len(out)].stamp

FrameTypes ==
    /\ stamp \in [Slots -> Nat] /\ memory \in [1 .. MaxSize -> Int]
    /\ frame \in Nat /\ out \in Seq([stamp : Nat, picture : Int])

QueueWhole == \A i \in 0 .. Occupied - 1 : Picture(i) = Shown(i)

QueueOrdered ==
    /\ \A i, j \in 0 .. Occupied - 1 : i < j => Shown(i) < Shown(j)
    /\ \A i \in 0 .. Occupied - 1 : Shown(i) <= frame
    /\ AtHand => \A i \in 0 .. Occupied - 1 : Shown(i) < frame
    /\ LastOut <= frame /\ (AtHand => LastOut < frame)
    /\ Occupied > 0 => IF HeadTaken THEN Shown(0) = LastOut
                                    ELSE LastOut < Shown(0)

NoneMissing ==
    \A f \in 1 .. frame :
        \/ f \in dropped \/ f <= LastOut \/ (AtHand /\ f = frame)
        \/ \E i \in 0 .. Occupied - 1 : Shown(i) = f

HandOK ==
    /\ gpc \in {"writing", "tail"} => stamp[tail] = frame
    /\ gpc = "tail" => memory[data[tail]] = frame

FramesInv ==
    /\ FrameTypes /\ QueueWhole /\ QueueOrdered /\ NoneMissing /\ HandOK
    /\ InOrder

LEMMA RingFacts ==
    ASSUME RingInv, CountInv
    PROVE  /\ MaxSize \in Nat /\ size \in Nat /\ size <= MaxSize
           /\ head \in Nat /\ head <= size /\ (size > 0 => head < size)
           /\ tail \in Nat /\ tail <= size /\ (size > 0 => tail < size)
           /\ cnt \in Nat /\ Occupied \in Nat /\ Occupied <= size
           /\ tail = IF head + Occupied < size THEN head + Occupied
                     ELSE head + Occupied - size
<1>1. BufferMax \in Nat /\ BufferMax <= MaxSize /\ MaxSize \in Nat
  BY MaxIsPositive, RingAssumption DEF RingInv, Positions
<1>2. cnt \in Nat /\ Occupied \in Nat
  BY DEF RingInv, Positions, CountInv, Occupied
<1>3. QED BY <1>1, <1>2 DEF RingInv, Positions, CountInv

(* Where the frames are: in entries that have buffers of their own, none   *)
(* of which is the tail's unless the ring is full.                         *)
LEMMA PosInRing ==
    ASSUME RingInv, CountInv, NEW i \in 0 .. Occupied - 1
    PROVE  /\ Pos(i) \in Slots /\ Pos(i) < size
           /\ data[Pos(i)] \in 1 .. MaxSize
<1>1. Pos(i) \in Slots /\ Pos(i) < size
  BY RingFacts DEF Pos, Slots
<1>2. data[Pos(i)] \in Nat /\ 1 <= data[Pos(i)] /\ data[Pos(i)] <= size
  BY <1>1 DEF RingInv, Buffers
<1>3. QED BY <1>1, <1>2, RingFacts

LEMMA TailIsFree ==
    ASSUME RingInv, CountInv, Occupied < size
    PROVE  /\ tail \in Slots /\ tail < size /\ data[tail] \in 1 .. MaxSize
           /\ \A i \in 0 .. Occupied - 1 :
                 Pos(i) # tail /\ data[Pos(i)] # data[tail]
<1>1. tail \in Slots /\ tail < size
  BY RingFacts DEF Slots
<1>2. data[tail] \in Nat /\ 1 <= data[tail] /\ data[tail] <= size
  BY <1>1 DEF RingInv, Buffers
<1>3. ASSUME NEW i \in 0 .. Occupied - 1
      PROVE  Pos(i) # tail /\ data[Pos(i)] # data[tail]
  <2>1. Pos(i) # tail
    BY RingFacts DEF Pos
  <2>2. Pos(i) \in Slots /\ Pos(i) < size
    BY PosInRing
  <2>3. QED BY <1>1, <2>1, <2>2 DEF RingInv, Buffers
<1>4. QED BY <1>1, <1>2, <1>3, RingFacts

LEMMA FramesInit == Init => FramesInv
<1> SUFFICES ASSUME Init PROVE FramesInv
  OBVIOUS
<1>1. Occupied = 0 /\ out = <<>> /\ frame = 0
  BY DEF Init, Occupied
<1>2. FrameTypes
  BY RingAssumption DEF Init, FrameTypes
<1>3. QueueWhole /\ NoneMissing /\ HandOK /\ InOrder
  BY <1>1 DEF Init, QueueWhole, NoneMissing, HandOK, InOrder
<1>4. QueueOrdered
  BY <1>1 DEF Init, QueueOrdered, AtHand, LastOut
<1>5. QED BY <1>2, <1>3, <1>4 DEF FramesInv

(* Steps that leave what is in the ring, at hand and taken as it was.      *)
LEMMA ViewKept ==
    ASSUME FramesInv, Occupied \in Nat, Occupied' = Occupied,
           \A i \in 0 .. Occupied - 1 :
               Shown(i)' = Shown(i) /\ Picture(i)' = Picture(i),
           UNCHANGED <<out, frame, dropped>>,
           AtHand' = AtHand, HeadTaken' = HeadTaken, FrameTypes', HandOK'
    PROVE  FramesInv'
<1>1. LastOut' = LastOut
  BY DEF LastOut
<1>2. QueueWhole'
  BY DEF FramesInv, QueueWhole
<1>3. QueueOrdered'
  BY <1>1 DEF FramesInv, QueueOrdered
<1>4. NoneMissing'
  BY <1>1 DEF FramesInv, NoneMissing
<1>5. InOrder'
  BY DEF FramesInv, InOrder
<1>6. QED BY <1>2, <1>3, <1>4, <1>5 DEF FramesInv

(* The ring grows when it is full.  The new buffer comes between the last  *)
(* frame and the first, and moves the first one up if it is there: each    *)
(* frame keeps its place in the order.                                     *)
LEMMA GrowFrames ==
    ASSUME RingInv, CountInv, FramesInv, Grow
    PROVE  FramesInv'
<1>1. /\ gpc = "grow" /\ gpc' = "check" /\ dpc' = dpc
      /\ UNCHANGED <<memory, tail, cnt, out, frame, dropped>>
  BY DEF Grow, demuxer
<1>2. Occupied = cnt /\ Occupied' = Occupied /\ AtHand' = AtHand /\ HeadTaken' = HeadTaken
  BY <1>1 DEF Occupied, AtHand, HeadTaken
<1>3. HandOK'
  BY <1>1 DEF HandOK
<1>4. Occupied \in Nat /\ FrameTypes
  BY RingFacts DEF FramesInv
<1>5. CASE UNCHANGED <<data, stamp, head, size>>
  <2>1. FrameTypes'
    BY <1>1, <1>4, <1>5 DEF FrameTypes
  <2>2. \A i \in 0 .. Occupied - 1 : Shown(i)' = Shown(i) /\ Picture(i)' = Picture(i)
    BY <1>1, <1>5 DEF Shown, Picture, Pos
  <2>3. QED BY <1>1, <1>2, <1>3, <1>4, <2>1, <2>2, ViewKept
<1>6. CASE /\ size < BufferMax /\ cnt = size
           /\ data' = [Moved(data) EXCEPT ![tail] = size + 1]
           /\ stamp' = NewStamp /\ head' = NewHead /\ size' = size + 1
  <2>1. /\ MaxSize \in Nat /\ size \in Nat /\ size < MaxSize
        /\ head \in Nat /\ head <= size /\ (size > 0 => head < size)
        /\ tail = head /\ Occupied = size
    BY <1>2, <1>6, RingFacts, MaxIsPositive DEF RingInv, Positions
  <2>2. FrameTypes'
    <3>1. \A k \in Slots : k \in tail + 1 .. size => k - 1 \in Slots
      BY <2>1 DEF Slots
    <3>2. stamp' \in [Slots -> Nat]
      BY <1>4, <1>6, <3>1 DEF NewStamp, Moved, MovedTo, FrameTypes
    <3>3. QED BY <1>1, <1>4, <3>2 DEF FrameTypes
  <2>3. ASSUME NEW i \in 0 .. Occupied - 1
        PROVE  Shown(i)' = Shown(i) /\ Picture(i)' = Picture(i)
    <3>1. size > 0 /\ head < size /\ head' = head + 1 /\ i \in Nat /\ i < size
      BY <1>2, <1>6, <2>1 DEF NewHead
    <3> DEFINE p == Pos(i)
    <3> DEFINE q == IF head' + i < size' THEN head' + i ELSE head' + i - size'
    <3>2. /\ p \in Slots /\ q \in Slots /\ q # tail
          /\ q \in tail + 1 .. size => q - 1 = p
          /\ q \notin tail + 1 .. size => q = p
      BY <1>6, <2>1, <3>1 DEF Pos, Slots
    <3> HIDE DEF p, q
    <3>3. stamp'[q] = stamp[p]
      BY <1>6, <3>2 DEF NewStamp, Moved, MovedTo
    <3>4. data'[q] = data[p]
      BY <1>6, <3>2 DEF Moved, MovedTo
    <3>5. Pos(i)' = q
      BY DEF Pos, q
    <3>6. QED BY <1>1, <3>3, <3>4, <3>5 DEF Shown, Picture, p
  <2>4. QED BY <1>1, <1>2, <1>3, <1>4, <2>2, <2>3, ViewKept
<1>7. QED BY <1>5, <1>6 DEF Grow

(* Writing touches the tail's entry and buffer only.                       *)
LEMMA WriteFrames ==
    ASSUME RingInv, CountInv, FramesInv, Write \/ Written
    PROVE  FramesInv'
<1>1. /\ UNCHANGED <<data, size, head, tail, cnt, dpc, out, frame, dropped>>
      /\ gpc \in {"check", "writing"} /\ gpc' \in {"writing", "tail"}
  BY DEF Write, Written, demuxer
<1>2. Occupied = cnt /\ Occupied' = Occupied /\ AtHand' = AtHand /\ HeadTaken' = HeadTaken
  BY <1>1 DEF Occupied, AtHand, HeadTaken
<1>3. Occupied < size
  <2>1. CASE Write
    BY <1>2, <2>1, RingFacts DEF Write, Full
  <2>2. CASE Written
    BY <1>2, <2>2 DEF Written, CountInv
  <2>3. QED BY <2>1, <2>2
<1>4. /\ tail \in Slots /\ data[tail] \in 1 .. MaxSize
      /\ \A i \in 0 .. Occupied - 1 :
            Pos(i) # tail /\ data[Pos(i)] # data[tail]
  BY <1>3, TailIsFree
<1>5. Occupied \in Nat /\ FrameTypes
  BY RingFacts DEF FramesInv
<1>6. /\ stamp' = IF gpc = "check" THEN [stamp EXCEPT ![tail] = frame] ELSE stamp
      /\ \E v \in Int : memory' = [memory EXCEPT ![data[tail]] = v]
  <2>1. CASE Write
    <3>1. /\ gpc = "check" /\ stamp' = [stamp EXCEPT ![tail] = frame]
          /\ memory' = [memory EXCEPT ![data[tail]] = -1]
      BY <2>1 DEF Write, Torn
    <3>2. -1 \in Int
      OBVIOUS
    <3>3. QED BY <3>1, <3>2
  <2>2. CASE Written
    <3>1. /\ gpc = "writing" /\ stamp' = stamp
          /\ memory' = [memory EXCEPT ![data[tail]] = frame]
      BY <2>2 DEF Written
    <3>2. frame \in Int
      BY <1>5 DEF FrameTypes
    <3>3. QED BY <3>1, <3>2
  <2>3. QED BY <2>1, <2>2
<1>7. FrameTypes'
  BY <1>1, <1>4, <1>5, <1>6 DEF FrameTypes
<1>8. ASSUME NEW i \in 0 .. Occupied - 1
      PROVE  Shown(i)' = Shown(i) /\ Picture(i)' = Picture(i)
  <2>1. Pos(i)' = Pos(i)
    BY <1>1 DEF Pos
  <2>2. Pos(i) \in Slots /\ data[Pos(i)] \in 1 .. MaxSize
    BY PosInRing
  <2>3. stamp'[Pos(i)] = stamp[Pos(i)]
    BY <1>4, <1>5, <1>6, <2>2 DEF FrameTypes
  <2>4. memory'[data[Pos(i)]] = memory[data[Pos(i)]]
    BY <1>4, <1>5, <1>6, <2>2 DEF FrameTypes
  <2>5. QED BY <1>1, <2>1, <2>3, <2>4 DEF Shown, Picture
<1>9. HandOK'
  <2>1. CASE Write
    <3>1. stamp' = [stamp EXCEPT ![tail] = frame] /\ gpc' = "writing"
      BY <2>1 DEF Write
    <3>2. QED BY <1>1, <1>4, <1>5, <3>1 DEF HandOK, FrameTypes
  <2>2. CASE Written
    <3>1. /\ gpc = "writing" /\ gpc' = "tail" /\ stamp' = stamp
          /\ memory' = [memory EXCEPT ![data[tail]] = frame]
      BY <2>2 DEF Written
    <3>2. QED BY <1>1, <1>4, <1>5, <3>1 DEF FramesInv, HandOK, FrameTypes
  <2>3. QED BY <2>1, <2>2
<1>10. QED BY <1>1, <1>2, <1>5, <1>7, <1>8, <1>9, ViewKept

(* The other steps that leave the view as it was.                          *)
LEMMA QuietFrames ==
    ASSUME RingInv, CountInv, FramesInv,
           \/ Stop \/ Fail \/ LoadCount \/ StoreCount \/ Requeue
           \/ NoFrame \/ Take \/ Uncount \/ Joined \/ Grab \/ Uninit
           \/ UNCHANGED vars,
           ~lost'
    PROVE  FramesInv'
<1>1. UNCHANGED <<data, stamp, memory, size, head, tail, out, frame, dropped>>
  BY DEF Stop, Fail, LoadCount, StoreCount, Requeue, NoFrame, Take, Uncount,
         Joined, Grab, Uninit, vars, ring, entries, flags, grabber, demuxer
<1>2. Occupied' = Occupied
  <2>1. CASE StoreCount
    BY <2>1 DEF StoreCount, CountInv, Occupied
  <2>2. CASE LoadCount
    BY <2>2 DEF LoadCount, ring, Occupied
  <2>3. CASE \/ Stop \/ Fail \/ Requeue \/ NoFrame \/ Take \/ Uncount
             \/ Joined \/ Grab \/ Uninit \/ UNCHANGED vars
    <3>1. /\ cnt' = cnt
          /\ gpc \in {"count", "count_up"} \/ gpc' \in {"count", "count_up"}
                => gpc' = gpc
      BY <2>3 DEF Stop, Fail, Requeue, NoFrame, Take, Uncount, Joined, Grab,
                  Uninit, vars, ring, flags, grabber, demuxer
    <3>2. QED BY <3>1 DEF Occupied
  <2>4. QED BY <2>1, <2>2, <2>3
<1>3. AtHand' = AtHand
  BY DEF Stop, Fail, LoadCount, StoreCount, Requeue, NoFrame, Take, Uncount,
         Joined, Grab, Uninit, vars, grabber, AtHand
<1>4. HeadTaken' = HeadTaken
  BY DEF Stop, Fail, LoadCount, StoreCount, Requeue, NoFrame, Take, Uncount,
         Joined, Grab, Uninit, vars, demuxer, HeadTaken
<1>5. HandOK'
  <2>1. gpc' \in {"writing", "tail"} => gpc' = gpc
    BY DEF Stop, Fail, LoadCount, StoreCount, Requeue, NoFrame, Take, Uncount,
           Joined, Grab, Uninit, vars, grabber
  <2>2. QED BY <1>1, <2>1 DEF FramesInv, HandOK
<1>6. FrameTypes'
  BY <1>1 DEF FramesInv, FrameTypes
<1>7. \A i \in 0 .. Occupied - 1 : Shown(i)' = Shown(i) /\ Picture(i)' = Picture(i)
  BY <1>1 DEF Shown, Picture, Pos
<1>8. Occupied \in Nat
  BY RingFacts
<1>9. QED BY <1>1, <1>2, <1>3, <1>4, <1>5, <1>6, <1>7, <1>8, ViewKept

(* What is shown is a frame's number.                                      *)
LEMMA ShownIsFrame ==
    ASSUME RingInv, CountInv, FramesInv
    PROVE  /\ \A i \in 0 .. Occupied - 1 : Shown(i) \in Nat
           /\ LastOut \in Nat /\ frame \in Nat /\ Occupied \in Nat
<1>1. \A i \in 0 .. Occupied - 1 : Shown(i) \in Nat
  BY PosInRing DEF FramesInv, FrameTypes, Shown
<1>2. LastOut \in Nat
  <2>1. CASE out = <<>>
    BY <2>1 DEF LastOut
  <2>2. CASE out # <<>>
    <3>1. out \in Seq([stamp : Nat, picture : Int])
      BY DEF FramesInv, FrameTypes
    <3>2. Len(out) \in 1 .. Len(out)
      BY <2>2, <3>1
    <3>3. out[Len(out)] \in [stamp : Nat, picture : Int]
      BY <3>1, <3>2, ElementOfSeq
    <3>4. QED BY <2>2, <3>3 DEF LastOut
  <2>3. QED BY <2>1, <2>2
<1>3. QED BY <1>1, <1>2, RingFacts DEF FramesInv, FrameTypes

(* A new frame is at hand, later than all of them ...                      *)
LEMMA CaptureFrames ==
    ASSUME RingInv, CountInv, FramesInv, Capture
    PROVE  FramesInv'
<1>1. /\ gpc = "wait" /\ gpc' = "grow" /\ frame' = frame + 1
      /\ UNCHANGED <<data, stamp, memory, size, head, tail, cnt, out, dropped, dpc>>
  BY DEF Capture, ring, entries, demuxer
<1>2. /\ ~AtHand /\ AtHand' /\ HeadTaken' = HeadTaken /\ LastOut' = LastOut
      /\ Occupied' = Occupied
  BY <1>1 DEF AtHand, HeadTaken, LastOut, Occupied
<1>3. \A i : Shown(i)' = Shown(i) /\ Picture(i)' = Picture(i)
  BY <1>1 DEF Shown, Picture, Pos
<1>4. FrameTypes'
  BY <1>1 DEF FramesInv, FrameTypes
<1>5. QueueWhole'
  BY <1>2, <1>3 DEF FramesInv, QueueWhole
<1>6. QueueOrdered'
  BY <1>1, <1>2, <1>3, ShownIsFrame DEF FramesInv, QueueOrdered
<1>7. NoneMissing'
  BY <1>1, <1>2, <1>3, ShownIsFrame DEF FramesInv, NoneMissing
<1>8. HandOK' /\ InOrder'
  BY <1>1 DEF FramesInv, HandOK, InOrder
<1>9. QED BY <1>4, <1>5, <1>6, <1>7, <1>8 DEF FramesInv

(* ... and dropped, ...                                                    *)
LEMMA DropFrames ==
    ASSUME RingInv, CountInv, FramesInv, Drop
    PROVE  FramesInv'
<1>1. /\ gpc = "check" /\ gpc' = "requeue" /\ dropped' = dropped \cup {frame}
      /\ UNCHANGED <<data, stamp, memory, size, head, tail, cnt, out, frame, dpc>>
  BY DEF Drop, ring, entries, demuxer
<1>2. /\ AtHand /\ ~AtHand' /\ HeadTaken' = HeadTaken /\ LastOut' = LastOut
      /\ Occupied' = Occupied
  BY <1>1 DEF AtHand, HeadTaken, LastOut, Occupied
<1>3. \A i : Shown(i)' = Shown(i) /\ Picture(i)' = Picture(i)
  BY <1>1 DEF Shown, Picture, Pos
<1>4. FrameTypes'
  BY <1>1 DEF FramesInv, FrameTypes
<1>5. QueueWhole'
  BY <1>2, <1>3 DEF FramesInv, QueueWhole
<1>6. QueueOrdered'
  BY <1>1, <1>2, <1>3 DEF FramesInv, QueueOrdered
<1>7. NoneMissing'
  BY <1>1, <1>2, <1>3 DEF FramesInv, NoneMissing
<1>8. HandOK'
  BY <1>1 DEF HandOK
<1>9. InOrder'
  BY <1>1 DEF FramesInv, InOrder
<1>10. QED BY <1>4, <1>5, <1>6, <1>7, <1>8, <1>9 DEF FramesInv

(* ... or, once it is written, the last one in the ring.                   *)
LEMMA MoveTailFrames ==
    ASSUME RingInv, CountInv, FramesInv, MoveTail
    PROVE  FramesInv'
<1>1. /\ gpc = "tail" /\ gpc' = "count"
      /\ UNCHANGED <<data, stamp, memory, size, head, cnt, out, frame, dropped, dpc>>
  BY DEF MoveTail, entries, demuxer
<1>2. /\ AtHand /\ ~AtHand' /\ HeadTaken' = HeadTaken /\ LastOut' = LastOut
      /\ Occupied = cnt /\ Occupied' = Occupied + 1
  BY <1>1 DEF AtHand, HeadTaken, LastOut, Occupied
<1>3. \A i : Shown(i)' = Shown(i) /\ Picture(i)' = Picture(i)
  BY <1>1 DEF Shown, Picture, Pos
<1>4. Shown(Occupied) = frame /\ Picture(Occupied) = frame
  <2>1. Pos(Occupied) = tail
    BY RingFacts DEF Pos
  <2>2. QED BY <1>1, <2>1 DEF FramesInv, HandOK, Shown, Picture
<1>5. FrameTypes'
  BY <1>1 DEF FramesInv, FrameTypes
<1>6. QueueWhole'
  BY <1>2, <1>3, <1>4, ShownIsFrame DEF FramesInv, QueueWhole
<1>7. QueueOrdered'
  <2>1. \A i \in 0 .. Occupied - 1 : Shown(i) < frame
    BY <1>2 DEF FramesInv, QueueOrdered
  <2>2. \A i, j \in 0 .. Occupied : i < j => Shown(i) < Shown(j)
    BY <1>4, <2>1, ShownIsFrame DEF FramesInv, QueueOrdered
  <2>3. \A i \in 0 .. Occupied : Shown(i) <= frame
    BY <1>4, <2>1, ShownIsFrame
  <2>4. LastOut < frame
    BY <1>2 DEF FramesInv, QueueOrdered
  <2>5. IF HeadTaken THEN Shown(0) = LastOut ELSE LastOut < Shown(0)
    <3>1. CASE Occupied > 0
      BY <3>1 DEF FramesInv, QueueOrdered
    <3>2. CASE Occupied = 0
      <4>1. ~HeadTaken
        BY <1>2, <3>2 DEF HeadTaken, CountInv, Taking
      <4>2. QED BY <1>4, <2>4, <3>2, <4>1
    <3>3. QED BY <3>1, <3>2, ShownIsFrame
  <2>6. LastOut \in Nat /\ frame \in Nat /\ Occupied \in Nat
    BY ShownIsFrame
  <2>7. 0 .. Occupied' - 1 = 0 .. Occupied
    BY <1>2, <2>6
  <2>8. LastOut' <= frame'
    BY <1>1, <1>2, <2>4, <2>6
  <2>9. QED BY <1>1, <1>2, <1>3, <2>2, <2>3, <2>5, <2>7, <2>8 DEF QueueOrdered
<1>8. NoneMissing'
  <2>1. Occupied \in Nat
    BY ShownIsFrame
  <2>2. QED BY <1>1, <1>2, <1>3, <1>4, <2>1 DEF FramesInv, NoneMissing
<1>9. HandOK' /\ InOrder'
  BY <1>1 DEF FramesInv, HandOK, InOrder
<1>10. QED BY <1>5, <1>6, <1>7, <1>8, <1>9 DEF FramesInv

(* The first frame in the ring is the next one after the last one taken.   *)
LEMMA CopyFrames ==
    ASSUME RingInv, CountInv, FramesInv, Copy
    PROVE  FramesInv'
<1> DEFINE r == [stamp |-> stamp[head], picture |-> memory[data[head]]]
<1>1. /\ dpc = "copy" /\ dpc' = "uncount" /\ out' = Append(out, r)
      /\ UNCHANGED <<data, stamp, memory, size, head, tail, cnt, frame, dropped, gpc>>
  BY DEF Copy, ring, entries, grabber
<1>2. Occupied' = Occupied /\ Occupied > 0 /\ Occupied \in Nat
  BY <1>1, RingFacts DEF Occupied, CountInv, Taking
<1>3. \A i : Shown(i)' = Shown(i) /\ Picture(i)' = Picture(i)
  BY <1>1 DEF Shown, Picture, Pos
<1>4. r.stamp = Shown(0) /\ r.picture = Picture(0)
  <2>1. Pos(0) = head
    BY <1>2, RingFacts DEF Pos
  <2>2. QED BY <2>1 DEF Shown, Picture
<1>5. r \in [stamp : Nat, picture : Int] /\ r.picture = r.stamp
  <2>1. Picture(0) = Shown(0) /\ Shown(0) \in Nat
    BY <1>2, ShownIsFrame DEF FramesInv, QueueWhole
  <2>2. QED BY <1>4, <2>1
<1>6. ~HeadTaken /\ HeadTaken' /\ AtHand' = AtHand
  BY <1>1 DEF HeadTaken, AtHand
<1>7. LastOut < Shown(0) /\ LastOut \in Nat /\ Shown(0) \in Nat
  BY <1>2, <1>6, ShownIsFrame DEF FramesInv, QueueOrdered
<1>8. out \in Seq([stamp : Nat, picture : Int])
  BY DEF FramesInv, FrameTypes
<1> HIDE DEF r
<1>9. LastOut' = Shown(0)
  BY <1>1, <1>4, <1>5, <1>8 DEF LastOut
<1>10. FrameTypes'
  BY <1>1, <1>5, <1>8 DEF FramesInv, FrameTypes
<1>11. QueueWhole' /\ HandOK'
  BY <1>1, <1>2, <1>3 DEF FramesInv, QueueWhole, HandOK
<1>12. QueueOrdered'
  BY <1>1, <1>2, <1>3, <1>6, <1>9 DEF FramesInv, QueueOrdered
<1>13. NoneMissing'
  BY <1>1, <1>2, <1>3, <1>6, <1>7, <1>9, ShownIsFrame DEF FramesInv, NoneMissing
<1>14. LastOut + 1 .. Shown(0) - 1 \subseteq dropped
  <2> SUFFICES ASSUME NEW f \in LastOut + 1 .. Shown(0) - 1 PROVE f \in dropped
    OBVIOUS
  <2>1. Shown(0) <= frame /\ frame \in Nat
    BY <1>2, ShownIsFrame DEF FramesInv, QueueOrdered
  <2>2. f \in 1 .. frame /\ ~ (f <= LastOut) /\ f # frame
    BY <1>7, <2>1
  <2>3. \A i \in 0 .. Occupied - 1 : Shown(i) # f
    BY <1>2, <1>7, ShownIsFrame DEF FramesInv, QueueOrdered
  <2>4. QED BY <2>2, <2>3 DEF FramesInv, NoneMissing
<1>15. InOrder'
  <2> DEFINE n == Len(out)
  <2>1. n \in Nat /\ Len(out') = n + 1 /\ out'[n + 1] = r
        /\ \A i \in 1 .. n : out'[i] = out[i]
    BY <1>1, <1>5, <1>8
  <2> DEFINE Before(o, i) == IF i = 0 THEN 0 ELSE o[i].stamp
  <2>2. Before(out', n) = LastOut
    BY <1>8, <2>1 DEF LastOut
  <2>3. ASSUME NEW i \in 1 .. n + 1
        PROVE  /\ out'[i].picture = out'[i].stamp
               /\ Before(out', i - 1) < Before(out', i)
               /\ Before(out', i - 1) + 1 .. Before(out', i) - 1 \subseteq dropped
    <3>1. CASE i = n + 1
      <4>1. i - 1 = n /\ out'[i] = r /\ i # 0
        BY <2>1, <3>1
      <4>2. Before(out', i) = Shown(0)
        BY <1>4, <4>1
      <4>3. QED BY <1>5, <1>7, <1>14, <2>2, <4>1, <4>2
    <3>2. CASE i \in 1 .. n
      <4>1. out'[i] = out[i] /\ Before(out', i) = Before(out, i)
            /\ Before(out', i - 1) = Before(out, i - 1)
        BY <2>1, <3>2
      <4>2. /\ out[i].picture = out[i].stamp
            /\ Before(out, i - 1) < Before(out, i)
            /\ Before(out, i - 1) + 1 .. Before(out, i) - 1 \subseteq dropped
        BY <2>1, <3>2 DEF FramesInv, InOrder
      <4>3. QED BY <4>1, <4>2
    <3>3. QED BY <2>1, <3>1, <3>2
  <2>4. QED BY <1>1, <2>1, <2>3 DEF InOrder
<1>16. QED BY <1>10, <1>11, <1>12, <1>13, <1>15 DEF FramesInv

(* Moving the head leaves the frames behind it where they are.             *)
LEMMA AdvanceFrames ==
    ASSUME RingInv, CountInv, FramesInv, Advance, ~lost'
    PROVE  FramesInv'
<1>1. /\ dpc = "advance" /\ dpc' = "idle" /\ cnt' = d_cnt - 1
      /\ head' = Following(head)
      /\ UNCHANGED <<data, stamp, memory, size, tail, frame, dropped, out, gpc>>
  BY DEF Advance, entries, grabber
<1>2. Occupied' = Occupied - 1 /\ Occupied \in Nat /\ Occupied > 0
  <2>1. d_cnt = cnt
    BY DEF Advance
  <2>2. QED BY <1>1, <2>1, RingFacts DEF Occupied, CountInv, Taking
<1>3. head' = IF head + 1 = size THEN 0 ELSE head + 1
  BY <1>1, <1>2, RingFacts, FollowingInRing
<1>4. HeadTaken /\ ~HeadTaken' /\ AtHand' = AtHand /\ LastOut' = LastOut
  BY <1>1 DEF HeadTaken, AtHand, LastOut
<1>5. ASSUME NEW i \in 0 .. Occupied' - 1
      PROVE  Shown(i)' = Shown(i + 1) /\ Picture(i)' = Picture(i + 1)
  <2>1. Pos(i)' = Pos(i + 1)
    BY <1>1, <1>2, <1>3, RingFacts DEF Pos
  <2>2. QED BY <1>1, <2>1 DEF Shown, Picture
<1>6. Shown(0) = LastOut
  BY <1>2, <1>4 DEF FramesInv, QueueOrdered
<1>7. FrameTypes' /\ InOrder' /\ HandOK'
  BY <1>1 DEF FramesInv, FrameTypes, InOrder, HandOK
<1>8. \A i \in 0 .. Occupied' - 1 : i + 1 \in 0 .. Occupied - 1
  BY <1>2
<1>9. QueueWhole'
  BY <1>5, <1>8 DEF FramesInv, QueueWhole
<1>10. QueueOrdered'
  <2>1. \A i, j \in 0 .. Occupied' - 1 : i < j => i + 1 < j + 1
    BY <1>2
  <2>2. \A i, j \in 0 .. Occupied' - 1 : i < j => Shown(i)' < Shown(j)'
    BY <1>5, <1>8, <2>1 DEF FramesInv, QueueOrdered
  <2>3. \A i \in 0 .. Occupied' - 1 :
            Shown(i)' <= frame /\ (AtHand => Shown(i)' < frame)
    BY <1>5, <1>8 DEF FramesInv, QueueOrdered
  <2>4. Occupied' > 0 => LastOut < Shown(0)'
    <3>1. Occupied' > 0 => Shown(0)' = Shown(1) /\ 1 \in 0 .. Occupied - 1
      BY <1>2, <1>5
    <3>2. QED BY <1>2, <1>6, <3>1 DEF FramesInv, QueueOrdered
  <2>5. QED BY <1>1, <1>4, <2>2, <2>3, <2>4 DEF FramesInv, QueueOrdered
<1>11. NoneMissing'
  <2> SUFFICES ASSUME NEW f \in 1 .. frame, f \notin dropped, ~ (f <= LastOut),
                      ~ (AtHand /\ f = frame)
               PROVE  \E i \in 0 .. Occupied' - 1 : Shown(i)' = f
    BY <1>1, <1>4 DEF NoneMissing
  <2>1. PICK i \in 0 .. Occupied - 1 : Shown(i) = f
    BY DEF FramesInv, NoneMissing
  <2>2. i # 0
    BY <1>6, <2>1, ShownIsFrame
  <2>3. i - 1 \in 0 .. Occupied' - 1 /\ (i - 1) + 1 = i
    BY <1>2, <2>2
  <2>4. QED BY <1>5, <2>1, <2>3
<1>12. QED BY <1>7, <1>9, <1>10, <1>11 DEF FramesInv

LEMMA FramesStep ==
    ASSUME RingInv, CountInv, FramesInv, [Next]_vars, ~lost'
    PROVE  FramesInv'
BY GrowFrames, WriteFrames, QuietFrames, CaptureFrames, DropFrames,
   MoveTailFrames, CopyFrames, AdvanceFrames
   DEF Next, Grabber, DemuxerStep

(* The demuxer gets the frames in the order they were captured in, each    *)
(* once and whole and with its own timestamp, and only those are missing   *)
(* that the grabber dropped, for a ring of any size that grows whenever it *)
(* is full: in every behaviour video_grabber and grab_video_frame lose     *)
(* nothing before they lose an update of video_cnt.                        *)
THEOREM FramesAlwaysInOrder == Spec => []FramesInOrder
<1>1. RingInv /\ (~lost => CountInv) /\ (~lost => FramesInv) /\ [Next]_vars
          => (~lost => FramesInv)'
  BY FramesStep, LostForGood
<1>2. (~lost => FramesInv) => FramesInOrder
  BY DEF FramesInv, FramesInOrder
<1>3. Init => (~lost => FramesInv)
  BY FramesInit
<1>4. QED BY <1>1, <1>2, <1>3, CountUntilLost, RingAlways, PTL DEF Spec
=============================================================================
